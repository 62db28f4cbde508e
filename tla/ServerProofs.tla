---------------------------- MODULE ServerProofs ----------------------------
(***************************************************************************)
(* Steps of Server keep the order of the closures that the loops have      *)
(* still to run, and with it the invariant of ServerFdProofs; what follows *)
(* from the invariant; that Server keeps count of its connections and      *)
(* forgets none; and that nothing keeps Stop from coming to its end.  All  *)
(* for any number of loops, connections and descriptor numbers.            *)
(***************************************************************************)
EXTENDS ServerFdProofs

USE DEF loopVars, mapVars, connVars, stopVars, Statuses

-----------------------------------------------------------------------------
(* Tasks *)

\* Sequence p2 is p without its first d elements, followed by s.
Follows(p2, p, d, s) ==
    /\ Len(p2) = Len(p) - d + Len(s)
    /\ \A i \in 1..Len(p2) :
          p2[i] = IF i <= Len(p) - d THEN p[i + d] ELSE s[i - (Len(p) - d)]

\* What queueing closures, running one and swapping the queues do to the tasks
\* a loop has still to run.
LEMMA FollowCases ==
    ASSUME NEW r \in Seq(Tasks), NEW q \in Seq(Tasks), NEW s \in Seq(Tasks)
    PROVE  /\ Follows(r \o (q \o s), r \o q, 0, s)
           /\ r # <<>> => Follows(Tail(r) \o q, r \o q, 1, <<>>)
           /\ r # <<>> => Follows(Tail(r) \o (q \o s), r \o q, 1, s)
           /\ Follows(q \o <<>>, r \o q, Len(r), <<>>)
<1>1. Follows(r \o (q \o s), r \o q, 0, s)
  BY DEF Follows
<1>2. ASSUME r # <<>> PROVE Follows(Tail(r) \o q, r \o q, 1, <<>>)
  BY <1>2, TailElements DEF Follows
<1>3. ASSUME r # <<>> PROVE Follows(Tail(r) \o (q \o s), r \o q, 1, s)
  BY <1>3, TailElements DEF Follows
<1>4. Follows(q \o <<>>, r \o q, Len(r), <<>>)
  BY DEF Follows
<1> QED BY <1>1, <1>2, <1>3, <1>4, Zenon

\* An element of p2 is one of p, or one of s.
LEMMA FollowElements ==
    ASSUME NEW p \in Seq(Tasks), NEW p2 \in Seq(Tasks), NEW s \in Seq(Tasks),
           NEW d \in 0..Len(p), Follows(p2, p, d, s), NEW i \in 1..Len(p2)
    PROVE  \/ i <= Len(p) - d /\ i + d \in (d + 1)..Len(p) /\ p2[i] = p[i + d]
           \/ /\ i > Len(p) - d /\ i - (Len(p) - d) \in 1..Len(s)
              /\ p2[i] = s[i - (Len(p) - d)]
BY DEF Follows

\* The order of the tasks is kept if a connect is queued alone, in order after
\* all that are there.
LEMMA OrderKept ==
    ASSUME NEW p \in Seq(Tasks), NEW p2 \in Seq(Tasks), NEW s \in Seq(Tasks),
           NEW d \in 0..Len(p), Follows(p2, p, d, s),
           \A i, j \in 1..Len(p) : i < j => InOrder(p[i], p[j]),
           \A i \in 1..Len(s) : s[i].op = "connect" =>
              Len(s) = 1 /\ \A j \in 1..Len(p) : InOrder(p[j], s[i])
    PROVE  \A i, j \in 1..Len(p2) : i < j => InOrder(p2[i], p2[j])
<1> SUFFICES ASSUME NEW i \in 1..Len(p2), NEW j \in 1..Len(p2), i < j
             PROVE  InOrder(p2[i], p2[j])
  BY Zenon
<1>1. CASE j <= Len(p) - d
  <2>1. p2[i] = p[i + d] /\ p2[j] = p[j + d] /\ i + d \in 1..Len(p) /\ j + d \in 1..Len(p)
    BY <1>1 DEF Follows
  <2> QED BY <2>1
<1>2. CASE j > Len(p) - d
  <2>0. j - (Len(p) - d) \in 1..Len(s) /\ p2[j] = s[j - (Len(p) - d)]
    BY <1>2, FollowElements
  <2>1. PICK k \in 1..Len(s) : k = j - (Len(p) - d) /\ p2[j] = s[k]
    BY <2>0, Zenon
  <2>2. CASE s[k].op = "connect"
    <3>1. Len(s) = 1 /\ k = 1
      BY <2>1, <2>2
    <3>2. i <= Len(p) - d
      <4>1. Len(p) \in Nat /\ d \in Nat /\ i \in Nat /\ j \in Nat
        OBVIOUS
      <4> QED BY <2>1, <3>1, <4>1
    <3>3. i + d \in 1..Len(p) /\ p2[i] = p[i + d]
      BY <3>2 DEF Follows
    <3> QED BY <2>1, <2>2, <3>3, Zenon
  <2>3. CASE s[k].op # "connect"
    BY <2>1, <2>3, Zenon DEF InOrder
  <2> QED BY <2>2, <2>3, Zenon
<1> QED BY <1>1, <1>2

\* A step keeps the tasks in order if what a task rests on survives it, and if
\* what the step queues in its loop l may come after what is there.
LEMMA TasksKept ==
    ASSUME TypeOK, TypeOK', TaskInv, NEW l \in Loops, NEW s \in Seq(Tasks),
           NEW d \in 0..Len(Pending(l)), Follows(Pending(l)', Pending(l), d, s),
           \A m \in Loops \ {l} : Pending(m)' = Pending(m),
           \A m \in Loops : \A t \in Tasks :
              /\ TaskOK(m, t)
              /\ m = l => \A i \in 1..d : InOrder(Pending(l)[i], t)
              => TaskOK(m, t)',
           \A i \in 1..Len(s) :
              /\ TaskOK(l, s[i])'
              /\ s[i].op = "connect" =>
                    Len(s) = 1 /\ \A t \in Tasks : TaskOK(l, t) => InOrder(t, s[i])
    PROVE  TaskInv'
<1>1. \A m \in Loops : Pending(m) \in Seq(Tasks) /\ Pending(m)' \in Seq(Tasks)
  BY DEF TypeOK, Pending
<1>2. /\ \A m \in Loops : \A i \in 1..Len(Pending(m)) : TaskOK(m, Pending(m)[i])
      /\ \A m \in Loops : \A i, j \in 1..Len(Pending(m)) :
            i < j => InOrder(Pending(m)[i], Pending(m)[j])
  BY Zenon DEF TaskInv
<1>3. ASSUME NEW m \in Loops \ {l}, NEW i \in 1..Len(Pending(m)')
      PROVE  TaskOK(m, Pending(m)[i])'
  <2>1. PICK t \in Tasks : t = Pending(m)[i]
    BY <1>1, <1>3
  <2>2. Pending(m)'[i] = t /\ TaskOK(m, t)
    BY <1>2, <1>3, <2>1, Zenon
  <2>3. TaskOK(m, t)'
    BY <2>2, Zenon
  <2> QED BY <2>2, <2>3, Zenon DEF TaskOK, Reached
<1>4. ASSUME NEW i \in 1..Len(Pending(l)')
      PROVE  TaskOK(l, Pending(l)[i])'
  <2>1. \/ i + d \in (d + 1)..Len(Pending(l)) /\ Pending(l)'[i] = Pending(l)[i + d]
        \/ \E k \in 1..Len(s) : Pending(l)'[i] = s[k]
    BY <1>1, FollowElements, SMTT(30)
  <2>2. CASE i + d \in (d + 1)..Len(Pending(l)) /\ Pending(l)'[i] = Pending(l)[i + d]
    <3>1. PICK t \in Tasks : t = Pending(l)[i + d]
      BY <1>1, <2>2
    <3>2. /\ i + d \in 1..Len(Pending(l))
          /\ \A k \in 1..d : k \in 1..Len(Pending(l)) /\ k < i + d
      BY <1>1, <2>2
    <3>3. TaskOK(l, t) /\ \A k \in 1..d : InOrder(Pending(l)[k], t)
      BY <1>2, <3>1, <3>2, Zenon
    <3>4. TaskOK(l, t)'
      BY <3>3, Zenon
    <3> QED BY <2>2, <3>1, <3>4, Zenon DEF TaskOK, Reached
  <2>3. CASE \E k \in 1..Len(s) : Pending(l)'[i] = s[k]
    <3>1. PICK k \in 1..Len(s) : Pending(l)'[i] = s[k]
      BY <2>3, Zenon
    <3>2. TaskOK(l, s[k])'
      BY Zenon
    <3> QED BY <3>1, <3>2, Zenon DEF TaskOK, Reached
  <2> QED BY <2>1, <2>2, <2>3, Zenon
<1>5. \A i, j \in 1..Len(Pending(l)') : i < j => InOrder(Pending(l)'[i], Pending(l)'[j])
  <2>1. \A i \in 1..Len(s) : s[i].op = "connect" =>
           Len(s) = 1 /\ \A j \in 1..Len(Pending(l)) : InOrder(Pending(l)[j], s[i])
    BY <1>1, <1>2
  <2> QED BY <1>1, <1>2, <2>1, OrderKept, Zenon
<1> QED BY <1>2, <1>3, <1>4, <1>5, ZenonT(40) DEF TaskInv, InOrder

\* A loop that has left Poll never returns to it.
LEMMA ReachedStays ==
    ASSUME TypeOK, [Next]_vars
    PROVE  \A m \in Loops : Reached(m) => Reached(m)'
<1> SUFFICES ASSUME loopPc[Listener] = "exited" PROVE loopPc'[Listener] = "exited"
  BY Zenon DEF Reached
<1> USE LoopNumbers DEF TypeOK
<1>1. ASSUME NEW l \in Loops, LoopStep(l) PROVE loopPc'[Listener] = "exited"
  BY <1>1, Zenon DEF LoopStep, PollStart, StartRound, RunTask, EndOfRound, FinishClose
<1>2. ASSUME NEW l \in Loops, NEW c \in Conns, HandleEvent(l, c)
      PROVE  loopPc' = loopPc
  BY <1>2, Zenon DEF HandleEvent
<1>3. CASE Start \/ StartReturns \/ Stop
  BY <1>3, Zenon DEF Start, StartReturns, Stop
<1>4. CASE StopStep
  BY <1>4, Zenon DEF StopStep, StopQueue, StopCount, StopClose, StopWait
<1>5. ASSUME NEW c \in Conns, NEW fd \in Fds, NEW l \in WorkLoops, Accept(c, fd, l)
      PROVE  loopPc' = loopPc
  BY <1>5, Zenon DEF Accept
<1>6. ASSUME NEW c \in Conns, UserClose(c) \/ UserCloseQueue(c) \/ ShutdownWrite(c)
      PROVE  loopPc' = loopPc
  BY <1>6, Zenon DEF UserClose, UserCloseQueue, ShutdownWrite
<1>7. CASE UNCHANGED vars
  BY <1>7, Zenon DEF vars
<1> QED BY <1>1, <1>2, <1>3, <1>4, <1>5, <1>6, <1>7, Zenon DEF Next, AcceptStep

-----------------------------------------------------------------------------
(* The tasks through the steps *)

\* A task rests on what it rested on if its connection is as it was, or has
\* gone from open to closed, or been opened by another task.
LEMMA TaskStays ==
    ASSUME NEW m \in Loops, NEW t \in Tasks, TaskOK(m, t), Reached(m) => Reached(m)',
           t.op = "connect" => status'[t.conn] = "accepted",
           t.op = "connect" /\ ~EarlyStop => ~socketsNil'[m],
           t.op = "close" => status'[t.conn] \in {"open", "closing", "closed"},
           t.op # "stop" => connLoop'[t.conn] = connLoop[t.conn]
    PROVE  TaskOK(m, t)'
<1>1. t.op = "connect" => TaskOK(m, t)'
  BY Zenon DEF TaskOK
<1>2. t.op = "close" => TaskOK(m, t)'
  BY Zenon DEF TaskOK
<1>3. t.op = "stop" => TaskOK(m, t)'
  BY Zenon DEF TaskOK
<1> QED BY <1>1, <1>2, <1>3, Zenon DEF Tasks

\* A step that does not touch the queues keeps the tasks, if it keeps what each
\* of them rests on.
LEMMA TasksUntouched ==
    ASSUME TypeOK, TaskInv, UNCHANGED <<queue, round>>,
           \A m \in Loops : \A t \in Tasks : TaskOK(m, t) => TaskOK(m, t)'
    PROVE  TaskInv'
<1>1. \A m \in Loops : Pending(m)' = Pending(m) /\ Pending(m) \in Seq(Tasks)
  BY DEF Pending, TypeOK
<1>2. ASSUME NEW m \in Loops, NEW i \in 1..Len(Pending(m)') PROVE TaskOK(m, Pending(m)[i])'
  <2>1. PICK t \in Tasks : t = Pending(m)[i]
    BY <1>1, <1>2
  <2>2. TaskOK(m, t)'
    BY <1>1, <1>2, <2>1, Zenon DEF TaskInv
  <2> QED BY <1>1, <2>1, <2>2, Zenon DEF TaskOK, Reached
<1> QED BY <1>1, <1>2, Zenon DEF TaskInv, InOrder

\* Queueing a sequence of tasks in loop l.
LEMMA TasksQueued ==
    ASSUME TypeOK, TypeOK', TaskInv, NEW l \in Loops, NEW s \in Seq(Tasks),
           QueueInLoop(l, s), UNCHANGED round,
           \A m \in Loops : \A t \in Tasks : TaskOK(m, t) => TaskOK(m, t)',
           \A i \in 1..Len(s) :
              /\ TaskOK(l, s[i])'
              /\ s[i].op = "connect" =>
                    Len(s) = 1 /\ \A t \in Tasks : TaskOK(l, t) => InOrder(t, s[i])
    PROVE  TaskInv'
<1>1. queue \in [Loops -> Seq(Tasks)] /\ round \in [Loops -> Seq(Tasks)]
  BY Zenon DEF TypeOK
<1>2. Pending(l)' = round[l] \o (queue[l] \o s)
  BY <1>1, Zenon DEF Pending, QueueInLoop
<1>3. \A m \in Loops \ {l} : Pending(m)' = Pending(m)
  BY <1>1, Zenon DEF Pending, QueueInLoop
<1>4. Follows(Pending(l)', Pending(l), 0, s)
  BY <1>1, <1>2, FollowCases, Zenon DEF Pending
<1>5. 0 \in 0..Len(Pending(l))
  BY <1>1 DEF Pending
<1> QED BY <1>3, <1>4, <1>5, TasksKept, Zenon

\* Running the first task of loop l, which may queue others.
LEMMA TasksRun ==
    ASSUME TypeOK, TypeOK', TaskInv, NEW l \in Loops, NEW s \in Seq(Tasks), round[l] # <<>>,
           QueueInLoop(l, s) \/ (s = <<>> /\ UNCHANGED queue),
           round' = [round EXCEPT ![l] = Tail(@)],
           \A m \in Loops : \A t \in Tasks :
              TaskOK(m, t) /\ (m = l => InOrder(Head(round[l]), t)) => TaskOK(m, t)',
           \A i \in 1..Len(s) : TaskOK(l, s[i])' /\ s[i].op # "connect"
    PROVE  TaskInv'
<1>1. queue \in [Loops -> Seq(Tasks)] /\ round \in [Loops -> Seq(Tasks)]
  BY Zenon DEF TypeOK
<1>2. Follows(Pending(l)', Pending(l), 1, s)
  <2>1. CASE QueueInLoop(l, s)
    <3>1. Pending(l)' = Tail(round[l]) \o (queue[l] \o s)
      BY <1>1, <2>1, Zenon DEF Pending, QueueInLoop
    <3> QED BY <1>1, <3>1, FollowCases, Zenon DEF Pending
  <2>2. CASE s = <<>> /\ UNCHANGED queue
    <3>1. Pending(l)' = Tail(round[l]) \o queue[l]
      BY <1>1, <2>2, Zenon DEF Pending
    <3> QED BY <1>1, <2>2, <3>1, FollowCases, Zenon DEF Pending
  <2> QED BY <2>1, <2>2, Zenon
<1>3. \A m \in Loops \ {l} : Pending(m)' = Pending(m)
  BY <1>1, Zenon DEF Pending, QueueInLoop
<1>4. Head(round[l]) = Pending(l)[1] /\ 1 \in 0..Len(Pending(l))
  BY HeadTask, Zenon
<1>5. \A m \in Loops : \A t \in Tasks :
         /\ TaskOK(m, t)
         /\ m = l => \A i \in 1..1 : InOrder(Pending(l)[i], t)
         => TaskOK(m, t)'
  <2>1. 1 \in 1..1
    OBVIOUS
  <2> QED BY <1>4, <2>1, Zenon
<1> QED BY <1>2, <1>3, <1>4, <1>5, TasksKept, Zenon

\* doPendingFunc swaps the queues: the queued tasks become the round.
LEMMA TasksSwapped ==
    ASSUME TypeOK, TypeOK', TaskInv, NEW l \in Loops, StartRound(l)
    PROVE  TaskInv'
<1>1. queue \in [Loops -> Seq(Tasks)] /\ round \in [Loops -> Seq(Tasks)]
  BY Zenon DEF TypeOK
<1>2. Pending(l)' = queue[l] \o <<>>
  BY <1>1, Zenon DEF Pending, StartRound
<1>3. <<>> \in Seq(Tasks) /\ Len(<<>>) = 0
  OBVIOUS
<1>4. Follows(Pending(l)', Pending(l), Len(round[l]), <<>>)
  BY <1>1, <1>2, <1>3, FollowCases, Zenon DEF Pending
<1>5. \A m \in Loops \ {l} : Pending(m)' = Pending(m)
  BY <1>1, Zenon DEF Pending, StartRound
<1>6. Len(round[l]) \in 0..Len(Pending(l))
  BY <1>1 DEF Pending
<1>7. \A m \in Loops : Reached(m) => Reached(m)'
  <2>1. loopPc' = [loopPc EXCEPT ![l] = "run"] /\ loopPc[l] = "wait"
    BY Zenon DEF StartRound
  <2> QED BY <2>1, LoopNumbers, ZenonT(40) DEF Reached, TypeOK
<1>8. \A m \in Loops : \A t \in Tasks : TaskOK(m, t) => TaskOK(m, t)'
  BY <1>7, Zenon DEF TaskOK, StartRound
<1>9. \A i \in 1..Len(<<>>) : FALSE
  BY <1>3
<1> QED BY <1>3, <1>4, <1>5, <1>6, <1>8, <1>9, TasksKept, Zenon

\* A new connection is queued behind tasks for other connections, in a loop
\* that Stop has not reached.
LEMMA TasksAccept ==
    ASSUME TypeOK, TypeOK', TaskInv, NilInv, [Next]_vars,
           NEW c \in Conns, NEW fd \in Fds, NEW l \in WorkLoops, Accept(c, fd, l)
    PROVE  TaskInv'
<1> DEFINE s == <<Task("connect", c)>>
<1>1. /\ status[c] = "none" /\ status' = [status EXCEPT ![c] = "accepted"]
      /\ connLoop' = [connLoop EXCEPT ![c] = l]
      /\ QueueInLoop(l, s) /\ UNCHANGED <<round, socketsNil>>
  BY Zenon DEF Accept
<1>2. status \in [Conns -> Statuses] /\ connLoop \in [Conns -> Loops] /\ l \in Loops
  BY LoopNumbers, Zenon DEF TypeOK
<1>3. ~Reached(l)
  BY LoopNumbers, Zenon DEF Accept, Reached
<1>4. s \in Seq(Tasks) /\ Len(s) = 1 /\ s[1] = Task("connect", c)
  BY DEF Task, Tasks
<1>5. ASSUME NEW m \in Loops, NEW t \in Tasks, TaskOK(m, t) PROVE TaskOK(m, t)'
  <2>1. t.op # "stop" => t.conn \in Conns /\ status[t.conn] # "none"
    BY <1>5, Zenon DEF TaskOK, Tasks
  <2>2. t.op # "stop" => status'[t.conn] = status[t.conn] /\ connLoop'[t.conn] = connLoop[t.conn]
    BY <1>1, <1>2, <2>1, Zenon
  <2> QED BY <1>1, <1>5, <2>2, ReachedStays, TaskStays, Zenon DEF TaskOK
<1>6. TaskOK(l, Task("connect", c))'
  <2>1. ~EarlyStop => ~socketsNil[l]
    BY <1>2, <1>3, Zenon DEF NilInv
  <2>2. status'[c] = "accepted" /\ connLoop'[c] = l
    BY <1>1, <1>2, Zenon
  <2> QED BY <1>1, <2>1, <2>2, Zenon DEF TaskOK, Task
<1>7. ASSUME NEW t \in Tasks, TaskOK(l, t) PROVE InOrder(t, Task("connect", c))
  BY <1>1, <1>3, <1>7, Zenon DEF TaskOK, InOrder, Task
<1>8. \A i \in 1..Len(s) : i = 1
  BY <1>4
<1> HIDE DEF s
<1>9. \A i \in 1..Len(s) :
         /\ TaskOK(l, s[i])'
         /\ s[i].op = "connect" =>
               Len(s) = 1 /\ \A t \in Tasks : TaskOK(l, t) => InOrder(t, s[i])
  BY <1>4, <1>6, <1>7, <1>8, Zenon DEF TaskOK, Reached
<1> QED BY <1>1, <1>2, <1>4, <1>5, <1>9, TasksQueued, ZenonT(40)

\* The connection a closure opens is no other task's to open.
LEMMA TasksConnect ==
    ASSUME TypeOK, TypeOK', TaskInv, [Next]_vars, NEW l \in Loops, RunTask(l),
           Head(round[l]).op = "connect", RunConnect(l, Head(round[l]).conn)
    PROVE  TaskInv'
<1>1. PICK t \in Tasks : t = Head(round[l]) /\ TaskOK(l, t) /\ t.op = "connect"
  BY HeadTask, Zenon DEF RunTask
<1>2. PICK c \in Conns : c = t.conn /\ status[c] = "accepted" /\ connLoop[c] = l
  BY <1>1, Zenon DEF TaskOK, Tasks
<1>3. /\ status' = [status EXCEPT ![c] = "open"] /\ round' = [round EXCEPT ![l] = Tail(@)]
      /\ round[l] # <<>> /\ UNCHANGED <<queue, connLoop, socketsNil>>
  BY <1>1, <1>2, Zenon DEF RunTask, RunConnect
<1>4. status \in [Conns -> Statuses]
  BY Zenon DEF TypeOK
<1>5. ASSUME NEW m \in Loops, NEW u \in Tasks, TaskOK(m, u), m = l => InOrder(t, u)
      PROVE  TaskOK(m, u)'
  <2>1. u.op # "stop" => u.conn \in Conns
    BY Zenon DEF Tasks
  <2>2. u.op = "connect" => u.conn # c
    BY <1>1, <1>2, <1>5, Zenon DEF TaskOK, InOrder
  <2>3. u.op = "connect" => status'[u.conn] = status[u.conn]
    BY <1>3, <1>4, <2>1, <2>2, Zenon
  <2>4. u.op = "close" => status'[u.conn] \in {"open", "closing", "closed"}
    BY <1>3, <1>4, <1>5, <2>1, Zenon DEF TaskOK
  <2> QED BY <1>3, <1>5, <2>3, <2>4, ReachedStays, TaskStays, Zenon DEF TaskOK
<1>6. <<>> \in Seq(Tasks) /\ \A i \in 1..Len(<<>>) : FALSE
  OBVIOUS
<1> QED BY <1>1, <1>3, <1>5, <1>6, TasksRun, ZenonT(40)

\* Closing an open connection disturbs no task.
LEMMA TaskMoves ==
    ASSUME TypeOK, [Next]_vars, NEW c \in Conns, status[c] \in {"open", "closing"},
           NEW v \in {"closing", "closed"}, status' = [status EXCEPT ![c] = v],
           UNCHANGED <<connLoop, socketsNil>>, NEW m \in Loops, NEW t \in Tasks, TaskOK(m, t)
    PROVE  TaskOK(m, t)'
<1>1. status \in [Conns -> Statuses]
  BY Zenon DEF TypeOK
<1>2. t.op # "stop" => t.conn \in Conns
  BY Zenon DEF Tasks
<1>3. t.op = "connect" => status'[t.conn] = status[t.conn]
  BY <1>1, <1>2, Zenon DEF TaskOK
<1>4. t.op = "close" => status'[t.conn] \in {"open", "closing", "closed"}
  BY <1>1, <1>2, Zenon DEF TaskOK
<1> QED BY <1>3, <1>4, ReachedStays, TaskStays, Zenon DEF TaskOK

\* Nor does a step that changes neither connections nor maps.
LEMMA TaskRests ==
    ASSUME TypeOK, [Next]_vars, UNCHANGED <<status, connLoop, socketsNil>>,
           NEW m \in Loops, NEW t \in Tasks, TaskOK(m, t)
    PROVE  TaskOK(m, t)'
BY ReachedStays, TaskStays, Zenon DEF TaskOK

\* The closure of Close.
LEMMA TasksClose ==
    ASSUME TypeOK, TypeOK', TaskInv, [Next]_vars, NEW l \in Loops, RunTask(l),
           Head(round[l]).op = "close", RunClose(l, Head(round[l]).conn)
    PROVE  TaskInv'
<1>1. PICK t \in Tasks : t = Head(round[l]) /\ TaskOK(l, t) /\ t.op = "close"
  BY HeadTask, Zenon DEF RunTask
<1>2. PICK c \in Conns : c = t.conn /\ status[c] \in {"open", "closing", "closed"}
  BY <1>1, Zenon DEF TaskOK, Tasks
<1>3. /\ round' = [round EXCEPT ![l] = Tail(@)] /\ round[l] # <<>>
      /\ UNCHANGED <<queue, connLoop, socketsNil>>
  BY Zenon DEF RunTask, RunClose, handleClose, DeleteFdInLoop
<1>4. ASSUME NEW m \in Loops, NEW u \in Tasks, TaskOK(m, u) PROVE TaskOK(m, u)'
  <2>1. CASE connected(c)
    <3>1. status[c] = "open" /\ status' = [status EXCEPT ![c] = "closing"]
      BY <1>1, <1>2, <2>1, Zenon DEF RunClose, handleClose, connected
    <3> QED BY <1>3, <1>4, <3>1, TaskMoves, Zenon
  <2>2. CASE ~connected(c)
    <3>1. UNCHANGED status
      BY <1>1, <1>2, <2>2, Zenon DEF RunClose
    <3> QED BY <1>3, <1>4, <3>1, TaskRests, Zenon
  <2> QED BY <2>1, <2>2, Zenon
<1>5. <<>> \in Seq(Tasks) /\ \A i \in 1..Len(<<>>) : FALSE
  OBVIOUS
<1> QED BY <1>3, <1>4, <1>5, TasksRun, Zenon

\* The closure of Stop takes the map away, and no connect is left behind it; it
\* queues Close of connections that the map shows open.
LEMMA TasksStop ==
    ASSUME TypeOK, TypeOK', TaskInv, FdInv, [Next]_vars, NEW l \in Loops, RunTask(l),
           Head(round[l]).op = "stop", RunStop(l)
    PROVE  TaskInv'
<1> DEFINE open == {c \in Range(sockets[l]) \ {NoConn} : connected(c)}
<1>1. PICK t \in Tasks : t = Head(round[l]) /\ TaskOK(l, t) /\ t.op = "stop"
  BY HeadTask, Zenon DEF RunTask
<1>2. PICK order \in [1..Cardinality(open) -> open] :
         QueueInLoop(l, [i \in DOMAIN order |-> Task("close", order[i])])
  BY Zenon DEF RunStop
<1>3. open \in SUBSET (Range(sockets[l]) \ {NoConn})
  BY Zenon
<1>4. ASSUME NEW c \in open PROVE c \in Conns /\ status[c] = "open" /\ connLoop[c] = l
  <2>1. PICK fd \in Fds : sockets[l][fd] = c /\ c # NoConn
    BY <1>4 DEF Range, TypeOK
  <2>2. c \in polled[l]
    BY <2>1, Zenon DEF FdInv, MapPolled
  <2> QED BY <2>2, ZenonT(40) DEF FdInv, PolledOpen, TypeOK
<1> HIDE DEF open
<1> DEFINE s == [i \in DOMAIN order |-> Task("close", order[i])]
<1>5. s \in Seq(Tasks) /\ DOMAIN order = 1..Cardinality(open) /\ Cardinality(open) \in Nat
  BY <1>3, StopTasks, ZenonT(40)
<1>6. /\ round' = [round EXCEPT ![l] = Tail(@)] /\ round[l] # <<>>
      /\ socketsNil' = [socketsNil EXCEPT ![l] = TRUE] /\ UNCHANGED <<status, connLoop>>
  BY Zenon DEF RunTask, RunStop
<1>7. \A i \in 1..Len(s) : TaskOK(l, s[i])' /\ s[i].op # "connect"
  <2>1. Len(s) = Cardinality(open)
    BY <1>5
  <2>2. ASSUME NEW i \in 1..Len(s) PROVE TaskOK(l, s[i])' /\ s[i].op # "connect"
    <3>1. PICK c \in open : s[i] = Task("close", c)
      BY <1>5, <2>1, Zenon
    <3>2. TaskOK(l, Task("close", c))'
      BY <1>4, <1>6, Zenon DEF TaskOK, Task
    <3>3. s[i].op # "connect"
      BY <3>1 DEF Task
    <3> HIDE DEF s
    <3> QED BY <3>1, <3>2, <3>3, Zenon DEF TaskOK, Task
  <2> QED BY <2>2, Zenon
<1>8. ASSUME NEW m \in Loops, NEW u \in Tasks, TaskOK(m, u), m = l => InOrder(t, u)
      PROVE  TaskOK(m, u)'
  <2>1. u.op = "connect" /\ ~EarlyStop => m # l
    BY <1>1, <1>8, Zenon DEF InOrder
  <2>2. u.op = "connect" /\ ~EarlyStop => ~socketsNil'[m]
    BY <1>6, <1>8, <2>1, ZenonT(40) DEF TaskOK, TypeOK
  <2> QED BY <1>6, <1>8, <2>2, ReachedStays, TaskStays, Zenon DEF TaskOK
<1> HIDE DEF s
<1>9. QueueInLoop(l, s)
  BY <1>2, Zenon DEF s
<1> QED BY <1>1, <1>5, <1>6, <1>7, <1>8, <1>9, TasksRun, ZenonT(40)

\* Every step keeps the tasks in order and about what they were queued for.
LEMMA TaskStep ==
    ASSUME TypeOK, TypeOK', StopInv, TaskInv, FdInv, NilInv, [Next]_vars
    PROVE  TaskInv'
<1>1. CASE Quiet
  BY <1>1, TaskRests, TasksUntouched, Zenon DEF Quiet
<1>2. CASE StopQueue
  <2> DEFINE s == <<Task("stop", NoConn)>>
  <2>1. /\ QueueInLoop(stopAt, s) /\ stopAt \in Loops
        /\ UNCHANGED <<round, status, connLoop, socketsNil, loopPc>>
    BY <1>2, Zenon DEF StopQueue, TypeOK
  <2>2. s \in Seq(Tasks) /\ \A i \in 1..Len(s) : s[i] = Task("stop", NoConn)
    BY DEF Task, Tasks
  <2>3. PICK l \in Loops : l = stopAt
    BY <2>1, Zenon
  <2>4. ~EarlyStop => Reached(l)
    <3>1. l # Listener => Listener < l
      BY LoopNumbers DEF Listener
    <3> QED BY <1>2, <2>3, <3>1, LoopNumbers, Zenon DEF StopInv, StopQueue, Reached
  <2> HIDE DEF s
  <2>5. ASSUME NEW i \in 1..Len(s) PROVE TaskOK(l, s[i])' /\ s[i].op # "connect"
    BY <2>1, <2>2, <2>4 DEF TaskOK, Task, Reached
  <2>6. \A m \in Loops : \A t \in Tasks : TaskOK(m, t) => TaskOK(m, t)'
    BY <2>1, TaskRests, Zenon
  <2> QED BY <2>1, <2>2, <2>3, <2>5, <2>6, TasksQueued, Zenon
<1>3. ASSUME NEW c \in Conns, NEW fd \in Fds, NEW l \in WorkLoops, Accept(c, fd, l)
      PROVE  TaskInv'
  BY <1>3, TasksAccept, Zenon
<1>4. ASSUME NEW l \in Loops, StartRound(l) PROVE TaskInv'
  BY <1>4, TasksSwapped, Zenon
<1>5. ASSUME NEW l \in Loops, RunTask(l) PROVE TaskInv'
  BY <1>5, TasksConnect, TasksClose, TasksStop, Zenon DEF RunTask
<1>6. ASSUME NEW l \in Loops, FinishClose(l) PROVE TaskInv'
  <2>1. PICK c \in Conns : c = closing[l]
    BY <1>6 DEF FinishClose, TypeOK
  <2>2. status[c] = "closing"
    BY <2>1, ServerAssumption, Zenon DEF FdInv, ClosesOwn
  <2>3. /\ status' = [status EXCEPT ![c] = "closed"]
        /\ UNCHANGED <<queue, round, connLoop, socketsNil>>
    BY <1>6, <2>1, Zenon DEF FinishClose
  <2>4. \A m \in Loops : \A t \in Tasks : TaskOK(m, t) => TaskOK(m, t)'
    BY <2>2, <2>3, TaskMoves, ZenonT(40)
  <2> QED BY <2>3, <2>4, TasksUntouched, Zenon
<1>7. ASSUME NEW l \in Loops, NEW c \in Conns, HandleEvent(l, c) PROVE TaskInv'
  <2>1. connFd[c] \in Fds
    BY <1>7, Zenon DEF HandleEvent, FdInv, HasFd, PolledOpen, TypeOK
  <2>2. PICK d \in Conns : d = sockets[l][connFd[c]]
    BY <1>7, <2>1 DEF HandleEvent, TypeOK
  <2>3. status[d] = "open"
    BY <2>1, <2>2, ServerAssumption, ZenonT(40) DEF FdInv, MapPolled, PolledOpen
  <2>4. /\ status' = [status EXCEPT ![d] = "closing"]
        /\ UNCHANGED <<queue, round, connLoop, socketsNil>>
    BY <1>7, <2>2, Zenon DEF HandleEvent, handleClose, DeleteFdInLoop
  <2>5. \A m \in Loops : \A t \in Tasks : TaskOK(m, t) => TaskOK(m, t)'
    BY <2>3, <2>4, TaskMoves, Zenon
  <2> QED BY <2>4, <2>5, TasksUntouched, Zenon
<1>8. ASSUME NEW c \in Conns, UserCloseQueue(c) PROVE TaskInv'
  <2>0. PICK s \in Seq(Tasks) : s = <<Task("close", c)>>
    <3>1. Task("close", c) \in Tasks
      BY Zenon DEF Task, Tasks
    <3>2. <<Task("close", c)>> \in Seq(Tasks)
      BY <3>1
    <3> QED BY <3>2, Zenon
  <2>1. PICK l \in Loops : l = connLoop[c]
    BY Zenon DEF TypeOK
  <2>2. QueueInLoop(l, s) /\ UNCHANGED <<round, status, connLoop, socketsNil>>
    BY <1>8, <2>0, <2>1, Zenon DEF UserCloseQueue
  <2>3. \A i \in 1..Len(s) : s[i] = Task("close", c)
    BY <2>0
  <2>4. status[c] \in {"open", "closing", "closed"}
    BY <1>8, Zenon DEF UserCloseQueue, FdInv, TestedOpen
  <2>5. ASSUME NEW i \in 1..Len(s) PROVE TaskOK(l, s[i])' /\ s[i].op # "connect"
    BY <2>1, <2>2, <2>3, <2>4 DEF TaskOK, Task, Reached
  <2>6. \A m \in Loops : \A t \in Tasks : TaskOK(m, t) => TaskOK(m, t)'
    BY <2>2, TaskRests, Zenon
  <2>7. UNCHANGED round
    BY <2>2, Zenon
  <2> QED BY <2>2, <2>5, <2>6, <2>7, TasksQueued, Zenon
<1> QED BY <1>1, <1>2, <1>3, <1>4, <1>5, <1>6, <1>7, <1>8, Kinds, Zenon

\* The map of a loop is taken away by Stop's closure only, and no closure that
\* writes to it is left then.
LEMMA NilStep ==
    ASSUME TypeOK, TaskInv, FdInv, NilInv, [Next]_vars
    PROVE  NilInv'
<1> SUFFICES ASSUME ~EarlyStop PROVE NilInv'
  BY Zenon DEF NilInv
<1>1. ~panicked /\ \A m \in Loops : socketsNil[m] => Reached(m)
  BY Zenon DEF NilInv
<1>2. ASSUME UNCHANGED <<panicked, socketsNil>> PROVE NilInv'
  BY <1>1, <1>2, ReachedStays, Zenon DEF NilInv
<1>3. ASSUME NEW l \in Loops, RunTask(l) PROVE NilInv'
  <2>1. PICK t \in Tasks : t = Head(round[l]) /\ TaskOK(l, t)
    BY <1>3, HeadTask, Zenon DEF RunTask
  <2>2. CASE t.op = "connect" /\ RunConnect(l, t.conn)
    <3>1. ~socketsNil[l]
      BY <2>1, <2>2, Zenon DEF TaskOK
    <3>2. UNCHANGED <<panicked, socketsNil>>
      BY <2>2, <3>1, Zenon DEF RunConnect
    <3> QED BY <1>2, <3>2, ZenonT(40)
  <2>3. CASE t.op = "close" /\ RunClose(l, t.conn)
    BY <1>2, <2>3, Zenon DEF RunClose, handleClose, DeleteFdInLoop
  <2>4. CASE t.op = "stop" /\ RunStop(l)
    <3>1. socketsNil' = [socketsNil EXCEPT ![l] = TRUE] /\ UNCHANGED panicked
      BY <2>4, Zenon DEF RunStop
    <3>2. Reached(l)
      BY <2>1, <2>4, Zenon DEF TaskOK
    <3>3. \A m \in Loops : socketsNil'[m] => m = l \/ socketsNil[m]
      BY <3>1, Zenon DEF TypeOK
    <3> QED BY <1>1, <3>1, <3>2, <3>3, ReachedStays, Zenon DEF NilInv
  <2> QED BY <1>3, <2>1, <2>2, <2>3, <2>4, ZenonT(40) DEF RunTask
<1>4. CASE Quiet \/ StopQueue
  BY <1>2, <1>4, Zenon DEF Quiet, StopQueue
<1>5. ASSUME NEW c \in Conns, NEW fd \in Fds, NEW l \in WorkLoops, Accept(c, fd, l)
      PROVE  NilInv'
  BY <1>2, <1>5, Zenon DEF Accept
<1>6. ASSUME NEW l \in Loops, StartRound(l) \/ FinishClose(l) PROVE NilInv'
  BY <1>2, <1>6, Zenon DEF StartRound, FinishClose
<1>7. ASSUME NEW l \in Loops, NEW c \in Conns, HandleEvent(l, c) PROVE NilInv'
  BY <1>2, <1>7, Zenon DEF HandleEvent, handleClose, DeleteFdInLoop
<1>8. ASSUME NEW c \in Conns, UserCloseQueue(c) PROVE NilInv'
  BY <1>2, <1>8, Zenon DEF UserCloseQueue
<1> QED BY <1>3, <1>4, <1>5, <1>6, <1>7, <1>8, Kinds, Zenon

-----------------------------------------------------------------------------
(* Results *)

\* Before Start no loop runs and no descriptor has an owner.
LEMMA InitInd == Init => IndInv
<1> SUFFICES ASSUME Init PROVE IndInv
  BY Zenon
<1> USE DEF Init
<1>1. TypeOK
  <2>1. strategy \in [name : {"RoundRobin", "LeastConnection"}, nextLoopIndex : 0..(NumLoops - 1)]
    <3>1. 0 \in 0..(NumLoops - 1)
      BY ServerAssumption
    <3> QED BY <3>1, Zenon
  <2>2. connCunt \in [Loops -> Int]
    OBVIOUS
  <2>3. queue \in [Loops -> Seq(Tasks)] /\ round \in [Loops -> Seq(Tasks)]
    OBVIOUS
  <2>4. /\ loopPc \in [Loops -> {"new", "wait", "run", "exited"}] /\ stopAt \in Loops
        /\ pollRunning \in [Loops -> BOOLEAN] /\ polled \in [Loops -> SUBSET Conns]
        /\ closing \in [Loops -> Conns \cup {NoConn}] /\ socketsNil \in [Loops -> BOOLEAN]
    BY LoopNumbers, Zenon
  <2>5. sockets \in [Loops -> [Fds -> Conns \cup {NoConn}]] /\ owner \in [Fds -> Conns \cup {NoConn}]
    BY Zenon
  <2>6. /\ connFd \in [Conns -> Fds \cup {NoFd}] /\ connLoop \in [Conns -> Loops]
        /\ status \in [Conns -> Statuses] /\ failed \subseteq Conns /\ shutOther \subseteq Conns
        /\ userClose \in [Conns -> {"idle", "tested", "returned"}]
    BY LoopNumbers, Zenon
  <2>7. /\ startPc \in {"new", "waiting", "returned"}
        /\ stopPc \in {"idle", "queue", "count", "close", "wait", "done"}
    BY Zenon
  <2>8. running \in BOOLEAN /\ panicked \in BOOLEAN
    BY Zenon
  <2> HIDE DEF Init
  <2> QED BY <2>1, <2>2, <2>3, <2>4, <2>5, <2>6, <2>7, <2>8, ZenonT(40) DEF TypeOK
<1>2. StopInv
  BY Zenon DEF StopInv
<1>3. TaskInv
  <2>1. \A l \in Loops : Len(Pending(l)) = 0
    BY DEF Pending
  <2>2. \A i \in 1..0 : FALSE
    OBVIOUS
  <2> QED BY <2>1, <2>2, Zenon DEF TaskInv
<1>4. FdInv
  BY Zenon DEF FdInv, HasFd, OwnsFd, PolledOpen, MapPolled, ClosesOwn, TestedOpen
<1>5. NilInv
  BY Zenon DEF NilInv
<1> QED BY <1>1, <1>2, <1>3, <1>4, <1>5, Zenon DEF IndInv

\* The inductive invariant holds of every reachable state.
LEMMA Invariance == Spec => []IndInv
<1>1. ASSUME IndInv, [Next]_vars PROVE IndInv'
  <2>1. TypeOK'
    BY <1>1, TypeStep, Zenon DEF IndInv
  <2> QED BY <1>1, <2>1, StopInvStep, TaskStep, FdStep, NilStep, Zenon DEF IndInv
<1> QED BY <1>1, InitInd, PTL DEF Spec

\* The server's state has its type, whatever connects, closes and stops when.
THEOREM TypeCorrect == Spec => []TypeOK
<1>1. IndInv => TypeOK
  BY Zenon DEF IndInv
<1> QED BY <1>1, Invariance, PTL

\* No descriptor number is ever shared, for any number of loops, connections
\* and numbers, and however early Stop comes.
THEOREM DescriptorsAreOwned == Spec => []OwnFd
<1>1. IndInv => OwnFd
  BY OwnFdHolds, Zenon DEF IndInv
<1> QED BY <1>1, Invariance, PTL

\* When Stop has returned, no loop runs, if Stop was called once the loops ran.
THEOREM StopIsComplete == ASSUME ~EarlyStop PROVE Spec => []StopStopsLoops
<1>1. IndInv => StopStopsLoops
  BY Zenon DEF IndInv, StopInv, StopStopsLoops
<1> QED BY <1>1, Invariance, PTL

\* No connection is entered into a map that Stop has taken away, if Stop was
\* called once the loops ran.
THEOREM MapsOutliveConnects == ASSUME ~EarlyStop PROVE Spec => []NoNilMapWrite
<1>1. IndInv => NoNilMapWrite
  BY Zenon DEF IndInv, NilInv, NoNilMapWrite
<1> QED BY <1>1, Invariance, PTL

-----------------------------------------------------------------------------
(* The count of a loop's connections *)

HIDE DEF loopVars, mapVars, connVars, stopVars, Statuses

Held(l)    == {fd \in Fds : sockets[l][fd] # NoConn}
Refused(l) == {c \in failed : connLoop[c] = l /\ ~connected(c)}

\* The closure of Stop is in no queue.
NoStop ==
    \A l \in Loops : /\ \A i \in 1..Len(round[l]) : round[l][i].op # "stop"
                     /\ \A i \in 1..Len(queue[l]) : queue[l][i].op # "stop"

\* What CountsSockets rests on until Stop: the maps are there, and an open
\* connection is in its loop's unless the poller has refused it.
CountInv ==
    stopPc = "idle" =>
        /\ NoStop /\ \A l \in Loops : ~socketsNil[l]
        /\ IsFiniteSet(failed) /\ failed \subseteq Conns
        /\ \A c \in failed : status[c] \in {"open", "closing", "closed"}
        /\ \A c \in Conns : status[c] = "open" =>
              (c \in failed <=> sockets[connLoop[c]][connFd[c]] # c)
        /\ \A l \in Loops : l # Listener =>
              connCunt[l] = Cardinality(Held(l)) - Cardinality(Refused(l))

\* The sets that are counted are finite.
LEMMA CountedAreFinite ==
    ASSUME IsFiniteSet(failed), NEW l
    PROVE  /\ IsFiniteSet(Held(l)) /\ Cardinality(Held(l)) \in Nat
           /\ IsFiniteSet(Refused(l)) /\ Cardinality(Refused(l)) \in Nat
<1>1. Held(l) \in SUBSET Fds /\ Refused(l) \in SUBSET failed
  BY Zenon DEF Held, Refused
<1> QED BY <1>1, FS_Subset, FS_CardinalityType, ServerAssumption, Zenon

\* A step that touches neither the maps nor the counts keeps the account, if it
\* neither opens nor closes a connection.
LEMMA CountQuiet ==
    ASSUME TypeOK, CountInv, stopPc = "idle", NoStop',
           UNCHANGED <<socketsNil, sockets, connCunt, failed>>,
           \A c \in Conns : status[c] # "none" => connFd'[c] = connFd[c] /\ connLoop'[c] = connLoop[c],
           \A c \in Conns :
              \/ status'[c] = status[c]
              \/ status[c] = "none" /\ status'[c] = "accepted"
              \/ status[c] = "closing" /\ status'[c] = "closed"
    PROVE  CountInv'
<1>1. \A c \in failed : c \in Conns /\ status[c] \in {"open", "closing", "closed"}
  BY Zenon DEF CountInv
<1>2. \A l \in Loops : Held(l)' = Held(l) /\ Refused(l)' = Refused(l)
  BY <1>1, Zenon DEF Held, Refused, connected
<1>3. \A c \in failed' : status'[c] \in {"open", "closing", "closed"}
  BY <1>1, Zenon
<1>4. \A c \in Conns : status'[c] = "open" =>
         (c \in failed' <=> sockets'[connLoop'[c]][connFd'[c]] # c)
  BY Zenon DEF CountInv
<1>5. /\ \A l \in Loops : ~socketsNil'[l]
      /\ IsFiniteSet(failed') /\ failed' \subseteq Conns
  BY Zenon DEF CountInv
<1>6. \A l \in Loops : l # Listener =>
         connCunt'[l] = Cardinality(Held(l)') - Cardinality(Refused(l)')
  BY <1>2 DEF CountInv
<1> QED BY <1>3, <1>4, <1>5, <1>6, ZenonT(40) DEF CountInv

\* handleClose takes an open connection off the map and the count, or off the
\* count alone if the poller had refused it.
LEMMA CountClose ==
    ASSUME TypeOK, FdInv, CountInv, stopPc = "idle", NoStop', NEW l \in Loops, NEW c \in Conns,
           status[c] = "open", connLoop[c] = l, handleClose(l, c),
           UNCHANGED <<connFd, connLoop, failed>>
    PROVE  CountInv'
<1>1. /\ status' = [status EXCEPT ![c] = "closing"]
      /\ sockets' = [sockets EXCEPT ![l][connFd[c]] = NoConn]
      /\ connCunt' = [connCunt EXCEPT ![l] = @ - 1] /\ UNCHANGED socketsNil
  BY Zenon DEF handleClose, DeleteFdInLoop
<1>2. /\ status \in [Conns -> Statuses] /\ connCunt \in [Loops -> Int]
      /\ sockets \in [Loops -> [Fds -> Conns \cup {NoConn}]] /\ connFd[c] \in Fds
  BY Zenon DEF TypeOK, FdInv, HasFd
<1>3. /\ IsFiniteSet(failed) /\ failed \subseteq Conns
      /\ \A d \in failed : status[d] \in {"open", "closing", "closed"}
      /\ \A d \in Conns : status[d] = "open" =>
            (d \in failed <=> sockets[connLoop[d]][connFd[d]] # d)
      /\ \A m \in Loops : m # Listener =>
            connCunt[m] = Cardinality(Held(m)) - Cardinality(Refused(m))
  BY Zenon DEF CountInv
<1>4. ASSUME NEW m \in Loops, m # l PROVE Held(m)' = Held(m) /\ Refused(m)' = Refused(m)
  <2>1. sockets'[m] = sockets[m]
    BY <1>1, <1>2, <1>4, Zenon
  <2>2. \A d \in Conns : connLoop[d] = m => status'[d] = status[d]
    BY <1>1, <1>2, <1>4, Zenon
  <2> QED BY <1>3, <2>1, <2>2 DEF Held, Refused, connected
<1>5. Held(l)' = Held(l) \ {connFd[c]}
  BY <1>1, <1>2, Zenon DEF Held
<1>6. ASSUME NEW d \in Conns, d # c, status[d] = "open"
      PROVE  sockets'[connLoop[d]][connFd[d]] = sockets[connLoop[d]][connFd[d]]
  <2>1. owner[connFd[d]] = d /\ owner[connFd[c]] = c
    BY <1>6, Zenon DEF FdInv, OwnsFd
  <2>2. connFd[d] # connFd[c]
    BY <1>6, <2>1, Zenon
  <2>3. PICK m \in Loops : m = connLoop[d]
    BY Zenon DEF TypeOK
  <2>4. sockets'[m] = IF m = l THEN [sockets[l] EXCEPT ![connFd[c]] = NoConn] ELSE sockets[m]
    BY <1>1, <1>2, Zenon
  <2>5. connFd[d] \in Fds
    BY <1>6, Zenon DEF FdInv, HasFd
  <2> QED BY <1>2, <2>2, <2>3, <2>4, <2>5, ZenonT(40)
<1>7. /\ Cardinality(Held(l)') - Cardinality(Refused(l)')
            = Cardinality(Held(l)) - Cardinality(Refused(l)) - 1
  <2>0. /\ IsFiniteSet(Held(l)) /\ Cardinality(Held(l)) \in Nat
        /\ IsFiniteSet(Refused(l)) /\ Cardinality(Refused(l)) \in Nat
    BY <1>3, CountedAreFinite, ZenonT(40)
  <2>1. CASE c \in failed
    <3>1. Refused(l)' = Refused(l) \cup {c} /\ c \notin Refused(l)
      <4>1. \A d \in Conns : connected(d)' <=> (connected(d) /\ d # c)
        BY <1>1, <1>2, Zenon DEF connected
      <4>2. connected(c)
        BY Zenon DEF connected
      <4> QED BY <1>3, <2>1, <4>1, <4>2, Zenon DEF Refused
    <3>2. connFd[c] \notin Held(l)
      <4>1. sockets[l][connFd[c]] # c
        BY <1>3, <2>1, Zenon
      <4>2. ASSUME NEW d \in Conns, d = sockets[l][connFd[c]] PROVE FALSE
        <5>1. d \in polled[l] /\ connFd[d] = connFd[c]
          BY <1>2, <4>2, ServerAssumption, Zenon DEF FdInv, MapPolled
        <5>2. status[d] = "open"
          BY <5>1, Zenon DEF FdInv, PolledOpen
        <5>3. owner[connFd[d]] = d /\ owner[connFd[c]] = c
          BY <5>2, Zenon DEF FdInv, OwnsFd
        <5> QED BY <4>1, <4>2, <5>1, <5>3, Zenon
      <4> QED BY <1>2, <4>2 DEF Held
    <3>3. Cardinality(Held(l)') = Cardinality(Held(l))
      BY <1>5, <2>0, <3>2, FS_RemoveElement, Zenon
    <3>4. Cardinality(Refused(l)') = Cardinality(Refused(l)) + 1
      BY <2>0, <3>1, FS_AddElement, ZenonT(40)
    <3> QED BY <2>0, <3>3, <3>4
  <2>2. CASE c \notin failed
    <3>1. Refused(l)' = Refused(l)
      <4>1. \A d \in Conns : d # c => status'[d] = status[d]
        BY <1>1, <1>2, Zenon
      <4> QED BY <1>3, <2>2, <4>1, Zenon DEF Refused, connected
    <3>2. connFd[c] \in Held(l)
      BY <1>2, <1>3, <2>2, ServerAssumption, ZenonT(40) DEF Held
    <3>3. Cardinality(Held(l)') = Cardinality(Held(l)) - 1
      BY <1>5, <2>0, <3>2, FS_RemoveElement, ZenonT(40)
    <3> QED BY <2>0, <3>1, <3>3
  <2> QED BY <2>1, <2>2, Zenon
<1>8. ASSUME NEW m \in Loops, m # Listener
      PROVE  connCunt'[m] = Cardinality(Held(m)') - Cardinality(Refused(m)')
  <2>1. connCunt'[m] = IF m = l THEN connCunt[l] - 1 ELSE connCunt[m]
    BY <1>1, <1>2, Zenon
  <2>2. connCunt[m] = Cardinality(Held(m)) - Cardinality(Refused(m))
    BY <1>3, <1>8, ZenonT(40)
  <2>3. CASE m = l
    BY <1>7, <2>1, <2>2, <2>3, Zenon
  <2>4. CASE m # l
    BY <1>4, <2>1, <2>2, <2>4, Zenon
  <2> QED BY <2>3, <2>4, ZenonT(40)
<1>9. \A d \in failed : status'[d] \in {"open", "closing", "closed"}
  BY <1>1, <1>2, <1>3, ZenonT(40)
<1>10. \A d \in Conns : status'[d] = "open" =>
          (d \in failed <=> sockets'[connLoop[d]][connFd[d]] # d)
  <2>1. \A d \in Conns : status'[d] = "open" => d # c /\ status[d] = "open"
    BY <1>1, <1>2, Zenon
  <2> QED BY <1>3, <1>6, <2>1, ZenonT(40)
<1>11. NoStop' /\ (\A m \in Loops : ~socketsNil'[m])
  BY <1>1, Zenon DEF CountInv
<1> QED BY <1>3, <1>8, <1>9, <1>10, <1>11, Zenon DEF CountInv

\* AddSocketAndEnableRead counts the connection that it enters into the map.
LEMMA CountConnect ==
    ASSUME TypeOK, FdInv, CountInv, stopPc = "idle", NoStop', NEW l \in Loops, NEW c \in Conns,
           status[c] = "accepted", connLoop[c] = l, RunConnect(l, c), UNCHANGED <<connFd, connLoop>>
    PROVE  CountInv'
<1>1. /\ status' = [status EXCEPT ![c] = "open"] /\ UNCHANGED socketsNil
      /\ AddSocketAndEnableRead(l, c)
  BY Zenon DEF RunConnect, CountInv
<1>2. /\ status \in [Conns -> Statuses] /\ connCunt \in [Loops -> Int]
      /\ sockets \in [Loops -> [Fds -> Conns \cup {NoConn}]] /\ connFd[c] \in Fds
  BY Zenon DEF TypeOK, FdInv, HasFd
<1>3. /\ IsFiniteSet(failed) /\ failed \subseteq Conns
      /\ \A d \in failed : status[d] \in {"open", "closing", "closed"}
      /\ \A d \in Conns : status[d] = "open" =>
            (d \in failed <=> sockets[connLoop[d]][connFd[d]] # d)
      /\ \A m \in Loops : m # Listener =>
            connCunt[m] = Cardinality(Held(m)) - Cardinality(Refused(m))
  BY Zenon DEF CountInv
<1>4. c \notin failed
  BY <1>3, Zenon
<1>5. connFd[c] \notin Held(l)
  <2>1. ASSUME NEW d \in Conns, d = sockets[l][connFd[c]] PROVE FALSE
    <3>1. d \in polled[l] /\ connFd[d] = connFd[c]
      BY <1>2, <2>1, ServerAssumption, Zenon DEF FdInv, MapPolled
    <3>2. status[d] = "open"
      BY <3>1, Zenon DEF FdInv, PolledOpen
    <3>3. owner[connFd[d]] = d /\ owner[connFd[c]] = c
      BY <3>2, Zenon DEF FdInv, OwnsFd
    <3> QED BY <3>1, <3>2, <3>3, Zenon
  <2> QED BY <1>2, <2>1 DEF Held
<1>6. \A d \in Conns : status'[d] = IF d = c THEN "open" ELSE status[d]
  BY <1>1, <1>2, Zenon
<1>7. ASSUME NEW d \in Conns, d # c, status[d] = "open"
      PROVE  connLoop[d] \in Loops /\ connFd[d] \in Fds /\ connFd[d] # connFd[c]
  <2>1. owner[connFd[d]] = d /\ owner[connFd[c]] = c
    BY <1>7, ZenonT(40) DEF FdInv, OwnsFd
  <2> QED BY <1>7, <2>1, Zenon DEF TypeOK, FdInv, HasFd
<1>8. NoStop' /\ (\A m \in Loops : ~socketsNil'[m])
  BY <1>1, Zenon DEF CountInv
<1>9. CASE /\ sockets' = [sockets EXCEPT ![l][connFd[c]] = c]
           /\ connCunt' = [connCunt EXCEPT ![l] = @ + 1] /\ UNCHANGED failed
  <2>1. \A m \in Loops : Refused(m)' = Refused(m)
    BY <1>3, <1>4, <1>6, <1>9, ZenonT(40) DEF Refused, connected
  <2>2. \A m \in Loops : m # l => Held(m)' = Held(m)
    BY <1>2, <1>9, Zenon DEF Held
  <2>3. Held(l)' = Held(l) \cup {connFd[c]}
    <3>1. c # NoConn
      BY ServerAssumption, Zenon
    <3> QED BY <1>2, <1>9, <3>1, Zenon DEF Held
  <2>4. /\ Cardinality(Held(l)') = Cardinality(Held(l)) + 1 /\ Cardinality(Held(l)) \in Nat
        /\ Cardinality(Refused(l)) \in Nat
    <3>1. /\ IsFiniteSet(Held(l)) /\ Cardinality(Held(l)) \in Nat
          /\ Cardinality(Refused(l)) \in Nat
      BY <1>3, CountedAreFinite, Zenon
    <3> QED BY <1>5, <2>3, <3>1, FS_AddElement, ZenonT(40)
  <2>5. \A m \in Loops : connCunt'[m] = IF m = l THEN connCunt[l] + 1 ELSE connCunt[m]
    BY <1>2, <1>9, ZenonT(40)
  <2>6. \A m \in Loops : m # Listener =>
           connCunt'[m] = Cardinality(Held(m)') - Cardinality(Refused(m)')
    BY <1>3, <2>1, <2>2, <2>4, <2>5
  <2>7. ASSUME NEW d \in Conns, status'[d] = "open"
        PROVE  d \in failed <=> sockets'[connLoop[d]][connFd[d]] # d
    <3>1. CASE d = c
      BY <1>2, <1>4, <1>9, <3>1, Zenon
    <3>2. CASE d # c
      <4>1. status[d] = "open"
        BY <1>6, <2>7, <3>2, Zenon
      <4>2. sockets'[connLoop[d]][connFd[d]] = sockets[connLoop[d]][connFd[d]]
        BY <1>2, <1>7, <1>9, <3>2, <4>1, ZenonT(40)
      <4> QED BY <1>3, <4>1, <4>2, Zenon
    <3> QED BY <3>1, <3>2, Zenon
  <2>8. \A d \in failed : status'[d] \in {"open", "closing", "closed"}
    BY <1>3, <1>6, ZenonT(40)
  <2> QED BY <1>3, <1>8, <1>9, <2>6, <2>7, <2>8, Zenon DEF CountInv
<1>10. CASE /\ sockets' = [sockets EXCEPT ![l][connFd[c]] = NoConn]
            /\ failed' = failed \cup {c} /\ UNCHANGED connCunt
  <2>1. \A m \in Loops : Refused(m)' = Refused(m)
    BY <1>3, <1>4, <1>6, <1>10, ZenonT(40) DEF Refused, connected
  <2>2. \A m \in Loops : Held(m)' = Held(m)
    BY <1>2, <1>5, <1>10, Zenon DEF Held
  <2>3. ASSUME NEW d \in Conns, status'[d] = "open"
        PROVE  d \in failed' <=> sockets'[connLoop[d]][connFd[d]] # d
    <3>1. CASE d = c
      BY <1>2, <1>10, <3>1, ServerAssumption, Zenon
    <3>2. CASE d # c
      <4>1. status[d] = "open"
        BY <1>6, <2>3, <3>2, Zenon
      <4>2. sockets'[connLoop[d]][connFd[d]] = sockets[connLoop[d]][connFd[d]]
        BY <1>2, <1>7, <1>10, <3>2, <4>1, Zenon
      <4> QED BY <1>3, <1>10, <3>2, <4>1, <4>2, Zenon
    <3> QED BY <3>1, <3>2, Zenon
  <2>4. \A d \in failed' : status'[d] \in {"open", "closing", "closed"}
    BY <1>3, <1>6, <1>10, Zenon
  <2>5. IsFiniteSet(failed') /\ failed' \subseteq Conns
    BY <1>3, <1>10, FS_AddElement, Zenon
  <2> QED BY <1>3, <1>8, <1>10, <2>1, <2>2, <2>3, <2>4, <2>5 DEF CountInv
<1> QED BY <1>1, <1>9, <1>10, Zenon DEF AddSocketAndEnableRead

\* A step that leaves closures, maps, counts and connections alone.
Still ==
    UNCHANGED <<queue, round, socketsNil, sockets, connCunt, failed, connFd, connLoop, status>>

\* The steps there are while nobody has called Stop.
LEMMA IdleKinds ==
    ASSUME TypeOK, [Next]_vars, stopPc' = "idle"
    PROVE  /\ stopPc = "idle"
           /\ \/ Still
              \/ \E c \in Conns, fd \in Fds, l \in WorkLoops : Accept(c, fd, l)
              \/ \E l \in Loops : \/ StartRound(l) \/ RunTask(l) \/ FinishClose(l)
                                 \/ \E c \in Conns : HandleEvent(l, c)
              \/ \E c \in Conns : UserCloseQueue(c)
<1> USE DEF stopVars, loopVars, mapVars, connVars
<1>1. CASE Start \/ StartReturns
  BY <1>1, Zenon DEF Start, StartReturns, Still
<1>2. ~Stop /\ ~StopStep
  BY Zenon DEF Stop, StopStep, StopQueue, StopCount, StopClose, StopWait, StopNext
<1>3. ASSUME NEW l \in Loops, PollStart(l) \/ EndOfRound(l) PROVE Still /\ stopPc = "idle"
  BY <1>3, Zenon DEF PollStart, EndOfRound, Still
<1>4. ASSUME NEW c \in Conns, UserClose(c) \/ ShutdownWrite(c) PROVE Still /\ stopPc = "idle"
  BY <1>4, Zenon DEF UserClose, ShutdownWrite, Still
<1>5. CASE UNCHANGED vars
  BY <1>5, Zenon DEF vars, Still
<1>6. ASSUME NEW c \in Conns, NEW fd \in Fds, NEW l \in WorkLoops, Accept(c, fd, l)
      PROVE  stopPc = "idle"
  BY <1>6, Zenon DEF Accept
<1>7. ASSUME NEW l \in Loops, StartRound(l) \/ RunTask(l) \/ FinishClose(l) PROVE stopPc = "idle"
  BY <1>7, ZenonT(40) DEF StartRound, RunTask, FinishClose
<1>8. ASSUME NEW l \in Loops, NEW c \in Conns, HandleEvent(l, c) PROVE stopPc = "idle"
  BY <1>8, Zenon DEF HandleEvent
<1>9. ASSUME NEW c \in Conns, UserCloseQueue(c) PROVE stopPc = "idle"
  BY <1>9, Zenon DEF UserCloseQueue
<1> HIDE DEF stopVars, loopVars, mapVars, connVars
<1> QED BY <1>1, <1>2, <1>3, <1>4, <1>5, <1>6, <1>7, <1>8, <1>9, ZenonT(40)
           DEF Next, AcceptStep, LoopStep

\* A closure other than Stop's may be queued.
LEMMA NoStopQueued ==
    ASSUME TypeOK, NoStop, NEW l \in Loops, NEW t \in Tasks, t.op # "stop",
           QueueInLoop(l, <<t>>), UNCHANGED round
    PROVE  NoStop'
<1> DEFINE s == <<t>>
<1>1. s \in Seq(Tasks) /\ Len(s) = 1 /\ s[1] = t
  OBVIOUS
<1> HIDE DEF s
<1>2. queue \in [Loops -> Seq(Tasks)]
  BY Zenon DEF TypeOK
<1>3. queue' = [queue EXCEPT ![l] = @ \o s]
  BY Zenon DEF QueueInLoop, s
<1>4. ASSUME NEW m \in Loops, NEW i \in 1..Len(queue'[m]) PROVE queue'[m][i].op # "stop"
  <2>1. CASE m # l
    BY <1>2, <1>3, <1>4, <2>1, Zenon DEF NoStop
  <2>2. CASE m = l
    <3>1. PICK q \in Seq(Tasks) : q = queue[l]
      BY <1>2, Zenon
    <3>2. queue'[m] = q \o s
      BY <1>2, <1>3, <2>2, <3>1, Zenon
    <3>3. CASE i \in 1..Len(q) /\ (q \o s)[i] = q[i]
      BY <3>1, <3>2, <3>3, Zenon DEF NoStop
    <3>4. CASE i - Len(q) \in 1..Len(s) /\ (q \o s)[i] = s[i - Len(q)]
      <4>1. i - Len(q) = 1
        BY <1>1, <3>4
      <4> QED BY <1>1, <3>2, <3>4, <4>1, Zenon
    <3>5. i \in 1..Len(q \o s)
      BY <1>4, <3>2, Zenon
    <3> QED BY <1>1, <3>3, <3>4, <3>5, AppendedElements, Zenon
  <2> QED BY <2>1, <2>2, Zenon
<1> QED BY <1>4, Zenon DEF NoStop

\* Until Stop is called none of its closures appears.
LEMMA NoStopStep ==
    ASSUME TypeOK, TaskInv, NoStop, [Next]_vars, stopPc' = "idle"
    PROVE  NoStop'
<1>1. queue \in [Loops -> Seq(Tasks)] /\ round \in [Loops -> Seq(Tasks)]
  BY Zenon DEF TypeOK
<1>2. ASSUME UNCHANGED <<queue, round>> PROVE NoStop'
  BY <1>2, Zenon DEF NoStop
<1>3. ASSUME NEW c \in Conns, NEW fd \in Fds, NEW l \in WorkLoops, Accept(c, fd, l)
      PROVE  NoStop'
  <2>1. Task("connect", c) \in Tasks /\ Task("connect", c).op # "stop"
    BY Zenon DEF Task, Tasks
  <2>2. QueueInLoop(l, <<Task("connect", c)>>) /\ UNCHANGED round /\ l \in Loops
    BY <1>3, LoopNumbers, Zenon DEF Accept
  <2> QED BY <2>1, <2>2, NoStopQueued, ZenonT(40)
<1>4. ASSUME NEW c \in Conns, UserCloseQueue(c) PROVE NoStop'
  <2>1. Task("close", c) \in Tasks /\ Task("close", c).op # "stop"
    BY Zenon DEF Task, Tasks
  <2>2. QueueInLoop(connLoop[c], <<Task("close", c)>>) /\ UNCHANGED round /\ connLoop[c] \in Loops
    BY <1>4, Zenon DEF UserCloseQueue, TypeOK
  <2> QED BY <2>1, <2>2, NoStopQueued, Zenon
<1>5. ASSUME NEW l \in Loops, StartRound(l) PROVE NoStop'
  <2>1. /\ round' = [round EXCEPT ![l] = queue[l]]
        /\ queue' = [queue EXCEPT ![l] = <<>>]
    BY <1>5, Zenon DEF StartRound
  <2>2. \A i \in 1..Len(<<>>) : FALSE
    OBVIOUS
  <2>3. \A m \in Loops : /\ round'[m] = IF m = l THEN queue[l] ELSE round[m]
                        /\ queue'[m] = IF m = l THEN <<>> ELSE queue[m]
    BY <1>1, <2>1, Zenon
  <2> QED BY <2>2, <2>3, ZenonT(40) DEF NoStop
<1>6. ASSUME NEW l \in Loops, RunTask(l) PROVE NoStop'
  <2>1. round[l] # <<>> /\ round' = [round EXCEPT ![l] = Tail(@)]
    BY <1>6, Zenon DEF RunTask
  <2>2. PICK r \in Seq(Tasks) : r = round[l]
    BY <1>1, Zenon
  <2>3. Head(r) = r[1] /\ 1 \in 1..Len(r)
    BY <2>1, <2>2, TailElements, Zenon
  <2>4. \A i \in 1..Len(Tail(r)) : i + 1 \in 1..Len(r) /\ Tail(r)[i] = r[i + 1]
    BY <2>1, <2>2, TailElements, Zenon
  <2>5. Head(round[l]).op # "stop"
    BY <2>2, <2>3, ZenonT(40) DEF NoStop
  <2>6. UNCHANGED queue
    BY <1>6, <2>5, Zenon DEF RunTask, RunConnect, RunClose
  <2>7. \A m \in Loops : round'[m] = IF m = l THEN Tail(r) ELSE round[m]
    BY <1>1, <2>1, <2>2, Zenon
  <2>8. \A i \in 1..Len(Tail(r)) : Tail(r)[i].op # "stop"
    BY <2>2, <2>4, Zenon DEF NoStop
  <2> QED BY <2>6, <2>7, <2>8, Zenon DEF NoStop
<1>7. ASSUME NEW l \in Loops, FinishClose(l) PROVE NoStop'
  BY <1>2, <1>7, Zenon DEF FinishClose
<1>8. ASSUME NEW l \in Loops, NEW c \in Conns, HandleEvent(l, c) PROVE NoStop'
  BY <1>2, <1>8, Zenon DEF HandleEvent
<1>9. CASE Still
  BY <1>2, <1>9, Zenon DEF Still
<1> QED BY <1>3, <1>4, <1>5, <1>6, <1>7, <1>8, <1>9, IdleKinds, ZenonT(40)

\* Until Stop every step keeps the account.
LEMMA CountStep ==
    ASSUME TypeOK, TaskInv, FdInv, CountInv, [Next]_vars
    PROVE  CountInv'
<1> SUFFICES ASSUME stopPc' = "idle" PROVE CountInv'
  BY Zenon DEF CountInv
<1>1. stopPc = "idle"
  BY IdleKinds, Zenon
<1>2. NoStop' /\ \A l \in Loops : ~socketsNil[l]
  BY <1>1, NoStopStep, Zenon DEF CountInv
<1>3. status \in [Conns -> Statuses]
  BY Zenon DEF TypeOK
<1>4. ASSUME UNCHANGED <<socketsNil, sockets, connCunt, failed, connFd, connLoop, status>>
      PROVE  CountInv'
  BY <1>1, <1>2, <1>4, CountQuiet, Zenon
<1>5. ASSUME NEW c \in Conns, NEW fd \in Fds, NEW l \in WorkLoops, Accept(c, fd, l)
      PROVE  CountInv'
  <2>1. /\ UNCHANGED <<socketsNil, sockets, connCunt, failed>> /\ status[c] = "none"
        /\ connFd' = [connFd EXCEPT ![c] = fd] /\ connLoop' = [connLoop EXCEPT ![c] = l]
        /\ status' = [status EXCEPT ![c] = "accepted"]
    BY <1>5, ZenonT(40) DEF Accept, mapVars
  <2>2. \A d \in Conns : status[d] # "none" => connFd'[d] = connFd[d] /\ connLoop'[d] = connLoop[d]
    BY <2>1, Zenon DEF TypeOK
  <2>3. \A d \in Conns : status'[d] = IF d = c THEN "accepted" ELSE status[d]
    BY <1>3, <2>1, ZenonT(40)
  <2> QED BY <1>1, <1>2, <2>1, <2>2, <2>3, CountQuiet, Zenon
<1>6. ASSUME NEW l \in Loops, FinishClose(l) PROVE CountInv'
  <2>1. PICK c : c = closing[l]
    BY Zenon
  <2>2. /\ UNCHANGED <<socketsNil, sockets, connCunt, failed, connFd, connLoop>>
        /\ status' = [status EXCEPT ![c] = "closed"] /\ c # NoConn
    BY <1>6, <2>1, Zenon DEF FinishClose, mapVars
  <2>3. status[c] = "closing"
    BY <2>1, <2>2, Zenon DEF FdInv, ClosesOwn
  <2>4. \A d \in Conns : status'[d] = IF d = c THEN "closed" ELSE status[d]
    BY <1>3, <2>2, Zenon
  <2> QED BY <1>1, <1>2, <2>2, <2>3, <2>4, CountQuiet, Zenon
<1>7. ASSUME NEW l \in Loops, NEW c \in Conns, HandleEvent(l, c) PROVE CountInv'
  <2>1. PICK d : d = sockets[l][connFd[c]]
    BY Zenon
  <2>2. /\ c \in polled[l] /\ d # NoConn /\ handleClose(l, d)
        /\ UNCHANGED <<connFd, connLoop, failed>>
    BY <1>7, <2>1, Zenon DEF HandleEvent
  <2>3. status[c] = "open"
    BY <2>2, Zenon DEF FdInv, PolledOpen
  <2>4. connFd[c] \in Fds
    BY <2>3, Zenon DEF FdInv, HasFd
  <2>5. d \in polled[l]
    BY <2>1, <2>2, <2>4, Zenon DEF FdInv, MapPolled
  <2>6. d \in Conns /\ status[d] = "open" /\ connLoop[d] = l
    BY <2>5, Zenon DEF FdInv, PolledOpen, TypeOK
  <2> QED BY <1>1, <1>2, <2>2, <2>6, CountClose, Zenon
<1>8. ASSUME NEW l \in Loops, RunTask(l) PROVE CountInv'
  <2>1. PICK t \in Tasks : t = Head(round[l]) /\ TaskOK(l, t)
    BY <1>8, HeadTask, Zenon DEF RunTask
  <2>2. UNCHANGED <<connFd, connLoop>>
    BY <1>8, Zenon DEF RunTask
  <2>3. t.op # "stop"
    <3>1. round[l] \in Seq(Tasks) /\ round[l] # <<>>
      BY <1>8, Zenon DEF RunTask, TypeOK
    <3>2. Head(round[l]) = round[l][1] /\ 1 \in 1..Len(round[l])
      BY <3>1, TailElements, Zenon
    <3> QED BY <1>1, <2>1, <3>2, Zenon DEF CountInv, NoStop
  <2>4. t.conn \in Conns
    BY <2>3, Zenon DEF Tasks
  <2>5. CASE t.op = "connect" /\ RunConnect(l, t.conn)
    <3>1. status[t.conn] = "accepted" /\ connLoop[t.conn] = l
      BY <2>1, <2>5, Zenon DEF TaskOK
    <3> QED BY <1>1, <1>2, <2>2, <2>4, <2>5, <3>1, CountConnect, ZenonT(40)
  <2>6. CASE t.op = "close" /\ RunClose(l, t.conn)
    <3>1. status[t.conn] \in {"open", "closing", "closed"} /\ connLoop[t.conn] = l
      BY <2>1, <2>6, Zenon DEF TaskOK
    <3>2. UNCHANGED failed
      BY <2>6, Zenon DEF RunClose
    <3>3. CASE connected(t.conn)
      <4>1. status[t.conn] = "open" /\ handleClose(l, t.conn)
        BY <2>6, <3>1, <3>3, Zenon DEF RunClose, connected
      <4> QED BY <1>1, <1>2, <2>2, <2>4, <3>1, <3>2, <4>1, CountClose, ZenonT(40)
    <3>4. CASE ~connected(t.conn)
      BY <1>4, <2>2, <2>6, <3>2, <3>4, Zenon DEF RunClose, mapVars
    <3> QED BY <3>3, <3>4, Zenon
  <2> QED BY <1>8, <2>1, <2>3, <2>5, <2>6, Zenon DEF RunTask
<1>9. ASSUME NEW l \in Loops, StartRound(l) PROVE CountInv'
  BY <1>4, <1>9, Zenon DEF StartRound, mapVars, connVars
<1>10. ASSUME NEW c \in Conns, UserCloseQueue(c) PROVE CountInv'
  BY <1>4, <1>10, Zenon DEF UserCloseQueue, mapVars, connVars
<1>11. CASE Still
  BY <1>4, <1>11, Zenon DEF Still
<1> QED BY <1>5, <1>6, <1>7, <1>8, <1>9, <1>10, <1>11, IdleKinds, ZenonT(40)

\* No loop has a socket to begin with.
LEMMA InitCount == Init => CountInv
<1> SUFFICES ASSUME Init PROVE CountInv
  BY Zenon
<1>1. /\ queue = [l \in Loops |-> <<>>] /\ round = [l \in Loops |-> <<>>]
      /\ sockets = [l \in Loops |-> [fd \in Fds |-> NoConn]]
      /\ socketsNil = [l \in Loops |-> FALSE]
      /\ connCunt = [l \in Loops |-> IF l = Listener THEN 1 ELSE 0]
      /\ status = [c \in Conns |-> "none"] /\ failed = {}
  BY Zenon DEF Init
<1>2. NoStop
  <2>1. \A i \in 1..Len(<<>>) : FALSE
    OBVIOUS
  <2>2. \A l \in Loops : queue[l] = <<>> /\ round[l] = <<>>
    BY <1>1, Zenon
  <2> QED BY <2>1, <2>2, Zenon DEF NoStop
<1>3. Cardinality({}) = 0 /\ IsFiniteSet({})
  BY FS_EmptySet, Zenon
<1>4. \A l \in Loops : Held(l) = {} /\ Refused(l) = {}
  BY <1>1, Zenon DEF Held, Refused
<1>5. \A l \in Loops : l # Listener => connCunt[l] = Cardinality(Held(l)) - Cardinality(Refused(l))
  <2> SUFFICES ASSUME NEW l \in Loops, l # Listener
               PROVE  connCunt[l] = Cardinality(Held(l)) - Cardinality(Refused(l))
    BY Zenon
  <2>1. connCunt[l] = 0
    BY <1>1, Zenon
  <2>2. Cardinality(Held(l)) = 0 /\ Cardinality(Refused(l)) = 0
    BY <1>3, <1>4, Zenon
  <2> QED BY <2>1, <2>2
<1> QED BY <1>1, <1>2, <1>3, <1>5, ZenonT(40) DEF CountInv

-----------------------------------------------------------------------------
\* ConnCunt, by which LeastConnection picks loops, is off from the sockets of
\* its loop by exactly the closed connections that the poller had refused.
THEOREM CountsAreExact == Spec => []CountsSockets
<1>1. ASSUME IndInv, CountInv, [Next]_vars PROVE CountInv'
  BY <1>1, CountStep, ZenonT(40) DEF IndInv
<1>2. CountInv => CountsSockets
  BY LoopNumbers, Zenon DEF CountInv, CountsSockets, Held, Refused
<1> QED BY <1>1, <1>2, InitCount, Invariance, PTL DEF Spec

-----------------------------------------------------------------------------
(* No accepted connection is forgotten *)

USE DEF loopVars, mapVars, connVars, stopVars, Statuses

\* The closure that opens connection c is in the queue or the round of loop l.
Awaits(l, c) == \E i \in 1..Len(Pending(l)) : Pending(l)[i] = Task("connect", c)

\* Until it is opened, the closure that opens an accepted connection is still
\* to be run in its loop: no step of a loop, of Stop or of Close drops it.
NoneForgotten == \A c \in Conns : status[c] = "accepted" => Awaits(connLoop[c], c)

\* doPendingFunc has run what it has swapped out before it swaps again.
RoundInv == \A l \in Loops : loopPc[l] # "run" => round[l] = <<>>

\* A task that is not among those taken off stays to be run.
LEMMA AwaitedStays ==
    ASSUME NEW p \in Seq(Tasks), NEW p2 \in Seq(Tasks), NEW s \in Seq(Tasks),
           NEW d \in 0..Len(p), Follows(p2, p, d, s), NEW i \in 1..Len(p), i > d
    PROVE  \E j \in 1..Len(p2) : p2[j] = p[i]
<1>1. i - d \in 1..Len(p2) /\ p2[i - d] = p[i]
  BY DEF Follows
<1> QED BY <1>1, Zenon

\* What is queued is to be run.
LEMMA QueuedIsAwaited ==
    ASSUME NEW p \in Seq(Tasks), NEW p2 \in Seq(Tasks), NEW s \in Seq(Tasks),
           Follows(p2, p, 0, s), s # <<>>
    PROVE  \E j \in 1..Len(p2) : p2[j] = s[1]
<1>1. Len(p) + 1 \in 1..Len(p2) /\ p2[Len(p) + 1] = s[1]
  BY DEF Follows
<1> QED BY <1>1, Zenon

\* A step that queues tasks behind others.
LEMMA AwaitsQueued ==
    ASSUME TypeOK, TypeOK', NEW l \in Loops, NEW s \in Seq(Tasks), QueueInLoop(l, s),
           UNCHANGED round, NEW m \in Loops, NEW c
    PROVE  /\ Awaits(m, c) => Awaits(m, c)'
           /\ s # <<>> /\ s[1] = Task("connect", c) => Awaits(l, c)'
<1>1. queue \in [Loops -> Seq(Tasks)] /\ round \in [Loops -> Seq(Tasks)]
  BY Zenon DEF TypeOK
<1>2. Pending(l)' = round[l] \o (queue[l] \o s)
  BY <1>1, Zenon DEF Pending, QueueInLoop
<1>3. m # l => Pending(m)' = Pending(m)
  BY <1>1, Zenon DEF Pending, QueueInLoop
<1>4. Follows(Pending(l)', Pending(l), 0, s)
  BY <1>1, <1>2, FollowCases, Zenon DEF Pending
<1>5. Pending(l) \in Seq(Tasks) /\ Pending(l)' \in Seq(Tasks)
  BY <1>1, <1>2 DEF Pending
<1>6. 0 \in 0..Len(Pending(l))
  BY <1>5
<1>7. Awaits(l, c) => Awaits(l, c)'
  <2> SUFFICES ASSUME Awaits(l, c) PROVE Awaits(l, c)'
    BY Zenon
  <2>1. PICK i \in 1..Len(Pending(l)) : Pending(l)[i] = Task("connect", c)
    BY Zenon DEF Awaits
  <2>2. i > 0
    BY <1>5
  <2>3. \E j \in 1..Len(Pending(l)') : Pending(l)'[j] = Pending(l)[i]
    BY <1>4, <1>5, <1>6, <2>2, AwaitedStays, Zenon
  <2> QED BY <2>1, <2>3, Zenon DEF Awaits
<1>8. ASSUME s # <<>>, s[1] = Task("connect", c) PROVE Awaits(l, c)'
  <2>1. \E j \in 1..Len(Pending(l)') : Pending(l)'[j] = s[1]
    BY <1>4, <1>5, <1>8, QueuedIsAwaited, Zenon
  <2> QED BY <1>8, <2>1, Zenon DEF Awaits
<1> QED BY <1>3, <1>7, <1>8, Zenon DEF Awaits

\* A step that runs the first task of a loop, which may queue others.
LEMMA AwaitsRun ==
    ASSUME TypeOK, TypeOK', TaskInv, NEW l \in Loops, NEW s \in Seq(Tasks), round[l] # <<>>,
           QueueInLoop(l, s) \/ (s = <<>> /\ UNCHANGED queue),
           round' = [round EXCEPT ![l] = Tail(@)],
           NEW m \in Loops, NEW c, Awaits(m, c), m = l => Head(round[l]) # Task("connect", c)
    PROVE  Awaits(m, c)'
<1>1. queue \in [Loops -> Seq(Tasks)] /\ round \in [Loops -> Seq(Tasks)]
  BY Zenon DEF TypeOK
<1>2. Follows(Pending(l)', Pending(l), 1, s)
  <2>1. CASE QueueInLoop(l, s)
    <3>1. Pending(l)' = Tail(round[l]) \o (queue[l] \o s)
      BY <1>1, <2>1, Zenon DEF Pending, QueueInLoop
    <3> QED BY <1>1, <3>1, FollowCases, Zenon DEF Pending
  <2>2. CASE s = <<>> /\ UNCHANGED queue
    <3>1. Pending(l)' = Tail(round[l]) \o queue[l]
      BY <1>1, <2>2, Zenon DEF Pending
    <3> QED BY <1>1, <2>2, <3>1, FollowCases, Zenon DEF Pending
  <2> QED BY <2>1, <2>2, Zenon
<1>3. m # l => Pending(m)' = Pending(m)
  BY <1>1, Zenon DEF Pending, QueueInLoop
<1>4. Head(round[l]) = Pending(l)[1] /\ 1 \in 0..Len(Pending(l))
  BY HeadTask, Zenon
<1>5. queue' \in [Loops -> Seq(Tasks)] /\ round' \in [Loops -> Seq(Tasks)]
  BY Zenon DEF TypeOK
<1>6. Pending(l) \in Seq(Tasks) /\ Pending(l)' \in Seq(Tasks)
  BY <1>1, <1>5 DEF Pending
<1>7. CASE m = l
  <2>1. PICK i \in 1..Len(Pending(l)) : Pending(l)[i] = Task("connect", c)
    BY <1>7, Zenon DEF Awaits
  <2>2. i # 1
    BY <1>4, <1>7, <2>1, Zenon
  <2>3. i > 1
    BY <1>6, <2>2
  <2>4. \E j \in 1..Len(Pending(l)') : Pending(l)'[j] = Pending(l)[i]
    BY <1>2, <1>4, <1>6, <2>3, AwaitedStays
  <2> QED BY <1>7, <2>1, <2>4, Zenon DEF Awaits
<1> QED BY <1>3, <1>7, Zenon DEF Awaits

\* Every step keeps the tasks that open the accepted connections, and a round
\* begins only when the one before it has been run.
LEMMA NoneForgottenStep ==
    ASSUME IndInv, IndInv', RoundInv, NoneForgotten, [Next]_vars
    PROVE  NoneForgotten'
<1>1. TypeOK /\ TypeOK' /\ TaskInv /\ ServerAssumption
  BY ServerAssumption, Zenon DEF IndInv
<1>2. /\ connLoop \in [Conns -> Loops] /\ status \in [Conns -> Statuses]
      /\ queue \in [Loops -> Seq(Tasks)] /\ round \in [Loops -> Seq(Tasks)]
  BY <1>1, Zenon DEF TypeOK
<1>3. CASE Quiet
  BY <1>3, Zenon DEF Quiet, NoneForgotten, Awaits, Pending
<1>4. CASE StopQueue
  <2>1. /\ QueueInLoop(stopAt, <<Task("stop", NoConn)>>) /\ stopAt \in Loops
        /\ UNCHANGED <<round, connLoop, status>>
    BY <1>1, <1>4, Zenon DEF StopQueue, TypeOK
  <2>2. <<Task("stop", NoConn)>> \in Seq(Tasks)
    BY DEF Task, Tasks
  <2>3. \A m \in Loops, c \in Conns : Awaits(m, c) => Awaits(m, c)'
    BY <1>1, <2>1, <2>2, AwaitsQueued, Zenon
  <2> QED BY <1>2, <2>1, <2>3, Zenon DEF NoneForgotten
<1>5. ASSUME NEW d \in Conns, NEW fd \in Fds, NEW l \in WorkLoops, Accept(d, fd, l)
      PROVE  NoneForgotten'
  <2>1. /\ QueueInLoop(l, <<Task("connect", d)>>) /\ UNCHANGED round
        /\ connLoop' = [connLoop EXCEPT ![d] = l]
        /\ status' = [status EXCEPT ![d] = "accepted"]
    BY <1>5, Zenon DEF Accept
  <2>2. l \in Loops
    BY <1>1, LoopNumbers, Zenon
  <2>3. /\ <<Task("connect", d)>> \in Seq(Tasks) /\ <<Task("connect", d)>> # <<>>
        /\ <<Task("connect", d)>>[1] = Task("connect", d)
    BY DEF Task, Tasks
  <2>4. \A m \in Loops, c \in Conns : Awaits(m, c) => Awaits(m, c)'
    BY <1>1, <2>1, <2>2, <2>3, AwaitsQueued, Zenon
  <2>5. Awaits(l, d)'
    BY <1>1, <2>1, <2>2, <2>3, AwaitsQueued, Zenon
  <2> QED BY <1>2, <2>1, <2>4, <2>5, Zenon DEF NoneForgotten
<1>6. ASSUME NEW l \in Loops, StartRound(l) PROVE NoneForgotten'
  <2>1. /\ loopPc[l] = "wait" /\ round' = [round EXCEPT ![l] = queue[l]]
        /\ queue' = [queue EXCEPT ![l] = <<>>] /\ UNCHANGED <<connLoop, status>>
    BY <1>6, Zenon DEF StartRound
  <2>2. round[l] = <<>>
    BY <2>1, Zenon DEF RoundInv
  <2>3. Pending(l) = <<>> \o queue[l] /\ Pending(l)' = queue[l] \o <<>>
    BY <1>2, <2>1, <2>2, Zenon DEF Pending
  <2>4. <<>> \o queue[l] = queue[l] \o <<>>
    BY <1>2
  <2>5. \A m \in Loops : m # l => Pending(m)' = Pending(m)
    BY <1>2, <2>1, Zenon DEF Pending
  <2>6. \A m \in Loops, c \in Conns : Awaits(m, c) => Awaits(m, c)'
    BY <2>3, <2>4, <2>5, Zenon DEF Awaits
  <2> QED BY <1>2, <2>1, <2>6, Zenon DEF NoneForgotten
<1>7. ASSUME NEW l \in Loops, RunTask(l) PROVE NoneForgotten'
  <2> SUFFICES ASSUME NEW c \in Conns, status'[c] = "accepted" PROVE Awaits(connLoop[c], c)'
    BY <1>7, Zenon DEF NoneForgotten, RunTask
  <2>1. /\ round[l] # <<>> /\ round' = [round EXCEPT ![l] = Tail(@)] /\ UNCHANGED connLoop
    BY <1>7, Zenon DEF RunTask
  <2>2. /\ status[c] = "accepted"
        /\ Head(round[l]) # Task("connect", c)
    <3>1. Head(round[l]).op = "connect" /\ RunConnect(l, Head(round[l]).conn) =>
              status[c] = "accepted" /\ Head(round[l]).conn # c
      BY <1>2, Zenon DEF RunConnect
    <3>2. Head(round[l]).op = "close" /\ RunClose(l, Head(round[l]).conn) => status[c] = "accepted"
      BY <1>2, Zenon DEF RunClose, handleClose
    <3>3. Head(round[l]).op = "stop" /\ RunStop(l) => status[c] = "accepted"
      BY Zenon DEF RunStop
    <3>4. Head(round[l]) = Task("connect", c) =>
              Head(round[l]).op = "connect" /\ Head(round[l]).conn = c
      BY DEF Task
    <3>5. "connect" # "close" /\ "connect" # "stop"
      OBVIOUS
    <3> QED BY <1>7, <3>1, <3>2, <3>3, <3>4, <3>5, Zenon DEF RunTask
  <2>3. PICK s \in Seq(Tasks) : QueueInLoop(l, s) \/ (s = <<>> /\ UNCHANGED queue)
    <3>1. <<>> \in Seq(Tasks)
      OBVIOUS
    <3>2. UNCHANGED queue \/ RunStop(l)
      BY <1>7, Zenon DEF RunTask, RunConnect, RunClose
    <3>3. RunStop(l) => \E s \in Seq(Tasks) : QueueInLoop(l, s)
      <4> SUFFICES ASSUME RunStop(l) PROVE \E s \in Seq(Tasks) : QueueInLoop(l, s)
        BY Zenon
      <4> DEFINE open == {c2 \in Range(sockets[l]) \ {NoConn} : connected(c2)}
      <4>1. PICK order \in [1..Cardinality(open) -> open] :
                QueueInLoop(l, [i \in DOMAIN order |-> Task("close", order[i])])
        BY Zenon DEF RunStop
      <4>2. open \in SUBSET (Range(sockets[l]) \ {NoConn})
        BY Zenon
      <4> HIDE DEF open
      <4>3. [i \in DOMAIN order |-> Task("close", order[i])] \in Seq(Tasks)
        BY <1>1, <4>2, StopTasks, Zenon
      <4> QED BY <4>1, <4>3, Zenon
    <3> QED BY <3>1, <3>2, <3>3, Zenon
  <2>4. connLoop[c] \in Loops /\ Awaits(connLoop[c], c)
    BY <1>2, <2>2, Zenon DEF NoneForgotten
  <2> QED BY <1>1, <2>1, <2>2, <2>3, <2>4, AwaitsRun, Zenon
<1>8. ASSUME NEW l \in Loops, FinishClose(l) \/ \E c \in Conns : HandleEvent(l, c)
      PROVE  NoneForgotten'
  <2>1. UNCHANGED <<queue, round, connLoop>>
    BY <1>8, Zenon DEF FinishClose, HandleEvent
  <2>2. \A c \in Conns : status'[c] = "accepted" => status[c] = "accepted"
    BY <1>2, <1>8, Zenon DEF FinishClose, HandleEvent, handleClose
  <2> QED BY <2>1, <2>2, Zenon DEF NoneForgotten, Awaits, Pending
<1>9. ASSUME NEW d \in Conns, UserCloseQueue(d) PROVE NoneForgotten'
  <2>1. /\ QueueInLoop(connLoop[d], <<Task("close", d)>>) /\ connLoop[d] \in Loops
        /\ UNCHANGED <<round, connLoop, status>>
    BY <1>2, <1>9, Zenon DEF UserCloseQueue
  <2>2. <<Task("close", d)>> \in Seq(Tasks)
    BY DEF Task, Tasks
  <2>3. \A m \in Loops, c \in Conns : Awaits(m, c) => Awaits(m, c)'
    BY <1>1, <2>1, <2>2, AwaitsQueued, Zenon
  <2> QED BY <1>2, <2>1, <2>3, Zenon DEF NoneForgotten
<1> QED BY <1>1, <1>3, <1>4, <1>5, <1>6, <1>7, <1>8, <1>9, Kinds, Zenon

\* doPendingFunc has run what it has swapped out before it swaps again.
LEMMA RoundStep ==
    ASSUME TypeOK, RoundInv, [Next]_vars
    PROVE  RoundInv'
<1>1. loopPc \in [Loops -> {"new", "wait", "run", "exited"}] /\ round \in [Loops -> Seq(Tasks)]
  BY Zenon DEF TypeOK
<1>2. CASE UNCHANGED <<loopPc, round>>
  BY <1>2, Zenon DEF RoundInv
<1>3. ASSUME NEW l \in Loops, StartRound(l) \/ RunTask(l) PROVE RoundInv'
  <2>1. \A m \in Loops : m # l => loopPc'[m] = loopPc[m] /\ round'[m] = round[m]
    BY <1>1, <1>3, Zenon DEF StartRound, RunTask
  <2>2. loopPc'[l] = "run"
    BY <1>1, <1>3, Zenon DEF StartRound, RunTask
  <2> QED BY <2>1, <2>2, Zenon DEF RoundInv
<1>4. ASSUME NEW l \in Loops, PollStart(l) \/ EndOfRound(l) PROVE RoundInv'
  <2>1. UNCHANGED round /\ \A m \in Loops : m # l => loopPc'[m] = loopPc[m]
    BY <1>1, <1>4, Zenon DEF PollStart, EndOfRound
  <2>2. "new" # "run"
    OBVIOUS
  <2>3. round[l] = <<>>
    BY <1>4, <2>2, Zenon DEF PollStart, EndOfRound, RoundInv
  <2> QED BY <2>1, <2>3, Zenon DEF RoundInv
<1>5. ASSUME NEW l \in Loops, FinishClose(l) \/ \E c \in Conns : HandleEvent(l, c)
      PROVE  UNCHANGED <<loopPc, round>>
  BY <1>5, Zenon DEF FinishClose, HandleEvent
<1>6. ASSUME Start \/ StartReturns \/ Stop \/ StopStep PROVE UNCHANGED <<loopPc, round>>
  BY <1>6, Zenon DEF Start, StartReturns, Stop, StopStep, StopQueue, StopCount, StopClose, StopWait
<1>7. ASSUME NEW c \in Conns,
             \/ UserClose(c) \/ UserCloseQueue(c) \/ ShutdownWrite(c)
             \/ \E fd \in Fds, l \in WorkLoops : Accept(c, fd, l)
      PROVE  UNCHANGED <<loopPc, round>>
  BY <1>7, Zenon DEF UserClose, UserCloseQueue, ShutdownWrite, Accept
<1>8. CASE UNCHANGED vars
  BY <1>2, <1>8, Zenon DEF vars
<1> QED BY <1>2, <1>3, <1>4, <1>5, <1>6, <1>7, <1>8, Zenon DEF Next, AcceptStep, LoopStep

\* An accepted connection is opened or its closure is still to be run in the
\* loop it was given to, with any number of loops and connections and whenever
\* Stop is called: the safety half of the opening of what was accepted.
THEOREM AcceptedIsNeverDropped == Spec => []NoneForgotten
<1>1. Init => RoundInv /\ NoneForgotten
  <2> SUFFICES ASSUME Init PROVE RoundInv /\ NoneForgotten
    BY Zenon
  <2>1. RoundInv
    BY Zenon DEF Init, RoundInv
  <2>2. "none" # "accepted"
    OBVIOUS
  <2> QED BY <2>1, <2>2, Zenon DEF Init, NoneForgotten
<1>2. IndInv /\ IndInv' /\ RoundInv /\ NoneForgotten /\ [Next]_vars => (RoundInv /\ NoneForgotten)'
  BY NoneForgottenStep, RoundStep, Zenon DEF IndInv
<1> QED BY <1>1, <1>2, Invariance, PTL DEF Spec

-----------------------------------------------------------------------------
(* Stop does not hang *)

\* A loop whose Poll has set running has left its first state, and the one that
\* Stop waits for will find running cleared.
WaitInv ==
    /\ \A l \in Loops : pollRunning[l] => loopPc[l] # "new"
    /\ stopPc = "wait" => loopPc[stopAt] # "new" /\ ~pollRunning[stopAt]

\* What loop l can do next without a client: go on with its round, with the
\* close it is in, or with the eventfd that it was woken through.
Busy(l) ==
    \/ loopPc[l] = "run" \/ closing[l] # NoConn
    \/ loopPc[l] = "wait" /\ (queue[l] # <<>> \/ ~pollRunning[l])

\* The loop that Stop waits for has left Poll or has a step to take.
StopNotStuck == stopPc = "wait" => loopPc[stopAt] = "exited" \/ Busy(stopAt)

\* How far Stop has come with loop stopAt.
StopStage ==
    CASE stopPc = "queue" -> 4 [] stopPc = "count" -> 3 [] stopPc = "close" -> 2
      [] stopPc = "wait" -> 1 [] OTHER -> 0

\* How far the loop that Stop waits for has come, and what it has left to do
\* there: a connection in its map can still close, a task may begin a close.
LoopStage ==
    IF stopPc # "wait" THEN 0
    ELSE CASE loopPc[stopAt] = "wait" -> 2 [] loopPc[stopAt] = "run" -> 1 [] OTHER -> 0

One(b) == IF b THEN 1 ELSE 0

LoopWork ==
    IF stopPc # "wait" THEN 0
    ELSE One(closing[stopAt] # NoConn) +
         CASE loopPc[stopAt] = "wait" -> 2 * Cardinality(Held(stopAt))
           [] loopPc[stopAt] = "run" -> 2 * Len(round[stopAt])
           [] OTHER -> 0

StopRank == <<NumLoops - stopAt, StopStage, LoopStage, LoopWork>>

\* The lexicographic order on such ranks.
Below(a, b) ==
    \/ a[1] < b[1]
    \/ a[1] = b[1] /\ a[2] < b[2]
    \/ a[1] = b[1] /\ a[2] = b[2] /\ a[3] < b[3]
    \/ a[1] = b[1] /\ a[2] = b[2] /\ a[3] = b[3] /\ a[4] < b[4]

\* The steps that bring Stop on: its own and those of the loop it waits for.
StopMoves ==
    \/ StopStep
    \/ stopPc = "wait" /\ (LoopStep(stopAt) \/ \E c \in Conns : HandleEvent(stopAt, c))

\* Every such step lowers the rank, and no step of a client, of a user or of
\* another loop raises it: nothing that others queue meanwhile keeps Stop.
StopComesNearer ==
    [][stopPc \notin {"idle", "done"} =>
          IF StopMoves THEN Below(StopRank', StopRank) ELSE UNCHANGED StopRank]_vars

\* What the rank reads of loop l.
Undisturbed(l) ==
    /\ loopPc'[l] = loopPc[l] /\ closing'[l] = closing[l]
    /\ sockets'[l] = sockets[l] /\ round'[l] = round[l]

\* Running goes up only in Poll, and Stop clears it before it waits.
LEMMA WaitStep ==
    ASSUME TypeOK, TypeOK', WaitInv, [Next]_vars
    PROVE  WaitInv'
<1>1. /\ loopPc \in [Loops -> {"new", "wait", "run", "exited"}] /\ stopAt \in Loops
      /\ pollRunning \in [Loops -> BOOLEAN]
  BY Zenon DEF TypeOK
<1>2. CASE UNCHANGED <<loopPc, pollRunning, stopPc, stopAt>>
  BY <1>2, Zenon DEF WaitInv
<1>3. ASSUME NEW l \in Loops, StartRound(l) \/ EndOfRound(l) PROVE WaitInv'
  <2>1. /\ UNCHANGED <<pollRunning, stopPc, stopAt>> /\ loopPc'[l] # "new"
        /\ \A m \in Loops : m # l => loopPc'[m] = loopPc[m]
    BY <1>1, <1>3 DEF StartRound, EndOfRound
  <2> QED BY <1>1, <2>1, Zenon DEF WaitInv
<1>4. ASSUME NEW l \in Loops, PollStart(l) PROVE WaitInv'
  <2>1. /\ UNCHANGED <<stopPc, stopAt>> /\ loopPc[l] = "new" /\ loopPc'[l] # "new"
        /\ \A m \in Loops : m # l => loopPc'[m] = loopPc[m] /\ pollRunning'[m] = pollRunning[m]
    BY <1>1, <1>4 DEF PollStart
  <2> QED BY <1>1, <2>1, Zenon DEF WaitInv
<1>5. CASE Stop \/ StopQueue \/ StopCount \/ StopWait
  <2>1. UNCHANGED <<loopPc, pollRunning>> /\ stopPc' # "wait"
    BY <1>5 DEF Stop, StopQueue, StopCount, StopWait, StopNext
  <2> QED BY <2>1, Zenon DEF WaitInv
<1>6. CASE StopClose
  <2>1. /\ UNCHANGED loopPc /\ ~pollRunning'[stopAt]
        /\ \A m \in Loops : pollRunning'[m] => pollRunning[m]
    BY <1>1, <1>6, Zenon DEF StopClose
  <2>2. stopPc' = "wait" => pollRunning[stopAt] /\ stopAt' = stopAt
    BY <1>6 DEF StopClose, StopNext
  <2> QED BY <1>1, <2>1, <2>2, Zenon DEF WaitInv
<1>7. ASSUME NEW l \in Loops, RunTask(l) \/ FinishClose(l) \/ \E c \in Conns : HandleEvent(l, c)
      PROVE  UNCHANGED <<loopPc, pollRunning, stopPc, stopAt>>
  BY <1>7, Zenon DEF RunTask, FinishClose, HandleEvent
<1>8. ASSUME Start \/ StartReturns PROVE UNCHANGED <<loopPc, pollRunning, stopPc, stopAt>>
  BY <1>8, Zenon DEF Start, StartReturns
<1>9. ASSUME NEW c \in Conns,
             \/ UserClose(c) \/ UserCloseQueue(c) \/ ShutdownWrite(c)
             \/ \E fd \in Fds, l \in WorkLoops : Accept(c, fd, l)
      PROVE  UNCHANGED <<loopPc, pollRunning, stopPc, stopAt>>
  BY <1>9, Zenon DEF UserClose, UserCloseQueue, ShutdownWrite, Accept
<1>10. CASE UNCHANGED vars
  BY <1>2, <1>10, Zenon DEF vars
<1> QED
  BY <1>2, <1>3, <1>4, <1>5, <1>6, <1>7, <1>8, <1>9, <1>10, Zenon
     DEF Next, AcceptStep, LoopStep, StopStep

\* The four parts of the rank are natural numbers.
LEMMA StopRankType ==
    ASSUME TypeOK
    PROVE  /\ NumLoops - stopAt \in Nat /\ StopStage \in Nat /\ LoopStage \in Nat /\ LoopWork \in Nat
           /\ \A l \in Loops : Cardinality(Held(l)) \in Nat /\ IsFiniteSet(Held(l))
<1>1. \A l \in Loops : Cardinality(Held(l)) \in Nat /\ IsFiniteSet(Held(l))
  <2> SUFFICES ASSUME NEW l \in Loops PROVE Cardinality(Held(l)) \in Nat /\ IsFiniteSet(Held(l))
    BY Zenon
  <2>1. Held(l) \subseteq Fds
    BY Zenon DEF Held
  <2>2. IsFiniteSet(Held(l))
    BY <2>1, FS_Subset, ServerAssumption, Zenon
  <2> QED BY <2>2, FS_CardinalityType, Zenon
<1>2. stopAt \in Loops /\ round[stopAt] \in Seq(Tasks)
  BY Zenon DEF TypeOK
<1>3. NumLoops - stopAt \in Nat
  BY <1>2, LoopNumbers, ServerAssumption
<1>4. StopStage \in Nat /\ LoopStage \in Nat
  BY DEF StopStage, LoopStage
<1>5. Cardinality(Held(stopAt)) \in Nat /\ Len(round[stopAt]) \in Nat
  BY <1>1, <1>2
<1>6. LoopWork \in Nat
  BY <1>5 DEF LoopWork, One
<1> QED BY <1>1, <1>3, <1>4, <1>6, Zenon

\* Going on to the next loop, or past the last.
LEMMA StopNextLowers ==
    ASSUME TypeOK, StopNext, stopPc \in {"close", "wait"}
    PROVE  Below(StopRank', StopRank)
<1>1. stopAt \in Nat /\ NumLoops \in Nat
  BY LoopNumbers, ServerAssumption, Zenon DEF TypeOK
<1>2. CASE stopAt = NumLoops
  <2>1. stopPc' = "done" /\ stopAt' = stopAt
    BY <1>2, Zenon DEF StopNext
  <2>2. StopStage' < StopStage
    BY <2>1 DEF StopStage
  <2> QED BY <2>1, <2>2, Zenon DEF StopRank, Below
<1>3. CASE stopAt # NumLoops
  <2>1. stopAt' = stopAt + 1
    BY <1>3, Zenon DEF StopNext
  <2>2. NumLoops - stopAt' < NumLoops - stopAt
    BY <1>1, <2>1
  <2> QED BY <2>2, Zenon DEF StopRank, Below
<1> QED BY <1>2, <1>3, Zenon

\* Every step of Stop lowers the rank.
LEMMA StopLowers ==
    ASSUME TypeOK, StopStep
    PROVE  Below(StopRank', StopRank)
<1>1. CASE StopQueue
  <2>1. stopAt' = stopAt /\ StopStage' < StopStage
    BY <1>1 DEF StopQueue, StopStage
  <2> QED BY <2>1, Zenon DEF StopRank, Below
<1>2. CASE StopCount
  <2>1. stopAt' = stopAt /\ StopStage' < StopStage
    BY <1>2 DEF StopCount, StopStage
  <2> QED BY <2>1, Zenon DEF StopRank, Below
<1>3. CASE StopClose /\ pollRunning[stopAt]
  <2>1. stopAt' = stopAt /\ stopPc = "close" /\ stopPc' = "wait"
    BY <1>3, Zenon DEF StopClose
  <2>2. StopStage' < StopStage
    BY <2>1 DEF StopStage
  <2> QED BY <2>1, <2>2, Zenon DEF StopRank, Below
<1>4. CASE (StopClose /\ ~pollRunning[stopAt]) \/ StopWait
  <2>1. StopNext /\ stopPc \in {"close", "wait"}
    BY <1>4, Zenon DEF StopClose, StopWait
  <2> QED BY <2>1, StopNextLowers, Zenon
<1> QED BY <1>1, <1>2, <1>3, <1>4, Zenon DEF StopStep

\* A close in the loop's map takes a number out of it.
LEMMA HeldShrinks ==
    ASSUME TypeOK, NEW l \in Loops, NEW fd \in Fds, sockets[l][fd] # NoConn,
           sockets' = [sockets EXCEPT ![l][fd] = NoConn]
    PROVE  Cardinality(Held(l)') = Cardinality(Held(l)) - 1
<1>1. sockets \in [Loops -> [Fds -> Conns \cup {NoConn}]]
  BY Zenon DEF TypeOK
<1>2. sockets'[l] = [sockets[l] EXCEPT ![fd] = NoConn]
  BY <1>1, Zenon
<1>3. fd \in Held(l) /\ Held(l)' = Held(l) \ {fd}
  BY <1>1, <1>2, Zenon DEF Held
<1>4. IsFiniteSet(Held(l))
  BY StopRankType, Zenon
<1> QED BY <1>3, <1>4, FS_RemoveElement, Zenon

\* Every step of the loop that Stop waits for lowers the rank.
LEMMA WaitedLowers ==
    ASSUME IndInv, TypeOK', WaitInv, stopPc = "wait",
           LoopStep(stopAt) \/ \E c \in Conns : HandleEvent(stopAt, c)
    PROVE  Below(StopRank', StopRank)
<1>1. TypeOK /\ FdInv /\ stopAt \in Loops /\ UNCHANGED <<stopPc, stopAt>>
  BY Zenon DEF IndInv, TypeOK, LoopStep, PollStart, StartRound, RunTask, EndOfRound, FinishClose, HandleEvent
<1>at. PICK l \in Loops : l = stopAt
  BY <1>1, Zenon
<1>2. /\ loopPc \in [Loops -> {"new", "wait", "run", "exited"}]
      /\ closing \in [Loops -> Conns \cup {NoConn}] /\ round \in [Loops -> Seq(Tasks)]
      /\ loopPc[l] # "new" /\ ~pollRunning[l]
  BY <1>at, <1>1, Zenon DEF TypeOK, WaitInv
<1>3. StopStage' = StopStage
  BY <1>1, Zenon DEF StopStage
<1>4. /\ LoopStage = CASE loopPc[l] = "wait" -> 2 [] loopPc[l] = "run" -> 1 [] OTHER -> 0
      /\ LoopStage' = CASE loopPc'[l] = "wait" -> 2 [] loopPc'[l] = "run" -> 1 [] OTHER -> 0
  BY <1>at, <1>1, Zenon DEF LoopStage
<1>5. /\ LoopWork = One(closing[l] # NoConn) +
             CASE loopPc[l] = "wait" -> 2 * Cardinality(Held(l))
               [] loopPc[l] = "run" -> 2 * Len(round[l]) [] OTHER -> 0
      /\ LoopWork' = One(closing'[l] # NoConn) +
             CASE loopPc'[l] = "wait" -> 2 * Cardinality(Held(l)')
               [] loopPc'[l] = "run" -> 2 * Len(round'[l]) [] OTHER -> 0
  BY <1>at, <1>1, Zenon DEF LoopWork, Held
<1>6. Cardinality(Held(l)) \in Nat
  BY <1>1, StopRankType, Zenon
<1>7. /\ Len(round[l]) \in Nat /\ One(closing[l] # NoConn) \in 0..1
      /\ One(closing'[l] # NoConn) \in 0..1
  BY <1>1, <1>2 DEF One
<1>8. SUFFICES LoopStage' < LoopStage \/ (LoopStage' = LoopStage /\ LoopWork' < LoopWork)
  BY <1>1, <1>3, Zenon DEF StopRank, Below
<1>9. CASE StartRound(l) \/ EndOfRound(l)
  <2>1. \/ loopPc[l] = "wait" /\ loopPc'[l] = "run"
        \/ loopPc[l] = "run" /\ loopPc'[l] = "exited"
    BY <1>1, <1>2, <1>9, Zenon DEF StartRound, EndOfRound
  <2> QED BY <1>4, <2>1
<1>10. CASE RunTask(l)
  <2>1. /\ loopPc[l] = "run" /\ loopPc'[l] = "run" /\ round[l] # <<>>
        /\ round'[l] = Tail(round[l]) /\ closing[l] = NoConn
    BY <1>1, <1>2, <1>10, Zenon DEF RunTask
  <2>2. Len(round'[l]) = Len(round[l]) - 1
    BY <1>1, <1>2, <2>1
  <2>3. LoopStage' = LoopStage
    BY <1>4, <2>1
  <2>4. /\ LoopWork = One(closing[l] # NoConn) + 2 * Len(round[l])
        /\ LoopWork' = One(closing'[l] # NoConn) + 2 * Len(round'[l])
    BY <1>5, <2>1
  <2> QED BY <1>7, <2>2, <2>3, <2>4
<1>11. CASE FinishClose(l)
  <2>1. /\ closing[l] # NoConn /\ closing'[l] = NoConn /\ loopPc'[l] = loopPc[l]
        /\ round'[l] = round[l] /\ Held(l)' = Held(l)
    BY <1>1, <1>2, <1>11, Zenon DEF FinishClose, Held
  <2>2. LoopStage' = LoopStage
    BY <1>4, <2>1, Zenon
  <2>3. One(closing[l] # NoConn) = 1 /\ One(closing'[l] # NoConn) = 0
    BY <2>1 DEF One
  <2> QED BY <1>5, <1>6, <1>7, <2>1, <2>2, <2>3
<1>12. ASSUME NEW c \in Conns, HandleEvent(l, c)
       PROVE  LoopStage' = LoopStage /\ LoopWork' < LoopWork
  <2> DEFINE d == sockets[l][connFd[c]]
  <2>1. /\ loopPc[l] = "wait" /\ loopPc'[l] = "wait" /\ closing[l] = NoConn
        /\ c \in polled[l] /\ d # NoConn /\ UNCHANGED connFd
        /\ sockets' = [sockets EXCEPT ![l][connFd[d]] = NoConn]
    BY <1>1, <1>12, Zenon DEF HandleEvent, handleClose, DeleteFdInLoop
  <2>2. connFd[c] \in Fds /\ connFd[d] = connFd[c]
    <3>1. status[c] = "open"
      BY <1>1, <2>1, Zenon DEF FdInv, PolledOpen
    <3>2. "open" # "none"
      OBVIOUS
    <3>3. connFd[c] \in Fds
      BY <1>1, <3>1, <3>2, <1>12, Zenon DEF FdInv, HasFd
    <3> QED BY <1>1, <2>1, <3>3, Zenon DEF FdInv, MapPolled
  <2>3. Cardinality(Held(l)') = Cardinality(Held(l)) - 1
    BY <1>1, <2>1, <2>2, HeldShrinks, Zenon
  <2>4. LoopStage' = LoopStage
    BY <1>4, <2>1, Zenon
  <2>5. /\ LoopWork = 0 + 2 * Cardinality(Held(l))
        /\ LoopWork' = One(closing'[l] # NoConn) + 2 * Cardinality(Held(l)')
    BY <1>5, <2>1 DEF One
  <2> QED BY <1>6, <1>7, <2>3, <2>4, <2>5
<1>13. ~PollStart(l)
  BY <1>2, Zenon DEF PollStart
<1> QED BY <1>at, <1>9, <1>10, <1>11, <1>12, <1>13, Zenon DEF LoopStep

\* No other step touches what the rank reads.
LEMMA OthersLeaveRank ==
    ASSUME TypeOK, [Next]_vars, stopPc \notin {"idle", "done"}, ~StopMoves
    PROVE  UNCHANGED StopRank
<1>1. /\ stopAt \in Loops /\ loopPc \in [Loops -> {"new", "wait", "run", "exited"}]
      /\ closing \in [Loops -> Conns \cup {NoConn}] /\ round \in [Loops -> Seq(Tasks)]
      /\ sockets \in [Loops -> [Fds -> Conns \cup {NoConn}]]
  BY Zenon DEF TypeOK
<1>2. UNCHANGED <<stopPc, stopAt>> /\ (stopPc = "wait" => Undisturbed(stopAt))
  <2>1. CASE Start \/ StartReturns \/ UNCHANGED vars
    BY <2>1, Zenon DEF Start, StartReturns, vars, Undisturbed
  <2>2. ~Stop
    BY Zenon DEF Stop
  <2>3. CASE AcceptStep
    BY <2>3, Zenon DEF AcceptStep, Accept, Undisturbed
  <2>4. ASSUME NEW l \in Loops, LoopStep(l) \/ \E c \in Conns : HandleEvent(l, c)
        PROVE  UNCHANGED <<stopPc, stopAt>> /\ (stopPc = "wait" => Undisturbed(stopAt))
    <3>1. UNCHANGED <<stopPc, stopAt>>
      BY <2>4, Zenon DEF LoopStep, PollStart, StartRound, RunTask, EndOfRound, FinishClose, HandleEvent
    <3>2. SUFFICES ASSUME stopPc = "wait" PROVE Undisturbed(stopAt)
      BY <3>1, Zenon
    <3>3. l # stopAt
      BY <2>4, <3>2, Zenon DEF StopMoves
    <3>4. CASE PollStart(l) \/ StartRound(l) \/ EndOfRound(l) \/ FinishClose(l)
      BY <1>1, <3>3, <3>4, Zenon DEF PollStart, StartRound, EndOfRound, FinishClose, Undisturbed
    <3>5. CASE \E c \in Conns : HandleEvent(l, c)
      BY <1>1, <3>3, <3>5, Zenon DEF HandleEvent, handleClose, DeleteFdInLoop, Undisturbed
    <3>6. CASE RunTask(l)
      <4>1. loopPc'[stopAt] = loopPc[stopAt] /\ round'[stopAt] = round[stopAt]
        BY <1>1, <3>3, <3>6, Zenon DEF RunTask
      <4>2. ASSUME NEW c, RunConnect(l, c) \/ RunClose(l, c)
            PROVE  closing'[stopAt] = closing[stopAt] /\ sockets'[stopAt] = sockets[stopAt]
        BY <1>1, <3>3, <4>2, Zenon
           DEF RunConnect, RunClose, AddSocketAndEnableRead, handleClose, DeleteFdInLoop
      <4>3. ASSUME RunStop(l)
            PROVE  closing'[stopAt] = closing[stopAt] /\ sockets'[stopAt] = sockets[stopAt]
        BY <1>1, <3>3, <4>3, Zenon DEF RunStop
      <4> QED BY <3>6, <4>1, <4>2, <4>3, Zenon DEF RunTask, Undisturbed
    <3> QED BY <2>4, <3>4, <3>5, <3>6, Zenon DEF LoopStep
  <2>5. ASSUME NEW c \in Conns, UserClose(c) \/ UserCloseQueue(c) \/ ShutdownWrite(c)
        PROVE  UNCHANGED <<stopPc, stopAt>> /\ (stopPc = "wait" => Undisturbed(stopAt))
    BY <2>5, Zenon DEF UserClose, UserCloseQueue, ShutdownWrite, Undisturbed
  <2> QED BY <2>1, <2>2, <2>3, <2>4, <2>5, Zenon DEF Next, StopMoves
<1>3. NumLoops - stopAt' = NumLoops - stopAt /\ StopStage' = StopStage
  BY <1>2, Zenon DEF StopStage
<1>4. LoopStage' = LoopStage
  BY <1>2, Zenon DEF LoopStage, Undisturbed
<1>5. stopPc = "wait" => Held(stopAt)' = Held(stopAt)
  BY <1>2, Zenon DEF Held, Undisturbed
<1>6. LoopWork' = LoopWork
  BY <1>2, <1>5, Zenon DEF LoopWork, Undisturbed
<1> QED BY <1>3, <1>4, <1>6, Zenon DEF StopRank

\* Stop has finitely many steps of its own and of the loops it stops before it,
\* however early it is called and whatever connects and closes meanwhile: the
\* loop it waits for always has a step to take (unless a write into a nil map
\* has ended the program), each such step lowers a rank of four natural numbers
\* in their lexicographic order, and no other step changes it.
THEOREM StopAlwaysComesNearer ==
    Spec => /\ [](StopNotStuck /\ StopRank \in Nat \X Nat \X Nat \X Nat)
            /\ StopComesNearer
<1>1. Init => WaitInv
  <2> SUFFICES ASSUME Init PROVE WaitInv
    BY Zenon
  <2>1. stopPc # "wait" /\ \A l \in Loops : ~pollRunning[l]
    BY DEF Init
  <2> QED BY <2>1, Zenon DEF WaitInv
<1>2. IndInv /\ IndInv' /\ WaitInv /\ [Next]_vars => WaitInv'
  BY WaitStep, Zenon DEF IndInv
<1>3. IndInv /\ WaitInv => StopNotStuck /\ StopRank \in Nat \X Nat \X Nat \X Nat
  <2> SUFFICES ASSUME IndInv, WaitInv
               PROVE  StopNotStuck /\ StopRank \in Nat \X Nat \X Nat \X Nat
    BY Zenon
  <2>1. stopPc = "wait" => loopPc[stopAt] \in {"wait", "run", "exited"} /\ ~pollRunning[stopAt]
    BY Zenon DEF IndInv, TypeOK, WaitInv
  <2>2. StopNotStuck
    BY <2>1, Zenon DEF StopNotStuck, Busy
  <2>3. StopRank \in Nat \X Nat \X Nat \X Nat
    BY StopRankType DEF IndInv, StopRank
  <2> QED BY <2>2, <2>3, Zenon
<1>4. IndInv /\ IndInv' /\ WaitInv /\ [Next]_vars =>
          [stopPc \notin {"idle", "done"} =>
              IF StopMoves THEN Below(StopRank', StopRank) ELSE UNCHANGED StopRank]_vars
  BY StopLowers, WaitedLowers, OthersLeaveRank, Zenon DEF IndInv, StopMoves
<1> QED BY <1>1, <1>2, <1>3, <1>4, Invariance, PTL DEF Spec, StopComesNearer

=============================================================================
