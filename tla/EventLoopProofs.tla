-------------------------- MODULE EventLoopProofs --------------------------
(***************************************************************************)
(* Proofs about EventLoop, for any number of goroutines, closures and      *)
(* sockets: wake-ups are not lost, closures run in order, and a Close that *)
(* waits for the loop comes nearer to its end with every step of it.       *)
(***************************************************************************)
EXTENDS EventLoop, FiniteSetTheorems, SequenceTheorems, TLAPS

USE DEF LoopPcs, CallPcs, StopPcs

\* The inductive invariant: the types, and the bookkeeping of wake-ups.
IndInv == TypeOK /\ WakeupInv

\* New starts with empty queues, needWake set and nothing in the eventfd.
LEMMA InitInd == Init => IndInv
<1> SUFFICES ASSUME Init PROVE IndInv
  OBVIOUS
<1>1. TypeOK
  <2>1. <<>> \in Seq(Tasks) /\ 0 \in 0..Len(<<>>)
    OBVIOUS
  <2>2. callPc \in [Callers -> CallPcs] /\ stopPc \in [Stoppers -> StopPcs]
    BY DEF Init
  <2>3. events \subseteq Fds \cup {EventFd} /\ ready \subseteq Fds
    BY DEF Init
  <2>4. lenEvents \in Nat \ {0}
    BY EventsAssumption DEF Init
  <2> QED BY <2>1, <2>2, <2>3, <2>4, Zenon DEF Init, TypeOK
<1>2. FdsOpen
  BY DEF Init, FdsOpen
<1>3. WakeupInv
  BY <1>2 DEF Init, WakeupInv
<1> QED BY <1>1, <1>3 DEF IndInv

\* Wake sets the eventfd or the user event unless the poller has been closed.
LEMMA WakeSets ==
    ASSUME counter \in Nat, Wake
    PROVE  counter' \in Nat /\ (counter > 0 \/ FdsOpen => counter' > 0)
BY DEF Wake, EventFdWrite, UserEventTrigger

-----------------------------------------------------------------------------
\* Every step of the loop, of QueueInLoop and of Stop keeps the types; in
\* particular doPendingFunc's index stays within taskQueueR.
LEMMA TypeStep == IndInv /\ [Next]_vars => TypeOK'
<1> SUFFICES ASSUME TypeOK, WakeupInv, [Next]_vars PROVE TypeOK'
  BY DEF IndInv
<1> USE DEF TypeOK
<1>1. ASSUME NEW c \in Callers, NEW t \in Tasks, QueueAppend(c, t),
             stopPc' \in [Stoppers -> StopPcs]
      PROVE  TypeOK'
  BY <1>1 DEF QueueAppend, pollVars
<1>2. ASSUME NEW c \in Callers, CallStep(c) PROVE TypeOK'
  <2>1. CASE QueueCAS(c)
    BY <2>1, Zenon DEF QueueCAS, queueVars, pollVars
  <2>2. CASE QueueWake(c)
    <3>1. counter' \in Nat
      BY <2>2, WakeSets, Zenon DEF QueueWake
    <3> QED BY <2>2, <3>1 DEF QueueWake, queueVars, pollVars
  <2> QED BY <1>2, <2>1, <2>2 DEF CallStep
<1>3. CASE LoopStep
  <2>1. CASE PollStart
    BY <2>1 DEF PollStart, queueVars, pollVars
  <2>2. CASE EpollWait
    <3>1. counter' \in Nat
      BY <2>2 DEF EpollWait, KeventClears
    <3>2. events' \subseteq Fds \cup {EventFd} /\ full' \in BOOLEAN
      BY <2>2 DEF EpollWait, Reported
    <3> QED BY <2>2, <3>1, <3>2 DEF EpollWait, queueVars
  <2>3. CASE CallbackReturn
    BY <2>3 DEF CallbackReturn, queueVars, pollVars
  <2>4. CASE WakeHandlerRead
    BY <2>4 DEF WakeHandlerRead, queueVars
  <2>5. CASE EndOfEvents
    BY <2>5 DEF EndOfEvents, GrowEvents, queueVars
  <2>6. CASE SetNeedWake
    BY <2>6 DEF SetNeedWake, queueVars, pollVars
  <2>7. CASE SwapQueues
    <3>1. started = 0
      BY <2>7 DEF SwapQueues, WakeupInv
    <3> QED BY <2>7, <3>1 DEF SwapQueues, pollVars
  <2>8. CASE RunTask
    <3>1. /\ taskQueueR[started + 1] \in Tasks
          /\ started + 1 \in 0..Len(taskQueueR)
      BY <2>8 DEF RunTask
    <3> QED BY <2>8, <3>1 DEF RunTask, pollVars
  <2>9. CASE EndOfTasks
    BY <2>9 DEF EndOfTasks, pollVars
  <2>10. CASE CheckRunning
    <3>1. lenEvents' \in Nat \ {0}
      BY <2>10 DEF CheckRunning, GrowEvents
    <3>2. loopPc' \in LoopPcs
      BY <2>10 DEF CheckRunning
    <3> QED BY <2>10, <3>1, <3>2, Zenon DEF CheckRunning, queueVars
  <2>11. ASSUME NEW fd \in Fds, HandleSocket(fd) PROVE TypeOK'
    BY <2>11 DEF HandleSocket, queueVars
  <2> QED
    BY <1>3, <2>1, <2>2, <2>3, <2>4, <2>5, <2>6, <2>7, <2>8, <2>9, <2>10, <2>11, ZenonT(40)
       DEF LoopStep
<1>4. ASSUME NEW s \in Stoppers, StopStep(s) PROVE TypeOK'
  <2>1. CASE CloseCheck(s)
    BY <2>1 DEF CloseCheck, queueVars, pollVars
  <2>2. CASE CloseClearRunning(s)
    BY <2>2, Zenon DEF CloseClearRunning, queueVars, pollVars
  <2>3. CASE CloseWake(s)
    <3>1. counter' \in Nat
      BY <2>3, WakeSets DEF CloseWake
    <3> QED BY <2>3, <3>1 DEF CloseWake, queueVars, pollVars
  <2>4. CASE CloseFds(s)
    BY <2>4 DEF CloseFds, queueVars, pollVars
  <2> QED BY <1>4, <2>1, <2>2, <2>3, <2>4, Zenon DEF StopStep
<1>5. ASSUME NEW s \in Stoppers, StopQueue(s) PROVE TypeOK'
  BY <1>5, <1>1, Zenon DEF StopQueue, Callers
<1>6. CASE LoopQueue
  BY <1>6, <1>1, Zenon DEF LoopQueue, Callers
<1>7. ASSUME NEW p \in Producers, ProducerQueue(p) PROVE TypeOK'
  BY <1>7, <1>1, Zenon DEF ProducerQueue, Callers
<1>8. ASSUME NEW fd \in Fds, SocketReady(fd) PROVE TypeOK'
  BY <1>8 DEF SocketReady, queueVars
<1>9. CASE UNCHANGED vars
  BY <1>9 DEF vars, queueVars, pollVars
<1> QED
  BY <1>2, <1>3, <1>4, <1>5, <1>6, <1>7, <1>8, <1>9, Zenon DEF Next

-----------------------------------------------------------------------------
\* QueueInLoop's append leaves the loop alone and puts its caller before the
\* compare-and-swap, which is what covers the closure it has just queued.
LEMMA AppendStep ==
    ASSUME IndInv, NEW c \in Callers, NEW t \in Tasks, QueueAppend(c, t),
           FdsOpen' = FdsOpen
    PROVE  WakeupInv'
<1>1. callPc'[c] = "cas" /\ \A d \in Callers : d # c => callPc'[d] = callPc[d]
  BY DEF IndInv, TypeOK, QueueAppend
<1>2. \A d \in Callers : callPc[d] = "wake" => callPc'[d] = "wake"
  BY <1>1 DEF QueueAppend
<1> QED
  BY <1>1, <1>2 DEF IndInv, WakeupInv, WakeSeen, QueueAppend, pollVars

\* The compare-and-swap and the write of QueueInLoop hand the obligation to
\* wake the loop on: from the caller, to needWake, to the eventfd.
LEMMA CallStepInv ==
    ASSUME IndInv, NEW c \in Callers, CallStep(c)
    PROVE  WakeupInv'
<1> USE DEF IndInv
<1>1. FdsOpen' = FdsOpen
  BY DEF CallStep, QueueCAS, QueueWake, FdsOpen
<1>2. \A d \in Callers : d # c => callPc'[d] = callPc[d]
  BY DEF TypeOK, CallStep, QueueCAS, QueueWake
<1>3. CASE QueueCAS(c)
  <2>1. needWake => callPc'[c] = "wake"
    BY <1>3 DEF QueueCAS, TypeOK
  <2>2. \A d \in Callers : callPc[d] = "wake" => callPc'[d] = "wake"
    BY <1>2, <1>3 DEF QueueCAS
  <2> QED
    BY <1>1, <1>3, <2>1, <2>2 DEF QueueCAS, WakeupInv, WakeSeen, queueVars, pollVars
<1>4. CASE QueueWake(c)
  <2>1. \A d \in Callers : callPc[d] = "cas" => callPc'[d] = "cas"
    BY <1>2, <1>4 DEF QueueWake
  <2>2. counter' > 0 \/ loopPc = "exited"
    BY <1>4, WakeSets, Zenon DEF QueueWake, WakeupInv, TypeOK
  <2> QED
    BY <1>1, <1>4, <2>1, <2>2 DEF QueueWake, WakeupInv, WakeSeen, queueVars, pollVars
<1> QED BY <1>3, <1>4 DEF CallStep

\* The loop reads the eventfd before it arms needWake, and arms needWake before
\* it swaps the queues: a closure appended at any point is covered.
LEMMA LoopStepInv ==
    ASSUME IndInv, LoopStep
    PROVE  WakeupInv'
<1> USE DEF IndInv
<1>1. FdsOpen' = FdsOpen /\ callPc' = callPc
  BY DEF LoopStep, PollStart, EpollWait, CallbackReturn, WakeHandlerRead,
     EndOfEvents, SetNeedWake, SwapQueues, RunTask, EndOfTasks, CheckRunning,
     HandleSocket, FdsOpen
<1>2. loopPc # "exited"
  BY DEF LoopStep, PollStart, EpollWait, CallbackReturn, WakeHandlerRead,
     EndOfEvents, SetNeedWake, SwapQueues, RunTask, EndOfTasks, CheckRunning,
     HandleSocket
<1> USE DEF WakeupInv, WakeSeen
<1>3. CASE PollStart \/ CallbackReturn
  BY <1>1, <1>3 DEF PollStart, CallbackReturn, queueVars, pollVars
<1>4. CASE EpollWait
  <2>1. counter' = counter \/ WakeSeen'
    BY <1>4 DEF EpollWait, KeventClears
  <2> QED BY <1>1, <1>4, <2>1 DEF EpollWait, queueVars
<1>5. CASE WakeHandlerRead
  BY <1>1, <1>5 DEF WakeHandlerRead, queueVars
<1>6. CASE EndOfEvents
  BY <1>1, <1>6 DEF EndOfEvents, queueVars
<1>7. CASE SetNeedWake
  BY <1>1, <1>2, <1>7 DEF SetNeedWake, queueVars, pollVars
<1>8. CASE SwapQueues
  BY <1>1, <1>8 DEF SwapQueues, pollVars
<1>9. CASE RunTask
  BY <1>1, <1>9 DEF RunTask, pollVars
<1>10. CASE EndOfTasks
  BY <1>1, <1>10 DEF EndOfTasks, pollVars
<1>11. CASE CheckRunning
  BY <1>1, <1>11 DEF CheckRunning, queueVars
<1>12. ASSUME NEW fd \in Fds, HandleSocket(fd) PROVE WakeupInv'
  <2>1. WakeSeen => WakeSeen'
    BY <1>12, FdsAssumption DEF HandleSocket
  <2> QED BY <1>1, <1>12, <2>1 DEF HandleSocket, queueVars
<1> QED
  BY <1>3, <1>4, <1>5, <1>6, <1>7, <1>8, <1>9, <1>10, <1>11, <1>12, ZenonT(40) DEF LoopStep

\* Stop and Close only add a wake-up, and release the eventfd no earlier than
\* the loop has left Poll.
LEMMA StopStepInv ==
    ASSUME IndInv, NEW s \in Stoppers, StopStep(s)
    PROVE  WakeupInv'
<1> USE DEF IndInv
<1>1. /\ callPc' = callPc /\ loopPc' = loopPc /\ needWake' = needWake
      /\ UNCHANGED <<queueVars, pollVars>>
  BY DEF StopStep, CloseCheck, CloseClearRunning, CloseWake, CloseFds
<1>2. counter > 0 => counter' > 0
  <2>1. CASE CloseWake(s)
    BY <2>1, WakeSets DEF CloseWake, TypeOK
  <2>2. CASE CloseCheck(s) \/ CloseClearRunning(s) \/ CloseFds(s)
    BY <2>2 DEF CloseCheck, CloseClearRunning, CloseFds
  <2> QED BY <2>1, <2>2 DEF StopStep
<1>3. ~FdsOpen' => ~FdsOpen \/ loopPc = "exited"
  <2>1. CASE CloseFds(s)
    BY <2>1 DEF CloseFds
  <2>2. CASE CloseCheck(s) \/ CloseClearRunning(s) \/ CloseWake(s)
    <3>1. stopPc'[s] # "closed" /\ \A r \in Stoppers : r # s => stopPc'[r] = stopPc[r]
      BY <2>2 DEF CloseCheck, CloseClearRunning, CloseWake, TypeOK
    <3> QED BY <3>1 DEF FdsOpen
  <2> QED BY <2>1, <2>2 DEF StopStep
<1>4. WakeSeen' = WakeSeen /\ taskQueueW' = taskQueueW
      /\ taskQueueR' = taskQueueR /\ started' = started
  BY <1>1 DEF WakeSeen, queueVars, pollVars
<1> QED
  BY <1>1, <1>2, <1>3, <1>4 DEF WakeupInv

\* Every step keeps the bookkeeping of wake-ups.
LEMMA WakeupStep == IndInv /\ [Next]_vars => WakeupInv'
<1> SUFFICES ASSUME IndInv, [Next]_vars PROVE WakeupInv'
  OBVIOUS
<1>1. CASE LoopStep
  BY <1>1, LoopStepInv
<1>2. CASE LoopQueue
  BY <1>2, AppendStep DEF LoopQueue, Callers, FdsOpen
<1>3. ASSUME NEW p \in Producers, ProducerQueue(p) PROVE WakeupInv'
  BY <1>3, AppendStep DEF ProducerQueue, Callers, FdsOpen
<1>4. ASSUME NEW c \in Callers, CallStep(c) PROVE WakeupInv'
  BY <1>4, CallStepInv
<1>5. ASSUME NEW s \in Stoppers, StopQueue(s) PROVE WakeupInv'
  <2>1. FdsOpen' = FdsOpen
    BY <1>5 DEF StopQueue, FdsOpen, IndInv, TypeOK
  <2> QED BY <1>5, <2>1, AppendStep DEF StopQueue, Callers
<1>6. ASSUME NEW s \in Stoppers, StopStep(s) PROVE WakeupInv'
  BY <1>6, StopStepInv
<1>7. ASSUME NEW fd \in Fds, SocketReady(fd) PROVE WakeupInv'
  BY <1>7 DEF SocketReady, IndInv, WakeupInv, WakeSeen, FdsOpen, queueVars
<1>8. CASE UNCHANGED vars
  BY <1>8 DEF vars, queueVars, pollVars, IndInv, WakeupInv, WakeSeen, FdsOpen
<1> QED
  BY <1>1, <1>2, <1>3, <1>4, <1>5, <1>6, <1>7, <1>8, Zenon DEF Next

-----------------------------------------------------------------------------
\* The inductive invariant holds in every state.
LEMMA IndInvHolds == Spec => []IndInv
<1>1. IndInv /\ [Next]_vars => IndInv'
  BY TypeStep, WakeupStep DEF IndInv
<1> QED BY InitInd, <1>1, PTL DEF Spec

\* Type correctness of the loop, for any goroutines, closures and sockets.
THEOREM TypeCorrect == Spec => []TypeOK
BY IndInvHolds, PTL DEF IndInv

\* The bookkeeping of needWake, the eventfd and the queues that QueueInLoop
\* and handlerEvent keep between them.
THEOREM WakeupBookkeeping == Spec => []WakeupInv
BY IndInvHolds, PTL DEF IndInv

-----------------------------------------------------------------------------
(* Close does not hang *)

\* The loop has been told: the eventfd is in what EpollWait reported, or read.
Told == wake \/ EventFd \in events

\* What a Close past a step of its own can rely on.  Poll has begun, for Close
\* found running set; running stays clear, for only the beginning of Poll sets
\* it; and once Close has written the eventfd, the loop has that to read, or has
\* been told of it, or has left.
CloseInv ==
    /\ running => loopPc # "start"
    /\ \A s \in Stoppers :
          /\ stopPc[s] \in {"clearRunning", "wake", "waitDone"} => loopPc # "start"
          /\ stopPc[s] \in {"wake", "waitDone"} => ~running
          /\ stopPc[s] = "waitDone" => counter > 0 \/ Told \/ loopPc = "exited"
    /\ loopPc \in {"start", "wait"} => ~wake
    /\ loopPc \notin {"events", "callback"} => events = {}
    /\ loopPc \in {"setNeedWake", "swap", "run", "checkRunning"} => wake

\* How many event slices of length n and its doubles can still be filled by
\* sockets alone.
Doublings(n) == IF n <= Cardinality(Fds) THEN Cardinality(Fds) + 1 - n ELSE 0

\* A bound on the calls of EpollWait before the one that reports the eventfd.
\* A call may leave it out only by filling the slice, which is doubled then.
Waits ==
    IF Told \/ loopPc = "exited" THEN 0
    ELSE IF loopPc # "wait" /\ full THEN Doublings(2 * lenEvents) + 1
    ELSE Doublings(lenEvents) + 1

\* How far the loop is from the end of its turn.
Stage ==
    CASE loopPc = "events"       -> 5 + 2 * Cardinality(events)
      [] loopPc = "callback"     -> 6 + 2 * Cardinality(events)
      [] loopPc = "setNeedWake"  -> 4
      [] loopPc = "swap"         -> 3
      [] loopPc = "run"          -> 2
      [] loopPc = "checkRunning" -> 1
      [] OTHER                   -> 0

\* Closures that doPendingFunc has swapped out and not started.
ToRun == IF loopPc = "run" THEN Len(taskQueueR) - started ELSE 0

\* The lexicographic order of triples.
Below(a, b) ==
    \/ a[1] < b[1]
    \/ a[1] = b[1] /\ a[2] < b[2]
    \/ a[1] = b[1] /\ a[2] = b[2] /\ a[3] < b[3]

LeaveRank == <<Waits, Stage, ToRun>>

Closing == \E s \in Stoppers : stopPc[s] = "waitDone"

\* Once Close waits for it, every step of Poll brings the loop nearer to its
\* end, and no other goroutine, socket or closure takes it further away.
CloseComesNearer ==
    [][Closing => IF LoopStep THEN Below(LeaveRank', LeaveRank)
                              ELSE UNCHANGED LeaveRank]_vars

\* Every step of the loop keeps what Close relies on: the eventfd is taken out
\* of what is reported only by being read, and a loop that has read it passes
\* the test of running before it can block again.
LEMMA CloseLoop ==
    ASSUME TypeOK, CloseInv, LoopStep
    PROVE  CloseInv'
<1> USE DEF CloseInv, Told, TypeOK
<1>1. stopPc' = stopPc
  BY DEF LoopStep, PollStart, EpollWait, CallbackReturn, WakeHandlerRead,
     EndOfEvents, SetNeedWake, SwapQueues, RunTask, EndOfTasks, CheckRunning,
     HandleSocket
<1>2. CASE PollStart
  BY <1>1, <1>2 DEF PollStart, pollVars
<1>3. CASE EpollWait
  <2>1. counter' = counter \/ EventFd \in events'
    BY <1>3 DEF EpollWait, KeventClears
  <2> QED BY <1>1, <1>3, <2>1 DEF EpollWait
<1>4. CASE CallbackReturn
  BY <1>1, <1>4 DEF CallbackReturn, pollVars
<1>5. CASE WakeHandlerRead
  BY <1>1, <1>5 DEF WakeHandlerRead
<1>6. CASE EndOfEvents
  BY <1>1, <1>6 DEF EndOfEvents
<1>7. CASE SetNeedWake \/ SwapQueues \/ RunTask \/ EndOfTasks
  BY <1>1, <1>7 DEF SetNeedWake, SwapQueues, RunTask, EndOfTasks, pollVars
<1>8. CASE CheckRunning
  BY <1>1, <1>8 DEF CheckRunning
<1>9. ASSUME NEW fd \in Fds, HandleSocket(fd) PROVE CloseInv'
  <2>1. EventFd \in events' <=> EventFd \in events
    BY <1>9, FdsAssumption DEF HandleSocket
  <2> QED BY <1>1, <1>9, <2>1 DEF HandleSocket
<1> QED
  BY <1>2, <1>3, <1>4, <1>5, <1>6, <1>7, <1>8, <1>9, ZenonT(40) DEF LoopStep

\* A step of QueueInLoop or of the kernel writes the eventfd at most.
LEMMA CloseQuiet ==
    ASSUME TypeOK, CloseInv, UNCHANGED <<running, loopPc, wake, events>>,
           counter > 0 => counter' > 0,
           \A s \in Stoppers : stopPc'[s] = stopPc[s] \/ stopPc'[s] = "check"
    PROVE  CloseInv'
BY DEF CloseInv, Told

\* Close itself: it goes on only if it has found running set, it clears it, and
\* its write of the eventfd is what it then relies on.
LEMMA CloseStop ==
    ASSUME TypeOK, CloseInv, NEW s \in Stoppers, StopStep(s)
    PROVE  CloseInv'
<1> USE DEF CloseInv, Told
<1>1. /\ UNCHANGED <<loopPc, wake, events>> /\ counter \in Nat
      /\ \A r \in Stoppers : r # s => stopPc'[r] = stopPc[r]
      /\ \A x : stopPc' = [stopPc EXCEPT ![s] = x] => stopPc'[s] = x
  BY DEF StopStep, CloseCheck, CloseClearRunning, CloseWake, CloseFds, TypeOK, pollVars
<1>2. CASE CloseCheck(s)
  <2>1. /\ stopPc'[s] = IF running THEN "clearRunning" ELSE "errClosed"
        /\ UNCHANGED <<running, counter>>
    BY <1>1, <1>2, Zenon DEF CloseCheck
  <2> QED BY <1>1, <2>1
<1>3. CASE CloseClearRunning(s)
  <2>1. stopPc[s] = "clearRunning" /\ stopPc'[s] = "wake" /\ ~running' /\ counter' = counter
    BY <1>1, <1>3, Zenon DEF CloseClearRunning
  <2> QED BY <1>1, <2>1
<1>4. CASE CloseWake(s)
  <2>1. /\ stopPc[s] = "wake" /\ running' = running
        /\ stopPc'[s] = IF FdsOpen THEN "waitDone" ELSE "wakeFailed"
        /\ counter > 0 \/ FdsOpen => counter' > 0
    BY <1>1, <1>4, WakeSets, Zenon DEF CloseWake
  <2> QED BY <1>1, <2>1
<1>5. CASE CloseFds(s)
  <2>1. stopPc'[s] = "closed" /\ UNCHANGED <<running, counter>>
    BY <1>1, <1>5, Zenon DEF CloseFds
  <2> QED BY <1>1, <2>1
<1> QED BY <1>2, <1>3, <1>4, <1>5 DEF StopStep

\* What Close relies on holds in every state.
LEMMA CloseInvHolds == Spec => [](IndInv /\ CloseInv)
<1>1. Init => CloseInv
  BY DEF Init, CloseInv, Told
<1>2. IndInv /\ CloseInv /\ [Next]_vars => CloseInv'
  <2> SUFFICES ASSUME TypeOK, CloseInv, [Next]_vars PROVE CloseInv'
    BY DEF IndInv
  <2>1. ASSUME NEW c, NEW t, QueueAppend(c, t), stopPc' = stopPc
        PROVE  CloseInv'
    <3>1. UNCHANGED <<running, loopPc, wake, events, counter>>
      BY <2>1 DEF QueueAppend, pollVars
    <3> QED BY <2>1, <3>1, CloseQuiet
  <2>2. CASE LoopQueue
    BY <2>1, <2>2, Zenon DEF LoopQueue
  <2>3. ASSUME NEW p \in Producers, ProducerQueue(p) PROVE CloseInv'
    BY <2>1, <2>3, Zenon DEF ProducerQueue
  <2>4. ASSUME NEW c \in Callers, CallStep(c) PROVE CloseInv'
    <3>1. UNCHANGED <<running, loopPc, wake, events, stopPc>>
      BY <2>4 DEF CallStep, QueueCAS, QueueWake, pollVars
    <3>2. counter > 0 => counter' > 0
      BY <2>4, WakeSets DEF CallStep, QueueCAS, QueueWake, TypeOK
    <3> QED BY <3>1, <3>2, CloseQuiet
  <2>5. ASSUME NEW s \in Stoppers, StopQueue(s) PROVE CloseInv'
    <3>1. UNCHANGED <<running, loopPc, wake, events, counter>>
      BY <2>5 DEF StopQueue, QueueAppend, pollVars
    <3>2. \A r \in Stoppers : stopPc'[r] = stopPc[r] \/ stopPc'[r] = "check"
      BY <2>5 DEF StopQueue, TypeOK
    <3> QED BY <3>1, <3>2, CloseQuiet
  <2>6. ASSUME NEW fd \in Fds, SocketReady(fd) PROVE CloseInv'
    <3>1. UNCHANGED <<running, loopPc, wake, events, counter, stopPc>>
      BY <2>6 DEF SocketReady
    <3> QED BY <3>1, CloseQuiet
  <2>7. CASE UNCHANGED vars
    BY <2>7, CloseQuiet DEF vars, pollVars
  <2> QED
    BY <2>2, <2>3, <2>4, <2>5, <2>6, <2>7, CloseLoop, CloseStop, Zenon DEF Next
<1> QED BY <1>1, <1>2, IndInvHolds, PTL DEF Spec

\* No wake-up is lost: the loop never blocks in EpollWait with closures queued
\* and nobody left to wake it, nor while a Close that has written the eventfd
\* waits for it, however many goroutines call QueueInLoop and Close.
THEOREM WakeupsAreNotLost == Spec => []NoLostWakeup
<1>1. IndInv /\ CloseInv => NoLostWakeup
  BY DEF IndInv, TypeOK, WakeupInv, WakeSeen, CloseInv, Told, NoLostWakeup
<1> QED BY CloseInvHolds, <1>1, PTL

\* A full slice leaves fewer slices to fill, for it is doubled.
LEMMA DoublingsShrink ==
    ASSUME NEW n \in Nat \ {0}
    PROVE  /\ Doublings(n) \in Nat /\ Doublings(2 * n) \in Nat
           /\ n <= Cardinality(Fds) => Doublings(2 * n) < Doublings(n)
<1>1. Cardinality(Fds) \in Nat
  BY FdsAssumption, FS_CardinalityType
<1> QED BY <1>1 DEF Doublings

\* The parts of the rank are natural numbers, so that it cannot fall for ever.
LEMMA RankType ==
    ASSUME TypeOK
    PROVE  LeaveRank \in Nat \X Nat \X Nat
<1>1. lenEvents \in Nat \ {0} /\ started \in 0..Len(taskQueueR) /\ Len(taskQueueR) \in Nat
  BY DEF TypeOK
<1>2. Doublings(lenEvents) \in Nat /\ Doublings(2 * lenEvents) \in Nat
  BY <1>1, DoublingsShrink
<1>3. Cardinality(events) \in Nat
  <2>1. IsFiniteSet(Fds \cup {EventFd})
    BY FdsAssumption, FS_Union, FS_Singleton, Zenon
  <2> QED BY <2>1, FS_Subset, FS_CardinalityType DEF TypeOK
<1>4. Waits \in Nat
  BY <1>2 DEF Waits
<1>5. Stage \in Nat
  BY <1>3 DEF Stage
<1>6. ToRun \in Nat
  BY <1>1 DEF ToRun
<1> QED BY <1>4, <1>5, <1>6 DEF LeaveRank

\* EpollWait reports the eventfd, or fills the slice with sockets alone.
LEMMA WaitsShrink ==
    ASSUME TypeOK, CloseInv, Closing, EpollWait
    PROVE  Waits' < Waits
<1>1. /\ loopPc = "wait" /\ loopPc' = "events" /\ ~Told /\ counter > 0
      /\ wake' = wake /\ lenEvents' = lenEvents
  BY DEF EpollWait, CloseInv, Closing, Told
<1>2. PICK batch \in SUBSET Reported :
         /\ batch = Reported \/ Cardinality(batch) = lenEvents
         /\ events' = batch /\ full' = (Cardinality(batch) = lenEvents)
  BY DEF EpollWait
<1>3. /\ lenEvents \in Nat \ {0} /\ Doublings(lenEvents) \in Nat
      /\ lenEvents <= Cardinality(Fds) => Doublings(2 * lenEvents) < Doublings(lenEvents)
      /\ Doublings(2 * lenEvents) \in Nat
  BY DoublingsShrink DEF TypeOK
<1>4. Waits = Doublings(lenEvents) + 1
  BY <1>1 DEF Waits
<1>5. CASE EventFd \in batch
  <2>1. Waits' = 0
    BY <1>2, <1>5 DEF Waits, Told
  <2> QED BY <1>3, <1>4, <2>1
<1>6. CASE EventFd \notin batch
  <2>1. EventFd \in Reported
    BY <1>1 DEF Reported
  <2>2. Cardinality(batch) = lenEvents /\ full'
    BY <1>2, <1>6, <2>1, Zenon
  <2>3. batch \subseteq Fds
    BY <1>6 DEF Reported, TypeOK
  <2>4. lenEvents <= Cardinality(Fds)
    BY <2>2, <2>3, FdsAssumption, FS_Subset
  <2>5. ~Told' /\ loopPc' # "wait" /\ loopPc' # "exited"
    BY <1>1, <1>2, <1>6 DEF Told
  <2>6. Waits' = Doublings(2 * lenEvents) + 1
    BY <1>1, <2>2, <2>5 DEF Waits, Doublings
  <2> QED BY <1>3, <1>4, <2>4, <2>6
<1> QED BY <1>5, <1>6

\* Every step of Poll lowers the rank while a Close waits.
LEMMA LoopComesNearer ==
    ASSUME TypeOK, CloseInv, Closing, LoopStep
    PROVE  Below(LeaveRank', LeaveRank)
<1>1. ~running /\ loopPc # "start" /\ events \subseteq Fds \cup {EventFd}
  BY DEF CloseInv, Closing, TypeOK
<1>2. \/ Waits' < Waits
      \/ Waits' = Waits /\ Stage' < Stage
      \/ Waits' = Waits /\ Stage' = Stage /\ ToRun' < ToRun
      => Below(LeaveRank', LeaveRank)
  BY DEF Below, LeaveRank
<1>3. /\ Cardinality(events) \in Nat
      /\ \A x \in events : Cardinality(events \ {x}) = Cardinality(events) - 1
  <2>1. IsFiniteSet(Fds \cup {EventFd})
    BY FdsAssumption, FS_Union, FS_Singleton, Zenon
  <2>2. IsFiniteSet(events)
    BY <1>1, <2>1, FS_Subset
  <2> QED BY <2>2, FS_CardinalityType, FS_RemoveElement
<1>4. CASE EpollWait
  BY <1>2, <1>4, WaitsShrink
<1>5. CASE CallbackReturn
  <2>1. loopPc = "callback" /\ loopPc' = "events" /\ UNCHANGED <<events, wake, full, lenEvents>>
    BY <1>5 DEF CallbackReturn, pollVars
  <2>2. Waits' = Waits
    BY <2>1 DEF Waits, Told, Doublings
  <2>3. Stage' < Stage
    BY <1>3, <2>1 DEF Stage
  <2> QED BY <1>2, <2>2, <2>3
<1>6. CASE WakeHandlerRead
  <2>1. /\ loopPc = "events" /\ loopPc' = "events" /\ EventFd \in events
        /\ events' = events \ {EventFd} /\ wake'
    BY <1>6 DEF WakeHandlerRead
  <2>2. Waits' = 0 /\ Waits = 0
    BY <2>1 DEF Waits, Told
  <2>3. Stage' < Stage
    BY <1>3, <2>1 DEF Stage
  <2> QED BY <1>2, <2>2, <2>3
<1>7. CASE EndOfEvents
  <2>1. loopPc = "events" /\ events = {} /\ UNCHANGED <<events, wake, full>>
    BY <1>7 DEF EndOfEvents
  <2>2. Stage = 5
    BY <2>1, FS_EmptySet DEF Stage
  <2>3. CASE wake
    <3>1. loopPc' = "setNeedWake"
      BY <1>7, <2>3 DEF EndOfEvents
    <3>2. Waits' = 0 /\ Waits = 0
      BY <2>1, <2>3 DEF Waits, Told
    <3>3. Stage' = 4
      BY <3>1 DEF Stage
    <3> QED BY <1>2, <2>2, <3>2, <3>3
  <2>4. CASE ~wake
    <3>1. loopPc' = "wait" /\ lenEvents' = IF full THEN 2 * lenEvents ELSE lenEvents
      BY <1>7, <2>4 DEF EndOfEvents, GrowEvents
    <3>2. Waits' = Waits
      BY <2>1, <2>4, <3>1 DEF Waits, Told, Doublings
    <3>3. Stage' = 0
      BY <3>1 DEF Stage
    <3> QED BY <1>2, <2>2, <3>2, <3>3
  <2> QED BY <2>3, <2>4
<1>8. CASE SetNeedWake \/ SwapQueues \/ RunTask \/ EndOfTasks \/ CheckRunning
  <2>1. wake /\ Waits = 0
    BY <1>8 DEF SetNeedWake, SwapQueues, RunTask, EndOfTasks, CheckRunning, CloseInv,
       Waits, Told
  <2>2. Waits' = 0
    <3>1. wake' \/ loopPc' = "exited"
      BY <1>1, <1>8, <2>1, Zenon DEF SetNeedWake, SwapQueues, RunTask, EndOfTasks, CheckRunning,
         pollVars
    <3> QED BY <3>1 DEF Waits, Told
  <2>3. Stage' < Stage \/ (Stage' = Stage /\ ToRun' < ToRun)
    <3>1. CASE SetNeedWake
      BY <3>1 DEF SetNeedWake, Stage
    <3>2. CASE SwapQueues
      BY <3>2 DEF SwapQueues, Stage
    <3>3. CASE RunTask
      BY <3>3 DEF RunTask, Stage, ToRun, TypeOK
    <3>4. CASE EndOfTasks
      BY <3>4 DEF EndOfTasks, Stage
    <3>5. CASE CheckRunning
      BY <1>1, <3>5 DEF CheckRunning, Stage
    <3> QED BY <1>8, <3>1, <3>2, <3>3, <3>4, <3>5
  <2> QED BY <1>2, <2>1, <2>2, <2>3
<1>9. ASSUME NEW fd \in Fds, HandleSocket(fd) PROVE Below(LeaveRank', LeaveRank)
  <2>1. /\ loopPc = "events" /\ loopPc' = "callback" /\ fd \in events
        /\ events' = events \ {fd} /\ UNCHANGED <<wake, full, lenEvents>>
    BY <1>9 DEF HandleSocket
  <2>2. Waits' = Waits
    BY <2>1, FdsAssumption DEF Waits, Told, Doublings
  <2>3. Stage' < Stage
    BY <1>3, <2>1 DEF Stage
  <2> QED BY <1>2, <2>2, <2>3
<1>10. ~PollStart
  BY <1>1 DEF PollStart
<1> QED
  BY <1>4, <1>5, <1>6, <1>7, <1>8, <1>9, <1>10, ZenonT(40) DEF LoopStep

\* Close comes to its end: from its write of the eventfd on, each step of Poll
\* lowers a rank that nothing else raises.  With WakeupsAreNotLost, by which the
\* loop does not block meanwhile, this is what CloseReturns rests on.
THEOREM CloseAlwaysComesNearer ==
    Spec => [](LeaveRank \in Nat \X Nat \X Nat) /\ CloseComesNearer
<1>1. IndInv => LeaveRank \in Nat \X Nat \X Nat
  BY RankType DEF IndInv
<1>2. ASSUME IndInv, CloseInv, [Next]_vars, Closing
      PROVE  IF LoopStep THEN Below(LeaveRank', LeaveRank) ELSE UNCHANGED LeaveRank
  <2>1. CASE LoopStep
    BY <1>2, <2>1, LoopComesNearer DEF IndInv
  <2>2. CASE ~LoopStep
    <3>1. UNCHANGED <<loopPc, events, wake, full, lenEvents, taskQueueR, started>>
      BY <1>2, <2>2, Zenon DEF Next, vars, LoopQueue, ProducerQueue, QueueAppend, CallStep,
         QueueCAS, QueueWake, StopQueue, StopStep, CloseCheck, CloseClearRunning,
         CloseWake, CloseFds, SocketReady, queueVars, pollVars
    <3>2. Told' = Told /\ Doublings(lenEvents)' = Doublings(lenEvents)
          /\ Doublings(2 * lenEvents)' = Doublings(2 * lenEvents)
      BY <3>1 DEF Told, Doublings
    <3>3. Waits' = Waits
      BY <3>1, <3>2, Zenon DEF Waits
    <3>4. Stage' = Stage
      BY <3>1, Zenon DEF Stage
    <3>5. ToRun' = ToRun
      BY <3>1, Zenon DEF ToRun
    <3> QED BY <2>2, <3>3, <3>4, <3>5 DEF LeaveRank
  <2> QED BY <2>1, <2>2
<1>3. IndInv /\ CloseInv /\ [Next]_vars =>
         [Closing => IF LoopStep THEN Below(LeaveRank', LeaveRank)
                                 ELSE UNCHANGED LeaveRank]_vars
  BY <1>2
<1> QED BY <1>1, <1>3, CloseInvHolds, PTL DEF Spec, CloseComesNearer

-----------------------------------------------------------------------------
(* How far the eventfd's counter can run up *)

\* Callers of QueueInLoop about to write the eventfd, and Closes that have.
Waking == {c \in Callers : callPc[c] = "wake"}
Woken  == {s \in Stoppers : stopPc[s] \in {"waitDone", "closed", "wakeFailed"}}

One(b) == IF b THEN 1 ELSE 0

\* A write is owed to needWake; needWake is armed again only for a wake-up that
\* the loop has seen; and that took a write off the eventfd.  So of the writes,
\* those about to be done and the armings, all but one are Close's.
BoundInv ==
    /\ IsFiniteSet(Waking)
    /\ counter + Cardinality(Waking) + One(needWake) + One(WakeSeen) <= 1 + Cardinality(Woken)
    /\ loopPc \in {"start", "wait"} => ~wake
    /\ loopPc = "setNeedWake" => wake
    /\ EventFd \in events => /\ ~wake /\ (kqueue \/ counter > 0)
                            /\ loopPc \in {"events", "callback"}

\* Steps that leave the writers of the eventfd alone.
LEMMA BoundQuiet ==
    ASSUME TypeOK, TypeOK', BoundInv, IsFiniteSet(Stoppers),
           callPc' = callPc \/ Waking' = Waking, Woken' = Woken,
           counter' + One(needWake') + One(WakeSeen') <= counter + One(needWake) + One(WakeSeen)
    PROVE  /\ IsFiniteSet(Waking')
           /\ counter' + Cardinality(Waking') + One(needWake') + One(WakeSeen')
                 <= 1 + Cardinality(Woken')
<1>1. Waking' = Waking
  BY DEF Waking
<1>2. Cardinality(Waking) \in Nat /\ IsFiniteSet(Waking)
  BY FS_CardinalityType DEF BoundInv
<1>3. Cardinality(Woken) \in Nat
  BY FS_CardinalityType, FS_Subset DEF Woken
<1>4. /\ One(needWake) \in Nat /\ One(needWake') \in Nat /\ counter \in Nat /\ counter' \in Nat
      /\ One(WakeSeen) \in Nat /\ One(WakeSeen') \in Nat
  BY DEF TypeOK, One
<1>5. counter + Cardinality(Waking) + One(needWake) + One(WakeSeen) <= 1 + Cardinality(Woken)
  BY Zenon DEF BoundInv
<1> HIDE DEF Waking, Woken, One, WakeSeen
<1> QED BY <1>1, <1>2, <1>3, <1>4, <1>5

\* The loop takes a write off the eventfd before it arms needWake.
LEMMA BoundLoop ==
    ASSUME TypeOK, TypeOK', BoundInv, IsFiniteSet(Stoppers), LoopStep
    PROVE  BoundInv'
<1>1. callPc' = callPc /\ Woken' = Woken
  BY DEF LoopStep, PollStart, EpollWait, CallbackReturn, WakeHandlerRead,
     EndOfEvents, SetNeedWake, SwapQueues, RunTask, EndOfTasks, CheckRunning,
     HandleSocket, Woken
<1>2. SUFFICES
        /\ counter' + One(needWake') + One(WakeSeen')
              <= counter + One(needWake) + One(WakeSeen)
        /\ loopPc' \in {"start", "wait"} => ~wake'
        /\ loopPc' = "setNeedWake" => wake'
        /\ EventFd \in events' => /\ ~wake' /\ (kqueue' \/ counter' > 0)
                                 /\ loopPc' \in {"events", "callback"}
  BY <1>1, BoundQuiet DEF BoundInv
<1> USE DEF TypeOK
<1>3. /\ counter \in Nat /\ (loopPc \in {"start", "wait"} => ~wake)
      /\ loopPc = "setNeedWake" => wake
      /\ EventFd \in events => /\ ~wake /\ (kqueue \/ counter > 0)
                              /\ loopPc \in {"events", "callback"}
  BY DEF BoundInv
<1> USE DEF WakeSeen, One
<1>4. CASE PollStart
  BY <1>3, <1>4 DEF PollStart, pollVars
<1>5. CASE EpollWait
  <2>1. ~WakeSeen /\ ~wake /\ UNCHANGED <<kqueue, needWake, wake>> /\ loopPc' = "events"
    BY <1>3, <1>5, Zenon DEF EpollWait
  <2>2. CASE EventFd \in events'
    <3>1. counter > 0
      BY <1>5, <2>2, FdsAssumption, Zenon DEF EpollWait, Reported
    <3>2. counter' = IF kqueue THEN 0 ELSE counter
      BY <1>5, <2>2, Zenon DEF EpollWait, KeventClears
    <3> QED BY <1>3, <2>1, <2>2, <3>1, <3>2
  <2>3. CASE EventFd \notin events'
    <3>1. counter' = counter
      BY <1>5, <2>3, Zenon DEF EpollWait, KeventClears
    <3> QED BY <1>3, <2>1, <2>3, <3>1
  <2> QED BY <2>2, <2>3, Zenon
<1>6. CASE CallbackReturn
  BY <1>3, <1>6 DEF CallbackReturn, pollVars
<1>7. CASE WakeHandlerRead
  <2>1. CASE kqueue
    BY <1>3, <1>7, <2>1 DEF WakeHandlerRead
  <2>2. CASE ~kqueue
    BY <1>3, <1>7, <2>2 DEF WakeHandlerRead
  <2> QED BY <2>1, <2>2, Zenon
<1>8. CASE EndOfEvents
  BY <1>3, <1>8 DEF EndOfEvents
<1>9. CASE SetNeedWake
  <2>1. /\ loopPc = "setNeedWake" /\ loopPc' = "swap" /\ needWake' = TRUE
        /\ UNCHANGED <<kqueue, counter, events, wake>>
    BY <1>9 DEF SetNeedWake, pollVars
  <2>2. wake
    BY <1>3, <2>1, Zenon
  <2> QED BY <1>3, <2>1, <2>2
<1>10. CASE SwapQueues \/ RunTask \/ EndOfTasks
  <2>1. /\ loopPc \in {"swap", "run"} /\ loopPc' \in {"run", "checkRunning"}
        /\ UNCHANGED <<needWake, counter, kqueue, events, wake>>
    BY <1>10, Zenon DEF SwapQueues, RunTask, EndOfTasks, pollVars
  <2> QED BY <1>3, <2>1
<1>11. CASE CheckRunning
  BY <1>3, <1>11 DEF CheckRunning
<1>12. ASSUME NEW fd \in Fds, HandleSocket(fd)
       PROVE  /\ counter' + One(needWake') + One(WakeSeen')
                    <= counter + One(needWake) + One(WakeSeen)
              /\ loopPc' \in {"start", "wait"} => ~wake'
              /\ loopPc' = "setNeedWake" => wake'
              /\ EventFd \in events' => /\ ~wake' /\ (kqueue' \/ counter' > 0)
                                       /\ loopPc' \in {"events", "callback"}
  BY <1>3, <1>12 DEF HandleSocket
<1> QED
  BY <1>4, <1>5, <1>6, <1>7, <1>8, <1>9, <1>10, <1>11, <1>12, ZenonT(40) DEF LoopStep

\* A compare-and-swap that succeeds trades needWake for a write, and the write
\* adds one to the eventfd.
LEMMA BoundCall ==
    ASSUME TypeOK, TypeOK', BoundInv, IsFiniteSet(Stoppers), NEW c \in Callers, CallStep(c)
    PROVE  BoundInv'
<1>0. /\ UNCHANGED <<loopPc, kqueue, events, wake, stopPc>> /\ WakeSeen' = WakeSeen
      /\ Woken' = Woken
  BY DEF CallStep, QueueCAS, QueueWake, pollVars, WakeSeen, Woken
<1>1. counter > 0 => counter' > 0
  BY WakeSets DEF TypeOK, CallStep, QueueCAS, QueueWake
<1>2. IsFiniteSet(Waking) /\ Cardinality(Waking) \in Nat /\ Cardinality(Woken) \in Nat
  BY FS_CardinalityType, FS_Subset DEF BoundInv, Woken
<1>3. One(WakeSeen) \in Nat /\ counter \in Nat /\ counter' \in Nat
  BY DEF One, TypeOK
<1>4. counter + Cardinality(Waking) + One(needWake) + One(WakeSeen) <= 1 + Cardinality(Woken)
  BY DEF BoundInv
<1>5. callPc \in [Callers -> CallPcs]
  BY Zenon DEF TypeOK
<1>6. /\ IsFiniteSet(Waking')
      /\ counter' + Cardinality(Waking') + One(needWake') + One(WakeSeen')
            <= 1 + Cardinality(Woken')
  <2>1. CASE QueueCAS(c) /\ needWake
    <3>1. callPc' = [callPc EXCEPT ![c] = "wake"] /\ callPc[c] = "cas" /\ counter' = counter
          /\ needWake' = FALSE
      BY <2>1 DEF QueueCAS
    <3>2. Waking' = Waking \cup {c} /\ c \notin Waking
      BY <1>5, <3>1 DEF Waking
    <3>3. IsFiniteSet(Waking') /\ Cardinality(Waking') = Cardinality(Waking) + 1
      BY <1>2, <3>2, FS_AddElement
    <3>4. One(needWake) = 1 /\ One(needWake') = 0
      BY <2>1, <3>1 DEF One
    <3> QED BY <1>0, <1>2, <1>3, <1>4, <3>1, <3>3, <3>4
  <2>2. CASE QueueCAS(c) /\ ~needWake
    <3>1. callPc' = [callPc EXCEPT ![c] = "idle"] /\ callPc[c] = "cas" /\ counter' = counter
          /\ needWake' = FALSE
      BY <2>2 DEF QueueCAS
    <3>2. Waking' = Waking
      BY <1>5, <3>1 DEF Waking
    <3>3. One(needWake') = One(needWake)
      BY <2>2, <3>1, Zenon DEF One
    <3> QED BY <1>0, <1>2, <1>4, <3>1, <3>2, <3>3, Zenon
  <2>3. CASE QueueWake(c)
    <3>1. callPc' = [callPc EXCEPT ![c] = "idle"] /\ callPc[c] = "wake" /\ needWake' = needWake
      BY <2>3 DEF QueueWake
    <3>2. Waking' = Waking \ {c} /\ c \in Waking
      BY <1>5, <3>1 DEF Waking
    <3>3. IsFiniteSet(Waking') /\ Cardinality(Waking') = Cardinality(Waking) - 1
      BY <1>2, <3>2, FS_RemoveElement
    <3>4. counter' <= counter + 1
      BY <1>3, <2>3 DEF QueueWake, Wake, EventFdWrite, UserEventTrigger
    <3>5. One(needWake') = One(needWake) /\ One(needWake) \in Nat
      BY <3>1 DEF One
    <3> QED BY <1>0, <1>2, <1>3, <1>4, <3>3, <3>4, <3>5
  <2> QED BY <2>1, <2>2, <2>3, Zenon DEF CallStep, TypeOK
<1> QED BY <1>0, <1>1, <1>6, Zenon DEF BoundInv

\* Each Close writes the eventfd once.
LEMMA BoundStop ==
    ASSUME TypeOK, TypeOK', BoundInv, IsFiniteSet(Stoppers), NEW s \in Stoppers, StopStep(s)
    PROVE  BoundInv'
<1>0. /\ UNCHANGED <<loopPc, kqueue, events, wake, callPc, needWake>> /\ WakeSeen' = WakeSeen
      /\ Waking' = Waking
  BY DEF StopStep, CloseCheck, CloseClearRunning, CloseWake, CloseFds, pollVars, WakeSeen, Waking
<1>1. stopPc \in [Stoppers -> StopPcs]
  BY DEF TypeOK
<1>2. IsFiniteSet(Waking) /\ Cardinality(Waking) \in Nat
  BY FS_CardinalityType DEF BoundInv
<1>3. IsFiniteSet(Woken) /\ Cardinality(Woken) \in Nat
  BY FS_CardinalityType, FS_Subset, Zenon DEF Woken
<1>4. /\ One(WakeSeen) \in Nat /\ One(needWake) \in Nat /\ counter \in Nat /\ counter' \in Nat
      /\ One(WakeSeen') = One(WakeSeen) /\ One(needWake') = One(needWake)
  BY <1>0 DEF One, TypeOK
<1>5. counter + Cardinality(Waking) + One(needWake) + One(WakeSeen) <= 1 + Cardinality(Woken)
  BY DEF BoundInv
<1>6. CASE CloseWake(s)
  <2>1. /\ stopPc[s] = "wake" /\ Wake
        /\ stopPc' = [stopPc EXCEPT ![s] = IF FdsOpen THEN "waitDone" ELSE "wakeFailed"]
    BY <1>6 DEF CloseWake
  <2>2. Woken' = Woken \cup {s} /\ s \notin Woken
    BY <1>1, <2>1 DEF Woken
  <2>3. Cardinality(Woken') = Cardinality(Woken) + 1
    BY <1>3, <2>2, FS_AddElement, Zenon
  <2>4. counter' <= counter + 1 /\ (counter > 0 => counter' > 0)
    BY <1>4, <2>1, WakeSets DEF Wake, EventFdWrite, UserEventTrigger
  <2>5. counter' + Cardinality(Waking') + One(needWake') + One(WakeSeen')
           <= 1 + Cardinality(Woken')
    BY <1>0, <1>2, <1>3, <1>4, <1>5, <2>3, <2>4
  <2> QED BY <1>0, <1>2, <2>4, <2>5, Zenon DEF BoundInv
<1>7. CASE CloseCheck(s) \/ CloseClearRunning(s) \/ CloseFds(s)
  <2>1. counter' = counter
    BY <1>7 DEF CloseCheck, CloseClearRunning, CloseFds
  <2>2. Woken' = Woken
    BY <1>1, <1>7 DEF CloseCheck, CloseClearRunning, CloseFds, Woken
  <2> QED BY <1>0, <1>2, <1>4, <1>5, <2>1, <2>2, Zenon DEF BoundInv
<1> QED BY <1>6, <1>7, Zenon DEF StopStep

\* Every step keeps the account of the writes.
LEMMA BoundStep ==
    ASSUME TypeOK, TypeOK', BoundInv, IsFiniteSet(Stoppers), [Next]_vars
    PROVE  BoundInv'
<1>1. ASSUME UNCHANGED <<needWake, counter, kqueue, events, wake, loopPc>>,
             Waking' = Waking, Woken' = Woken
      PROVE  BoundInv'
  <2>1. counter' = counter /\ One(needWake') = One(needWake) /\ One(WakeSeen') = One(WakeSeen)
    BY <1>1 DEF One, WakeSeen
  <2> QED BY <1>1, <2>1 DEF BoundInv
<1>2. ASSUME NEW c \in Callers, NEW t \in Tasks, QueueAppend(c, t), Woken' = Woken
      PROVE  BoundInv'
  <2>1. Waking' = Waking
    BY <1>2 DEF QueueAppend, Waking, TypeOK
  <2> QED BY <1>1, <1>2, <2>1, Zenon DEF QueueAppend, pollVars
<1>3. CASE LoopStep
  BY <1>3, BoundLoop
<1>4. CASE LoopQueue
  BY <1>2, <1>4 DEF LoopQueue, Callers, Woken
<1>5. ASSUME NEW p \in Producers, ProducerQueue(p) PROVE BoundInv'
  BY <1>2, <1>5 DEF ProducerQueue, Callers, Woken
<1>6. ASSUME NEW c \in Callers, CallStep(c) PROVE BoundInv'
  BY <1>6, BoundCall
<1>7. ASSUME NEW s \in Stoppers, StopQueue(s) PROVE BoundInv'
  <2>1. Woken' = Woken
    BY <1>7 DEF StopQueue, Woken, TypeOK
  <2> QED BY <1>2, <1>7, <2>1, Zenon DEF StopQueue, Callers
<1>8. ASSUME NEW s \in Stoppers, StopStep(s) PROVE BoundInv'
  BY <1>8, BoundStop
<1>9. ASSUME NEW fd \in Fds, SocketReady(fd) PROVE BoundInv'
  BY <1>1, <1>9, Zenon DEF SocketReady, Waking, Woken
<1>10. CASE UNCHANGED vars
  BY <1>1, <1>10 DEF vars, pollVars, Waking, Woken
<1> QED
  BY <1>3, <1>4, <1>5, <1>6, <1>7, <1>8, <1>9, <1>10, Zenon DEF Next

\* The eventfd never holds more than one unread write and one for each Stop,
\* however many goroutines call QueueInLoop, so that Wake never blocks.
THEOREM WakeUpsAreBounded == ASSUME IsFiniteSet(Stoppers) PROVE Spec => []WakesBounded
<1>1. Init => BoundInv
  <2> SUFFICES ASSUME Init PROVE BoundInv
    OBVIOUS
  <2>1. Waking = {} /\ Woken = {}
    BY DEF Init, Waking, Woken
  <2>2. One(needWake) = 1 /\ One(WakeSeen) = 0 /\ counter = 0
    BY DEF Init, One, WakeSeen
  <2> QED BY <2>1, <2>2, FS_EmptySet DEF BoundInv, Init
<1>2. IndInv /\ IndInv' /\ BoundInv /\ [Next]_vars => BoundInv'
  BY BoundStep DEF IndInv
<1>3. IndInv /\ BoundInv => WakesBounded
  <2> SUFFICES ASSUME IndInv, BoundInv PROVE WakesBounded
    OBVIOUS
  <2>1. Cardinality(Waking) \in Nat /\ counter \in Nat
    BY FS_CardinalityType, Zenon DEF BoundInv, IndInv, TypeOK
  <2>2. Cardinality(Woken) <= Cardinality(Stoppers) /\ Cardinality(Woken) \in Nat
    BY FS_CardinalityType, FS_Subset DEF Woken
  <2>3. Cardinality(Stoppers) \in Nat
    BY FS_CardinalityType
  <2>4. One(needWake) \in Nat /\ One(WakeSeen) \in Nat
    BY DEF One
  <2>5. counter + Cardinality(Waking) + One(needWake) + One(WakeSeen) <= 1 + Cardinality(Woken)
    BY DEF BoundInv
  <2>6. counter + Cardinality(Waking) <= 1 + Cardinality(Stoppers)
    BY <2>1, <2>2, <2>3, <2>4, <2>5
  <2> QED BY <2>6 DEF WakesBounded, Waking
<1> QED BY IndInvHolds, <1>1, <1>2, <1>3, PTL DEF Spec

-----------------------------------------------------------------------------
(* The loop is a FIFO worker *)

\* The closures that have been appended and not started.
Pending == SubSeq(taskQueueR, started + 1, Len(taskQueueR)) \o taskQueueW

\* Starting the closure at doPendingFunc's index takes the oldest one off.
LEMMA PendingHead ==
    ASSUME NEW S, NEW q \in Seq(S), NEW w \in Seq(S), NEW n \in Nat, n < Len(q)
    PROVE  /\ SubSeq(q, n + 1, Len(q)) \o w # <<>>
           /\ Head(SubSeq(q, n + 1, Len(q)) \o w) = q[n + 1]
           /\ Tail(SubSeq(q, n + 1, Len(q)) \o w) = SubSeq(q, n + 2, Len(q)) \o w
<1> DEFINE u == SubSeq(q, n + 1, Len(q))
           v == SubSeq(q, n + 2, Len(q))
<1>1. /\ Len(q) \in Nat /\ n + 1 \in 1..Len(q) /\ Len(q) \in (n + 1)..Len(q)
      /\ (n + 1) + 1 = n + 2
  OBVIOUS
<1>2. Head(u) = q[n + 1] /\ Tail(u) = v
  BY <1>1, HeadTailOfSubSeq
<1>3. u \in Seq(S) /\ Len(u) > 0
  <2>1. \A i \in (n + 1)..Len(q) : q[i] \in S
    BY <1>1
  <2> QED BY <1>1, <2>1, SubSeqProperties
<1>4. v \in Seq(S)
  BY <1>2, <1>3
<1> HIDE DEF u, v
<1>5. /\ u \o w \in Seq(S) /\ Len(u \o w) = Len(u) + Len(w) /\ Len(u) \in Nat /\ Len(w) \in Nat
      /\ \A i \in 1..(Len(u) + Len(w)) : (u \o w)[i] = IF i <= Len(u) THEN u[i] ELSE w[i - Len(u)]
  BY <1>3, ConcatProperties
<1>6. u \o w # <<>> /\ Head(u \o w) = Head(u)
  BY <1>3, <1>5
<1>7. Tail(u \o w) = v \o w
  <2>1. /\ Tail(u \o w) \in Seq(S) /\ Len(Tail(u \o w)) = Len(u) + Len(w) - 1
        /\ \A i \in 1..(Len(u) + Len(w) - 1) : Tail(u \o w)[i] = (u \o w)[i + 1]
    BY <1>5, <1>6, HeadTailProperties
  <2>2. Len(v) = Len(u) - 1 /\ \A i \in 1..Len(v) : v[i] = u[i + 1]
    <3>1. u # <<>>
      BY <1>3
    <3> QED BY <1>2, <1>3, <3>1, HeadTailProperties, Zenon
  <2>3. /\ v \o w \in Seq(S) /\ Len(v \o w) = Len(v) + Len(w)
        /\ \A i \in 1..(Len(v) + Len(w)) : (v \o w)[i] = IF i <= Len(v) THEN v[i] ELSE w[i - Len(v)]
    BY <1>4, ConcatProperties, Zenon
  <2>4. ASSUME NEW i \in 1..(Len(u) + Len(w) - 1) PROVE Tail(u \o w)[i] = (v \o w)[i]
    <3>1. CASE i <= Len(v)
      <4>1. i \in 1..Len(v) /\ i + 1 <= Len(u) /\ i + 1 \in 1..(Len(u) + Len(w))
        BY <1>3, <1>5, <2>2, <2>4, <3>1
      <4>2. i \in 1..(Len(v) + Len(w))
        BY <1>3, <1>5, <2>2, <2>4
      <4>3. Tail(u \o w)[i] = (u \o w)[i + 1] /\ (v \o w)[i] = v[i]
        BY <2>1, <2>3, <2>4, <3>1, <4>2, Zenon
      <4>4. (u \o w)[i + 1] = u[i + 1]
        BY <1>5, <4>1, Zenon
      <4> QED BY <2>2, <4>1, <4>3, <4>4, Zenon
    <3>2. CASE i > Len(v)
      <4>1. (i + 1) - Len(u) = i - Len(v) /\ i + 1 > Len(u) /\ i + 1 \in 1..(Len(u) + Len(w))
        BY <1>3, <1>5, <2>2, <2>4, <3>2
      <4>2. i \in 1..(Len(v) + Len(w))
        BY <1>3, <1>5, <2>2, <2>4
      <4> QED BY <1>3, <1>5, <2>1, <2>2, <2>3, <2>4, <3>2, <4>1, <4>2
    <3> QED BY <1>5, <2>2, <3>1, <3>2
  <2>5. Len(v \o w) = Len(Tail(u \o w)) /\ 1..Len(Tail(u \o w)) = 1..(Len(u) + Len(w) - 1)
    BY <1>3, <1>5, <2>1, <2>2, <2>3
  <2> QED BY <2>1, <2>3, <2>4, <2>5, SeqEqual, Zenon
<1> QED BY <1>2, <1>6, <1>7, Zenon DEF u, v

\* An append goes to the end of them.
LEMMA PendingAppend ==
    ASSUME NEW S, NEW u \in Seq(S), NEW w \in Seq(S), NEW t \in S
    PROVE  u \o Append(w, t) = Append(u \o w, t)
<1>1. <<t>> \in Seq(S) /\ u \o w \in Seq(S)
  BY ConcatProperties
<1>2. Append(w, t) = w \o <<t>> /\ Append(u \o w, t) = (u \o w) \o <<t>>
  BY <1>1, AppendIsConcat
<1> QED BY <1>1, <1>2, ConcatAssociative

\* QueueInLoop submits a closure, by whichever goroutine.
LEMMA SubmitStep ==
    ASSUME IndInv, NEW c, NEW t \in Tasks, QueueAppend(c, t)
    PROVE  TQ!Next
<1>1. /\ taskQueueR \in Seq(Tasks) /\ taskQueueW \in Seq(Tasks) /\ executed \in Seq(Tasks)
      /\ started \in 0..Len(taskQueueR)
  BY DEF IndInv, TypeOK
<1>2. /\ t \notin Range(taskQueueW) \cup Range(taskQueueR) \cup Range(executed)
      /\ taskQueueW' = Append(taskQueueW, t)
      /\ UNCHANGED <<taskQueueR, started, executed, loopPc>>
  BY DEF QueueAppend
<1> DEFINE u == SubSeq(taskQueueR, started + 1, Len(taskQueueR))
<1>3. /\ u \in Seq(Tasks) /\ Len(u) = Len(taskQueueR) - started
      /\ \A i \in 1..Len(u) : u[i] = taskQueueR[started + i] /\ started + i \in 1..Len(taskQueueR)
  <2>1. /\ started + 1 \in Int /\ Len(taskQueueR) \in Int /\ started \in Nat
        /\ \A i \in (started + 1)..Len(taskQueueR) : taskQueueR[i] \in Tasks
    BY <1>1
  <2>2. /\ u \in Seq(Tasks)
        /\ Len(u) = IF started + 1 <= Len(taskQueueR) THEN Len(taskQueueR) - (started + 1) + 1 ELSE 0
        /\ \A i \in 1..(Len(taskQueueR) - (started + 1) + 1) : u[i] = taskQueueR[started + 1 + i - 1]
    BY <2>1, SubSeqProperties
  <2> HIDE DEF u
  <2>3. Len(u) = Len(taskQueueR) - started
    BY <1>1, <2>1, <2>2
  <2>4. ASSUME NEW i \in 1..Len(u)
        PROVE  u[i] = taskQueueR[started + i] /\ started + i \in 1..Len(taskQueueR)
    <3>1. /\ started + 1 + i - 1 = started + i /\ started + i \in 1..Len(taskQueueR)
          /\ i \in 1..(Len(taskQueueR) - (started + 1) + 1)
      BY <1>1, <2>1, <2>3, <2>4
    <3> QED BY <2>2, <3>1, Zenon
  <2> QED BY <2>2, <2>3, <2>4
<1> HIDE DEF u
<1>4. Pending = u \o taskQueueW /\ Pending' = Append(Pending, t)
  <2>1. u \o Append(taskQueueW, t) = Append(u \o taskQueueW, t)
    BY <1>1, <1>3, PendingAppend
  <2>2. Pending = u \o taskQueueW /\ Pending' = u \o Append(taskQueueW, t)
    BY <1>2 DEF Pending, u
  <2> QED BY <2>1, <2>2, Zenon
<1>5. ASSUME NEW i \in DOMAIN Pending, Pending[i] = t PROVE FALSE
  <2>1. /\ u \o taskQueueW \in Seq(Tasks) /\ Len(u \o taskQueueW) = Len(u) + Len(taskQueueW)
        /\ \A j \in 1..(Len(u) + Len(taskQueueW)) :
              (u \o taskQueueW)[j] = IF j <= Len(u) THEN u[j] ELSE taskQueueW[j - Len(u)]
    BY <1>1, <1>3, ConcatProperties, Zenon
  <2>2. i \in 1..(Len(u) + Len(taskQueueW)) /\ Len(u) \in Nat /\ Len(taskQueueW) \in Nat
    BY <1>1, <1>3, <1>4, <1>5, <2>1
  <2>3. CASE i <= Len(u)
    <3>1. i \in 1..Len(u) /\ u[i] = t
      BY <1>4, <1>5, <2>1, <2>2, <2>3
    <3>2. started + i \in 1..Len(taskQueueR) /\ taskQueueR[started + i] = t
      BY <1>3, <3>1
    <3>3. DOMAIN taskQueueR = 1..Len(taskQueueR)
      BY <1>1, LenProperties, Zenon
    <3> QED BY <1>2, <3>2, <3>3, Zenon DEF Range
  <2>4. CASE i > Len(u)
    <3>1. i - Len(u) \in 1..Len(taskQueueW)
      BY <2>2, <2>4
    <3>2. i - Len(u) \in DOMAIN taskQueueW /\ taskQueueW[i - Len(u)] = t
      BY <1>1, <1>4, <1>5, <2>1, <2>2, <2>4, <3>1
    <3> QED BY <1>2, <3>2 DEF Range
  <2> QED BY <2>2, <2>3, <2>4
<1>6. \A i \in DOMAIN executed : executed[i] # t
  BY <1>2, Zenon DEF Range
<1>7. TQ!Submit(t)
  BY <1>2, <1>4, <1>5, <1>6, Zenon DEF TQ!Submit, Pending
<1> QED BY <1>7 DEF TQ!Next

\* The loop executes closures when doPendingFunc starts them, in the order of
\* the appends; swapping and truncating the queues is not seen from outside.
LEMMA WorkerStep ==
    ASSUME IndInv, LoopStep
    PROVE  TQ!Next \/ UNCHANGED TQ!vars
<1>1. /\ taskQueueR \in Seq(Tasks) /\ taskQueueW \in Seq(Tasks)
      /\ started \in 0..Len(taskQueueR)
      /\ loopPc # "run" => taskQueueR = <<>> /\ started = 0
  BY DEF IndInv, TypeOK, WakeupInv
<1>2. ASSUME UNCHANGED queueVars, loopPc # "exited", loopPc' # "exited" PROVE UNCHANGED TQ!vars
  BY <1>2, Zenon DEF queueVars, TQ!vars
<1>3. CASE PollStart \/ EpollWait \/ CallbackReturn \/ WakeHandlerRead \/ EndOfEvents \/ SetNeedWake
  BY <1>2, <1>3, Zenon
     DEF PollStart, EpollWait, CallbackReturn, WakeHandlerRead, EndOfEvents, SetNeedWake
<1>4. ASSUME NEW fd \in Fds, HandleSocket(fd) PROVE UNCHANGED TQ!vars
  BY <1>2, <1>4 DEF HandleSocket
<1>5. CASE SwapQueues
  <2>1. /\ taskQueueR = <<>> /\ started = 0 /\ taskQueueR' = taskQueueW /\ taskQueueW' = <<>>
        /\ started' = 0 /\ UNCHANGED executed /\ loopPc # "exited" /\ loopPc' # "exited"
    BY <1>1, <1>5 DEF SwapQueues
  <2>2. Pending = taskQueueW
    <3>1. SubSeq(<<>>, 0 + 1, Len(<<>>)) = <<>>
      BY SubSeqEmpty
    <3> QED BY <1>1, <2>1, <3>1, ConcatEmptySeq, Zenon DEF Pending
  <2>3. Pending' = taskQueueW
    <3>1. SubSeq(taskQueueW, 0 + 1, Len(taskQueueW)) = taskQueueW
      BY <1>1, SubSeqFull
    <3> QED BY <1>1, <2>1, <3>1, ConcatEmptySeq, Zenon DEF Pending
  <2> QED BY <2>1, <2>2, <2>3, Zenon DEF Pending, TQ!vars
<1>6. CASE RunTask
  <2>1. /\ started < Len(taskQueueR) /\ started' = started + 1 /\ started \in Nat
        /\ executed' = Append(executed, taskQueueR[started + 1])
        /\ UNCHANGED <<taskQueueR, taskQueueW, loopPc>> /\ loopPc = "run"
    BY <1>1, <1>6 DEF RunTask
  <2>2. /\ Pending # <<>> /\ Head(Pending) = taskQueueR[started + 1]
        /\ Tail(Pending) = SubSeq(taskQueueR, started + 2, Len(taskQueueR)) \o taskQueueW
    BY <1>1, <2>1, PendingHead, Zenon DEF Pending
  <2>3. Pending' = SubSeq(taskQueueR, started + 2, Len(taskQueueR)) \o taskQueueW
    <3>1. started' + 1 = started + 2
      BY <2>1
    <3> QED BY <2>1, <3>1, Zenon DEF Pending
  <2> QED BY <2>1, <2>2, <2>3, Zenon DEF Pending, TQ!Next, TQ!Execute
<1>7. CASE EndOfTasks
  <2>1. /\ started = Len(taskQueueR) /\ taskQueueR' = <<>> /\ started' = 0
        /\ UNCHANGED <<taskQueueW, executed>> /\ loopPc # "exited" /\ loopPc' # "exited"
    BY <1>7 DEF EndOfTasks
  <2>2. SubSeq(taskQueueR, started + 1, Len(taskQueueR)) = <<>>
    <3>1. Len(taskQueueR) \in Int /\ started + 1 \in Int /\ Len(taskQueueR) < started + 1
      BY <1>1, <2>1
    <3> QED BY <3>1, SubSeqEmpty
  <2>3. SubSeq(<<>>, 0 + 1, Len(<<>>)) = <<>>
    BY SubSeqEmpty
  <2> QED BY <2>1, <2>2, <2>3 DEF TQ!vars
<1>8. CASE CheckRunning
  <2>1. CASE loopPc' = "exited"
    BY <1>8, <2>1, Zenon DEF CheckRunning, queueVars, TQ!Next, TQ!End
  <2>2. CASE loopPc' # "exited"
    BY <1>2, <1>8, <2>2 DEF CheckRunning
  <2> QED BY <2>1, <2>2
<1> QED BY <1>3, <1>4, <1>5, <1>6, <1>7, <1>8, Zenon DEF LoopStep

\* Run, seen by the callers of QueueInLoop, does nothing that the FIFO worker
\* of TaskQueue does not: a closure is started once, after those appended
\* before it, and none is started after the loop has ended.
THEOREM LoopIsFifo == Spec => TQ!Safety
<1>1. Init => TQ!Init
  <2> SUFFICES ASSUME Init PROVE TQ!Init
    OBVIOUS
  <2>1. SubSeq(<<>>, 0 + 1, Len(<<>>)) = <<>>
    BY SubSeqEmpty
  <2> QED BY <2>1 DEF Init, TQ!Init
<1>2. ASSUME IndInv, [Next]_vars PROVE TQ!Next \/ UNCHANGED TQ!vars
  <2>1. ASSUME UNCHANGED <<queueVars, loopPc>> PROVE UNCHANGED TQ!vars
    BY <2>1 DEF queueVars, TQ!vars
  <2>2. CASE LoopStep
    BY <1>2, <2>2, WorkerStep
  <2>3. CASE LoopQueue
    BY <1>2, <2>3, SubmitStep DEF LoopQueue
  <2>4. ASSUME NEW p \in Producers, ProducerQueue(p) PROVE TQ!Next
    BY <1>2, <2>4, SubmitStep DEF ProducerQueue
  <2>5. ASSUME NEW s \in Stoppers, StopQueue(s) PROVE TQ!Next
    BY <1>2, <2>5, SubmitStep DEF StopQueue
  <2>6. ASSUME NEW c \in Callers, CallStep(c) PROVE UNCHANGED TQ!vars
    BY <2>1, <2>6, ZenonT(40) DEF CallStep, QueueCAS, QueueWake
  <2>7. ASSUME NEW s \in Stoppers, StopStep(s) PROVE UNCHANGED TQ!vars
    BY <2>1, <2>7, Zenon DEF StopStep, CloseCheck, CloseClearRunning, CloseWake, CloseFds
  <2>8. ASSUME NEW fd \in Fds, SocketReady(fd) PROVE UNCHANGED TQ!vars
    BY <2>1, <2>8 DEF SocketReady
  <2>9. CASE UNCHANGED vars
    BY <2>1, <2>9 DEF vars
  <2> QED BY <1>2, <2>2, <2>3, <2>4, <2>5, <2>6, <2>7, <2>8, <2>9, Zenon DEF Next
<1> QED BY <1>1, <1>2, IndInvHolds, PTL DEF Spec, TQ!Safety
=============================================================================
