-------------------------- MODULE LifetimeProofs ---------------------------
(***************************************************************************)
(* Proofs about Lifetime, for any idle times and resolution of the clock   *)
(* and any number of accepting goroutines: who closes a connection, what   *)
(* becomes of its timer, and how the accepting goroutines leave.           *)
(***************************************************************************)
EXTENDS Lifetime, TLAPS

USE DEF closeVars, timeVars, activeVars, timerVars, stopVars, lifeVars, StopFrame,
        ConnFrame

-----------------------------------------------------------------------------
(* What a step does to the connection, its timer and its closing *)

\* Nothing but the clock, the timer or activity.
TimerOnly ==
    /\ UNCHANGED <<closeVars, accepted, closeQueued>>
    /\ \/ UNCHANGED timerVars
       \/ Activity \/ Tick \/ TimerFires \/ TimerKeep(connected) \/ TimerArm \/ TimerStore

Opens == NewConnection /\ UNCHANGED closeQueued

\* The goroutine a calls Close.
Calls(a) ==
    /\ Close(a)
    /\ UNCHANGED <<connected, dying, sockClosed, onCloses, panicked, accepted>>
    /\ \/ a # Timer /\ UNCHANGED timerVars
       \/ a = Timer /\ closePc[Timer] = "no" /\ TimerClose

\* It goes on inside Close of server_std.go.
Works(a) == CloseStep(a) /\ UNCHANGED <<accepted, closeQueued>>

\* The loop of connection.go closes the connection.
LoopEnds ==
    /\ closeQueued \/ ~std
    /\ closeQueued' \in {closeQueued, FALSE}
    /\ handleClose /\ (UNCHANGED activeVars \/ SetActiveTime)
    /\ UNCHANGED <<dying, sockClosed, closePc, panicked, accepted>>

\* Every step of Next is of one of these kinds.
LEMMA Kinds ==
    ASSUME [Next]_vars
    PROVE  /\ UNCHANGED timeVars
           /\ \/ TimerOnly \/ Opens \/ LoopEnds
              \/ \E a \in Closers : Calls(a) \/ Works(a)
<1> DEFINE Kind == \/ TimerOnly \/ Opens \/ LoopEnds
                   \/ \E a \in Closers : Calls(a) \/ Works(a)
<1>0. /\ {Reader, Writer, User, Timer, Stopper} \subseteq Closers
      /\ Timer \notin {Reader, Writer, User, Stopper}
  BY ActorsAssumption
<1>a. UNCHANGED timeVars
  BY DEF Next, vars
<1> SUFFICES Kind
  BY <1>a
<1>1. CASE Start /\ UNCHANGED closeQueued
  BY <1>1 DEF Start, TimerOnly
<1>2. CASE StartReturns /\ UNCHANGED closeQueued
  BY <1>2 DEF StartReturns, TimerOnly
<1>3. CASE AcceptInLoop /\ UNCHANGED closeQueued
  BY <1>3 DEF AcceptInLoop, Opens
<1>4. ASSUME NEW a \in Acceptors, AcceptStep(a) PROVE Kind
  <2>1. CASE Accept(a)
    BY <1>4, <2>1 DEF AcceptStep, Accept, Opens
  <2>2. CASE ~Accept(a)
    BY <1>4, <2>2 DEF AcceptStep, AcceptTop, AcceptError, Store, Launch, TimerOnly
  <2> QED BY <2>1, <2>2
<1>5. CASE Stop /\ StopFrame
  BY <1>5 DEF Stop, TimerOnly
<1>6. CASE StopStep
  <2>1. CASE StopListener
    BY <1>6, <2>1 DEF StopStep, StopListener, TimerOnly
  <2>2. CASE StopRange
    BY <1>0, <1>6, <2>2 DEF StopStep, StopRange, TimerOnly, Calls
  <2> QED BY <1>6, <2>1, <2>2 DEF StopStep, StopNext
<1>7. CASE ConnStep
  <2>1. ASSUME NEW a \in Closers, CloseGoesOn(a) PROVE Kind
    BY <1>7, <2>1 DEF ConnStep, CloseGoesOn, Works
  <2>2. CASE LoopCloses
    BY <1>7, <2>2, Zenon DEF ConnStep, LoopCloses, RunHandleClose, LoopEnds
  <2>3. CASE HandleEvent \/ LoopTurn \/ TimerIsStored \/ TimePasses
    BY <1>7, <2>3 DEF ConnStep, HandleEvent, LoopTurn, TimerIsStored, TimePasses, TimerOnly
  <2>4. CASE HandleEventErr
    BY <1>7, <2>4 DEF ConnStep, HandleEventErr, LoopEnds
  <2>5. CASE ReaderSelect \/ WriterSelect
    BY <1>7, <2>5 DEF ConnStep, ReaderSelect, WriterSelect, TimerOnly
  <2>6. CASE ReaderError
    BY <1>0, <1>7, <2>6 DEF ConnStep, ReaderError, Calls
  <2>7. CASE WriterError
    BY <1>0, <1>7, <2>7 DEF ConnStep, WriterError, Calls
  <2>8. CASE UserClose
    BY <1>0, <1>7, <2>8 DEF ConnStep, UserClose, Calls
  <2>9. CASE TimerStep
    <3>1. CASE closePc[Timer] = "no" /\ TimerClose /\ Close(Timer)
      BY <1>0, <1>7, <2>9, <3>1 DEF ConnStep, TimerStep, Calls
    <3>2. CASE ~(closePc[Timer] = "no" /\ TimerClose /\ Close(Timer))
      BY <1>7, <2>9, <3>2 DEF ConnStep, TimerStep, TimerGoesOn, TimerOnly
    <3> QED BY <3>1, <3>2
  <2> QED
    BY <1>7, <2>1, <2>2, <2>3, <2>4, <2>5, <2>6, <2>7, <2>8, <2>9 DEF ConnStep
<1>8. CASE UNCHANGED vars
  BY <1>8 DEF vars, TimerOnly
<1> QED
  BY <1>1, <1>2, <1>3, <1>4, <1>5, <1>6, <1>7, <1>8 DEF Next

-----------------------------------------------------------------------------
(* Types *)

\* Every step of a timer, of activity and of Close keeps the timer's variables
\* in their ranges; the function's rest of the idle time is never negative.
LEMMA TimerTypes ==
    ASSUME TimerTypeOK, UNCHANGED timeVars,
           \/ UNCHANGED timerVars
           \/ ArmTimer \/ Activity
           \/ StopTimer /\ (UNCHANGED activeVars \/ SetActiveTime)
           \/ Tick \/ TimerFires \/ TimerClose \/ TimerKeep(connected)
           \/ TimerArm \/ TimerStore
           \/ UNCHANGED <<phase, pending, remaining, current, cbPc>> /\ SetActiveTime
    PROVE  TimerTypeOK'
<1> USE TimeAssumption DEF TimerTypeOK
<1>0. idleTime \in Nat
  OBVIOUS
<1>1. CASE UNCHANGED timerVars
  BY <1>1
<1>2. CASE ArmTimer
  <2>1. CASE idleTime > 0
    <3>1. age' = 0 /\ activePhase' = phase /\ remaining' = idleTime
      BY <1>2, <2>1 DEF ArmTimer
    <3>2. pending' = TRUE /\ current' = TRUE /\ phase' = phase /\ cbPc' = cbPc
      BY <1>2, <2>1 DEF ArmTimer
    <3>3. age' \in 0..idleTime /\ remaining' \in 0..idleTime
      BY <1>0, <3>1
    <3> QED BY <3>1, <3>2, <3>3
  <2>2. CASE ~(idleTime > 0)
    BY <1>2, <2>2 DEF ArmTimer
  <2> QED BY <2>1, <2>2
<1>3. CASE Activity
  BY <1>3 DEF Activity, SetActiveTime
<1>4. CASE StopTimer /\ (UNCHANGED activeVars \/ SetActiveTime)
  <2>1. pending' \in BOOLEAN /\ current' \in BOOLEAN
    BY <1>4, Zenon DEF StopTimer
  <2>2. age' \in 0..idleTime /\ activePhase' \in 0..(TicksPerSecond - 1)
    BY <1>0, <1>4 DEF SetActiveTime, StopTimer
  <2> QED BY <1>4, <2>1, <2>2 DEF StopTimer
<1>5. CASE Tick
  <2>1. phase' \in 0..(TicksPerSecond - 1)
    BY <1>5 DEF Tick
  <2> QED BY <1>5, <2>1 DEF Tick
<1>6. CASE TimerFires
  BY <1>6, Zenon DEF TimerFires
<1>7. CASE TimerClose
  BY <1>7 DEF TimerClose
<1>8. CASE TimerKeep(connected)
  BY <1>8 DEF TimerKeep, Intervals
<1>9. CASE TimerArm
  BY <1>9 DEF TimerArm
<1>10. CASE TimerStore
  BY <1>10 DEF TimerStore
<1>11. CASE UNCHANGED <<phase, pending, remaining, current, cbPc>> /\ SetActiveTime
  BY <1>11 DEF SetActiveTime
<1> QED
  BY <1>1, <1>2, <1>3, <1>4, <1>5, <1>6, <1>7, <1>8, <1>9, <1>10, <1>11

\* Close and handleClose keep the types of what they share.
LEMMA CloseTypes ==
    ASSUME CloseTypeOK,
           TimerOnly \/ Opens \/ LoopEnds \/ \E a \in Closers : Calls(a) \/ Works(a)
    PROVE  CloseTypeOK'
<1> USE DEF CloseTypeOK
<1>1. CASE TimerOnly
  BY <1>1 DEF TimerOnly
<1>2. CASE Opens
  BY <1>2 DEF Opens, NewConnection
<1>3. CASE LoopEnds
  <2>1. CASE connected
    <3>1. connected' = FALSE /\ onCloses' = onCloses + 1
      BY <1>3, <2>1, Zenon DEF LoopEnds, handleClose
    <3>2. UNCHANGED <<dying, sockClosed, closePc, panicked>>
      BY <1>3 DEF LoopEnds
    <3>3. {connected, dying, sockClosed, panicked}' \subseteq BOOLEAN
      BY <3>1, <3>2, Zenon
    <3>4. onCloses' \in Nat
      BY <3>1
    <3> QED BY <3>2, <3>3, <3>4
  <2>2. CASE ~connected
    BY <1>3, <2>2 DEF LoopEnds, handleClose
  <2> QED BY <2>1, <2>2
<1>4. ASSUME NEW a \in Closers, Calls(a) PROVE CloseTypeOK'
  BY <1>4, Zenon DEF Calls, Close, Enter
<1>5. ASSUME NEW a \in Closers, Works(a) PROVE CloseTypeOK'
  <2>1. CASE CloseDying(a)
    BY <2>1, Zenon DEF CloseDying
  <2>2. CASE CloseFlag(a)
    BY <2>2, Zenon DEF CloseFlag
  <2>3. CASE CloseOnClose(a)
    BY <2>3 DEF CloseOnClose
  <2>4. CASE CloseConn(a)
    BY <2>4, Zenon DEF CloseConn
  <2> QED BY <1>5, <2>1, <2>2, <2>3, <2>4 DEF Works, CloseStep
<1> QED BY <1>1, <1>2, <1>3, <1>4, <1>5

-----------------------------------------------------------------------------
(* Close *)

\* What makes OnClose unique: only the goroutine that closed the channel dying
\* gets past it, and it calls OnClose after connected has been cleared; in
\* connection.go only the loop's handleClose does either.
CloseInv ==
    /\ onCloses <= 1 /\ (onCloses = 1 => ~connected)
    /\ ~accepted => ~connected /\ ~dying /\ onCloses = 0
    /\ ~accepted \/ ~std => \A a \in Closers : closePc[a] = "no"
    /\ ~std => ~dying
    /\ closeQueued => ~std
    /\ std /\ ~dying => onCloses = 0
    /\ \A a \in Closers :
          /\ closePc[a] = "dying" /\ ~dying => connected
          /\ closePc[a] = "flag" => dying /\ connected /\ onCloses = 0
          /\ closePc[a] = "onClose" => dying /\ ~connected /\ onCloses = 0
          /\ closePc[a] = "conn" => dying /\ ~connected
    /\ \A a, b \in Closers :
          {closePc[a], closePc[b]} \subseteq {"flag", "onClose"} => a = b

\* No step of either kind but the one that closed dying gets to OnClose.
LEMMA CloseInvStep ==
    ASSUME TypeOK, CloseInv, [Next]_vars
    PROVE  CloseInv'
<1> USE DEF CloseInv
<1>0. CloseTypeOK /\ UNCHANGED timeVars
  BY Kinds DEF TypeOK
<1>1. CASE TimerOnly
  BY <1>0, <1>1 DEF TimerOnly
<1>2. CASE Opens
  BY <1>0, <1>2 DEF Opens, NewConnection
<1>3. CASE LoopEnds
  <2>1. CASE connected
    <3>1. connected' = FALSE /\ onCloses' = onCloses + 1
      BY <1>3, <2>1, Zenon DEF LoopEnds, handleClose
    <3>2. UNCHANGED <<dying, closePc, accepted>> /\ closeQueued' \in {closeQueued, FALSE}
      BY <1>3, Zenon DEF LoopEnds
    <3>3. ~std
      BY <1>3 DEF LoopEnds
    <3>4. onCloses = 0
      BY <1>0, <2>1 DEF CloseTypeOK
    <3> QED BY <1>0, <3>1, <3>2, <3>3, <3>4, <2>1
  <2>2. CASE ~connected
    BY <1>0, <1>3, <2>2, Zenon DEF LoopEnds, handleClose
  <2> QED BY <2>1, <2>2
<1>4. ASSUME NEW a \in Closers, Calls(a) PROVE CloseInv'
  <2> USE DEF CloseTypeOK
  <2>1. CASE std
    BY <1>0, <1>4, <2>1 DEF Calls, Close, Enter
  <2>2. CASE ~std
    BY <1>0, <1>4, <2>2, ZenonT(40) DEF Calls, Close
  <2> QED BY <2>1, <2>2, Zenon
<1>5. ASSUME NEW a \in Closers, Works(a) PROVE CloseInv'
  <2> USE DEF CloseTypeOK
  <2>0. UNCHANGED <<accepted, closeQueued>>
    BY <1>5, Zenon DEF Works
  <2>1. CASE CloseDying(a)
    BY <1>0, <2>0, <2>1 DEF CloseDying
  <2>2. CASE CloseFlag(a)
    BY <1>0, <2>0, <2>2 DEF CloseFlag
  <2>3. CASE CloseOnClose(a)
    BY <1>0, <2>0, <2>3 DEF CloseOnClose
  <2>4. CASE CloseConn(a)
    BY <1>0, <2>0, <2>4 DEF CloseConn
  <2> QED BY <1>5, <2>1, <2>2, <2>3, <2>4 DEF Works, CloseStep
<1> QED BY <1>1, <1>2, <1>3, <1>4, <1>5, Kinds, Zenon

-----------------------------------------------------------------------------
(* The timer *)

\* No step takes the last timer from a connected connection: whoever stops it
\* has cleared connected, and the timer's function arms another or calls Close.
LEMMA TimerKeptStep ==
    ASSUME TypeOK, CloseInv, TimerKept, [Next]_vars
    PROVE  TimerKept'
<1> USE DEF TimerKept, TimerAlive
<1>0. CloseTypeOK /\ UNCHANGED timeVars /\ Timer \in Closers
  BY Kinds, ActorsAssumption DEF TypeOK
<1>1. CASE TimerOnly
  BY <1>0, <1>1 DEF TimerOnly, Activity, Tick, TimerFires, TimerKeep, TimerArm, TimerStore
<1>2. CASE Opens
  BY <1>0, <1>2 DEF Opens, NewConnection, ArmTimer
<1>3. CASE LoopEnds
  <2>1. ~connected'
    BY <1>3 DEF LoopEnds, handleClose
  <2> QED BY <2>1
<1>4. ASSUME NEW a \in Closers, Calls(a) PROVE TimerKept'
  <2>1. CASE UNCHANGED timerVars
    <3>1. UNCHANGED connected
      BY <1>4 DEF Calls
    <3>2. connected => (closeQueued => closeQueued') /\ closePc' \in {closePc, [closePc EXCEPT ![a] = "dying"]}
      BY <1>4, Zenon DEF Calls, Close, Enter
    <3> QED BY <1>0, <2>1, <3>1, <3>2 DEF CloseTypeOK
  <2>2. CASE a = Timer /\ TimerClose
    BY <1>0, <1>4, <2>2, Zenon DEF Calls, Close, Enter, CloseTypeOK
  <2> QED BY <1>4, <2>1, <2>2 DEF Calls
<1>5. ASSUME NEW a \in Closers, Works(a) PROVE TimerKept'
  <2> USE DEF CloseTypeOK
  <2>0. UNCHANGED closeQueued
    BY <1>5, Zenon DEF Works
  <2>1. CASE CloseDying(a) /\ UNCHANGED timerVars
    <3>1. closePc' \in {closePc, [closePc EXCEPT ![a] = "flag"]} /\ UNCHANGED connected
      BY <2>1 DEF CloseDying
    <3> QED BY <1>0, <2>0, <2>1, <3>1
  <2>2. CASE CloseFlag(a)
    BY <2>2 DEF CloseFlag
  <2>3. CASE CloseOnClose(a) \/ CloseConn(a)
    <3>1. ~connected'
      BY <2>3, Zenon DEF CloseInv, CloseOnClose, CloseConn
    <3> QED BY <3>1
  <2> QED BY <1>5, <2>1, <2>2, <2>3 DEF Works, CloseStep
<1> QED BY <1>1, <1>2, <1>3, <1>4, <1>5, Kinds, Zenon

-----------------------------------------------------------------------------
(* The server's part of the types *)

LifeTypeOK ==
    /\ {running, wheelStopped, srvDying, listening, accepted, stored, closeQueued}
          \subseteq BOOLEAN
    /\ startPc \in {"new", "waiting", "returned"}
    /\ stopPc \in {"idle", "listener", "range", "found", "missed", "server"}
    /\ acceptPc \in [Acceptors -> {"new", "top", "accept", "store", "launch", "exited"}]
    /\ readPc \in {"new", "running", "exited"} /\ writePc \in {"new", "running", "exited"}

\* Start, the accepting goroutines, Stop and the loops keep theirs.
LEMMA LifeTypes ==
    ASSUME TypeOK, [Next]_vars
    PROVE  LifeTypeOK'
<1>0. LifeTypeOK /\ std \in BOOLEAN /\ connected \in BOOLEAN
  BY Zenon DEF TypeOK, LifeTypeOK, TimerTypeOK, CloseTypeOK
<1> USE DEF LifeTypeOK
<1>1. CASE Start /\ UNCHANGED closeQueued
  BY <1>0, <1>1, Zenon DEF Start
<1>2. CASE StartReturns /\ UNCHANGED closeQueued
  BY <1>0, <1>2 DEF StartReturns
<1>3. CASE AcceptInLoop /\ UNCHANGED closeQueued
  BY <1>0, <1>3, Zenon DEF AcceptInLoop, NewConnection
<1>4. ASSUME NEW a \in Acceptors, AcceptStep(a) PROVE LifeTypeOK'
  <2>0. UNCHANGED <<stopVars, closeQueued>>
    BY <1>4, Zenon DEF AcceptStep
  <2>1. CASE AcceptTop(a)
    BY <1>0, <2>0, <2>1 DEF AcceptTop
  <2>2. CASE AcceptError(a)
    BY <1>0, <2>0, <2>2 DEF AcceptError
  <2>3. CASE Accept(a)
    BY <1>0, <2>0, <2>3 DEF Accept, NewConnection
  <2>4. CASE Store(a)
    BY <1>0, <2>0, <2>4 DEF Store
  <2>5. CASE Launch(a)
    BY <1>0, <2>0, <2>5 DEF Launch
  <2> QED BY <1>4, <2>1, <2>2, <2>3, <2>4, <2>5 DEF AcceptStep
<1>5. CASE Stop /\ StopFrame
  BY <1>0, <1>5, Zenon DEF Stop
<1>6. CASE StopStep
  <2>1. CASE StopListener
    BY <1>0, <1>6, <2>1, Zenon DEF StopStep, StopListener
  <2>2. CASE StopRange
    <3>1. closeQueued' \in BOOLEAN
      BY <1>0, <2>2, Zenon DEF StopRange, Close
    <3> QED BY <1>0, <1>6, <2>2, <3>1 DEF StopStep, StopRange
  <2> QED BY <1>6, <2>1, <2>2 DEF StopStep, StopNext
<1>7. CASE ConnStep
  <2>1. /\ closeQueued' \in BOOLEAN
        /\ {readPc', writePc'} \subseteq {"new", "running", "exited"}
    <3>1. CASE \/ \E a \in Closers : CloseGoesOn(a)
               \/ LoopCloses \/ HandleEvent \/ HandleEventErr \/ LoopTurn
               \/ TimerIsStored \/ TimePasses
      BY <1>0, <3>1, Zenon DEF CloseGoesOn, LoopCloses, RunHandleClose, HandleEvent,
                        HandleEventErr, LoopTurn, TimerIsStored, TimePasses
    <3>2. CASE ReaderSelect \/ WriterSelect
      BY <1>0, <3>2 DEF ReaderSelect, WriterSelect
    <3>3. CASE ReaderError \/ WriterError \/ UserClose \/ TimerStep
      <4>1. closeQueued' \in BOOLEAN
        BY <1>0, <3>3, Zenon DEF ReaderError, WriterError, UserClose, TimerStep, Close
      <4>2. {readPc', writePc'} \subseteq {"new", "running", "exited"}
        BY <1>0, <3>3 DEF ReaderError, WriterError, UserClose, TimerStep
      <4> QED BY <4>1, <4>2
    <3> QED BY <1>7, <3>1, <3>2, <3>3 DEF ConnStep
  <2> QED BY <1>0, <1>7, <2>1 DEF ConnStep
<1>8. CASE UNCHANGED vars
  BY <1>0, <1>8 DEF vars
<1> QED
  BY <1>1, <1>2, <1>3, <1>4, <1>5, <1>6, <1>7, <1>8 DEF Next

\* Every step keeps the types.
LEMMA TypeStep ==
    ASSUME TypeOK, [Next]_vars
    PROVE  TypeOK'
<1>1. CloseTypeOK'
  BY Kinds, CloseTypes DEF TypeOK
<1>2. TimerTypeOK'
  <2>0. TimerTypeOK /\ UNCHANGED timeVars
    BY Kinds DEF TypeOK
  <2>1. CASE TimerOnly
    BY <2>0, <2>1, TimerTypes DEF TimerOnly
  <2>2. CASE Opens
    BY <2>0, <2>2, TimerTypes DEF Opens, NewConnection
  <2>3. CASE LoopEnds
    BY <2>0, <2>3, TimerTypes DEF LoopEnds, handleClose
  <2>4. ASSUME NEW a \in Closers, Calls(a) \/ Works(a) PROVE TimerTypeOK'
    BY <2>0, <2>4, TimerTypes DEF Calls, Works, CloseStep
  <2> QED BY <2>1, <2>2, <2>3, <2>4, Kinds
<1> QED BY <1>1, <1>2, LifeTypes DEF TypeOK, LifeTypeOK

-----------------------------------------------------------------------------
IndInv == TypeOK /\ CloseInv /\ TimerKept

\* A server that has not been started has no connection and no timer.
LEMMA InitInd == Init => IndInv
<1> SUFFICES ASSUME Init PROVE IndInv
  OBVIOUS
<1>1. CloseTypeOK
  BY Zenon DEF Init, CloseInit, CloseTypeOK
<1>2. TimerTypeOK
  <2>1. idleTime \in Nat /\ TicksPerSecond \in Nat \ {0}
    BY TimeAssumption DEF Init, TimerInit
  <2>2. 0 \in 0..idleTime /\ 0 \in 0..(TicksPerSecond - 1)
    BY <2>1
  <2> QED BY <2>2, Zenon DEF Init, TimerInit, TimerTypeOK
<1>3. TypeOK
  BY <1>1, <1>2, Zenon DEF Init, TypeOK
<1>4. CloseInv
  BY DEF Init, CloseInit, CloseInv
<1>5. TimerKept
  BY DEF Init, TimerKept
<1> QED BY <1>3, <1>4, <1>5 DEF IndInv

\* The inductive invariant holds in every state.
LEMMA Invariance == Spec => []IndInv
<1>1. IndInv /\ [Next]_vars => IndInv'
  BY TypeStep, CloseInvStep, TimerKeptStep DEF IndInv
<1> QED BY InitInd, <1>1, PTL DEF Spec

\* Every variable of the server, the connection, Close and the idle timer keeps
\* its type; the clock's fraction and the timer's rest stay in range.
THEOREM TypeCorrect == Spec => []TypeOK
<1>1. IndInv => TypeOK
  BY DEF IndInv
<1> QED BY <1>1, Invariance, PTL

\* OnClose is called once at most and only after connected has been cleared,
\* in both builds, however many goroutines, timers and Stops call Close.
THEOREM OnCloseIsUnique == Spec => []OnCloseOnce
<1>1. IndInv => OnCloseOnce
  BY DEF IndInv, CloseInv, OnCloseOnce
<1> QED BY <1>1, Invariance, PTL

\* A connected connection with an idle time never loses its timer.
THEOREM TimerIsKept == Spec => []TimerKept
<1>1. IndInv => TimerKept
  BY DEF IndInv
<1> QED BY <1>1, Invariance, PTL

\* The timer closes no connection that was active within the idle time less one
\* second, for any idle time and resolution of the clock.
THEOREM OnlyIdleTimeOut == Spec => ClosedWhenIdle
<1>1. IndInv /\ [Next]_vars => [TimerClose => age > idleTime - TicksPerSecond]_vars
  <2> SUFFICES ASSUME IndInv, TimerClose PROVE age > idleTime - TicksPerSecond
    OBVIOUS
  <2>1. age + activePhase >= idleTime
    BY DEF TimerClose, TimesOut, Intervals
  <2>2. /\ age \in Nat /\ idleTime \in Nat /\ TicksPerSecond \in Nat
        /\ activePhase \in 0..(TicksPerSecond - 1)
    BY TimeAssumption DEF IndInv, TypeOK, TimerTypeOK
  <2> QED BY <2>1, <2>2
<1> QED BY <1>1, Invariance, PTL DEF Spec, ClosedWhenIdle

-----------------------------------------------------------------------------
(* Timers come to an end *)

\* The timer's function is alone: no timer is armed while it runs, and none is
\* left when it has called Close.
OneTimer ==
    /\ pending => cbPc = "no"
    /\ closePc[Timer] # "no" => ~TimerAlive
    /\ ~accepted => ~TimerAlive

\* The timer will go off before the idle time is over, for the connection was
\* active after it was armed.
Early == remaining + Intervals < idleTime

\* What a timer still has before it: a timer that goes off early is armed once
\* more, for the rest of the idle time, and that one closes the connection.
TimerStage ==
    CASE cbPc = "arm"   -> (IF Early THEN 6 ELSE 3)
      [] cbPc = "fired" -> (IF Intervals < idleTime THEN 4 ELSE 1)
      [] OTHER          -> (IF ~pending THEN 0 ELSE IF Early THEN 5 ELSE 2)

TimerRank == <<TimerStage, remaining>>

Below(a, b) == a[1] < b[1] \/ (a[1] = b[1] /\ a[2] < b[2])

TimerMoves ==
    \/ TimerFires \/ TimerKeep(connected) \/ TimerArm \/ TimerClose
    \/ Tick /\ pending /\ remaining > 0

\* While the connection is not active, every step of its timer and every tick
\* that an armed timer waits for brings the timer nearer to its end, and no step
\* of anybody takes it back.
TimerComesNearer ==
    [][accepted /\ age' >= age /\ activePhase' = activePhase =>
         \/ Below(TimerRank', TimerRank)
         \/ ~TimerMoves /\ TimerRank' = TimerRank]_vars

\* How far an accepting goroutine is from its next test of the server's dying.
AcceptRank(a) ==
    CASE acceptPc[a] = "store" -> 3 [] acceptPc[a] \in {"launch", "accept"} -> 2
      [] acceptPc[a] = "top" -> 1 [] OTHER -> 0

\* Once Stop has closed the listener every accepting goroutine can take a step
\* until it has left, ...
AcceptorsNotStuck ==
    std /\ stopPc \in {"range", "found", "missed"} =>
        ~listening /\ srvDying /\ \A a \in Acceptors : acceptPc[a] # "new"

\* ... and each of its steps brings it nearer to that.
AcceptorsComeNearer ==
    [][srvDying /\ ~listening =>
          \A a \in Acceptors :
              IF AcceptStep(a) THEN AcceptRank(a)' < AcceptRank(a)
                               ELSE UNCHANGED AcceptRank(a)]_vars

\* Only the timer's function arms a timer again, and it does not when it has
\* called Close.
LEMMA OneTimerStep ==
    ASSUME TypeOK, CloseInv, OneTimer, [Next]_vars
    PROVE  OneTimer'
<1>0. closePc \in [Closers -> {"no", "dying", "flag", "onClose", "conn"}] /\ Timer \in Closers
  BY ActorsAssumption DEF TypeOK, CloseTypeOK
<1>1. CASE TimerOnly
  <2>1. UNCHANGED <<closePc, accepted>>
    BY <1>1, Zenon DEF TimerOnly
  <2>2. CASE UNCHANGED timerVars \/ Activity \/ Tick \/ TimerStore
    BY <2>1, <2>2 DEF OneTimer, TimerAlive, Activity, Tick, TimerStore
  <2>3. CASE TimerFires \/ TimerKeep(connected) \/ TimerArm
    BY <2>1, <2>3 DEF OneTimer, TimerAlive, TimerFires, TimerKeep, TimerArm
  <2> QED BY <1>1, <2>2, <2>3, Zenon DEF TimerOnly
<1>2. CASE Opens
  <2>1. accepted' /\ ~accepted /\ UNCHANGED <<cbPc, closePc>>
    BY <1>2, Zenon DEF Opens, NewConnection, ArmTimer
  <2>2. cbPc = "no" /\ closePc[Timer] = "no"
    BY <1>0, <2>1, Zenon DEF OneTimer, TimerAlive, CloseInv
  <2> QED BY <2>1, <2>2, Zenon DEF OneTimer
<1>3. CASE LoopEnds
  <2>1. UNCHANGED <<closePc, accepted, cbPc>> /\ (pending' => pending)
    BY <1>3, Zenon DEF LoopEnds, handleClose, StopTimer
  <2> QED BY <2>1, Zenon DEF OneTimer, TimerAlive
<1>4. ASSUME NEW a \in Closers, Calls(a) PROVE OneTimer'
  <2>1. CASE a # Timer
    <3>1. UNCHANGED <<pending, cbPc, accepted>> /\ closePc'[Timer] = closePc[Timer]
      BY <1>0, <1>4, <2>1, Zenon DEF Calls, Close, Enter
    <3> QED BY <3>1, Zenon DEF OneTimer, TimerAlive
  <2>2. CASE a = Timer
    <3>1. cbPc = "fired" /\ cbPc' = "no" /\ UNCHANGED <<pending, accepted>>
      BY <1>4, <2>2, Zenon DEF Calls, TimerClose, TimesOut
    <3>2. ~pending
      BY <3>1 DEF OneTimer
    <3> QED BY <3>1, <3>2, Zenon DEF OneTimer, TimerAlive
  <2> QED BY <2>1, <2>2, Zenon
<1>5. ASSUME NEW a \in Closers, Works(a) PROVE OneTimer'
  <2>1. /\ UNCHANGED <<accepted, cbPc>> /\ (pending' => pending)
        /\ closePc'[Timer] # "no" => closePc[Timer] # "no"
    <3>1. UNCHANGED <<accepted, cbPc>> /\ (pending' => pending)
      <4>1. UNCHANGED accepted /\ (UNCHANGED timerVars \/ StopTimer)
        BY <1>5, Zenon DEF Works, CloseStep
      <4>2. UNCHANGED timerVars => UNCHANGED <<pending, cbPc>>
        OBVIOUS
      <4>3. StopTimer => UNCHANGED cbPc /\ (pending' => pending)
        BY Zenon DEF StopTimer
      <4> QED BY <4>1, <4>2, <4>3
    <3>2. a # Timer => closePc'[Timer] = closePc[Timer]
      BY <1>0, <1>5, Zenon DEF Works, CloseStep, CloseDying, CloseFlag, CloseOnClose, CloseConn
    <3>3. closePc[a] # "no"
      BY <1>5 DEF Works, CloseStep, CloseDying, CloseFlag, CloseOnClose, CloseConn
    <3> QED BY <3>1, <3>2, <3>3, Zenon
  <2> QED BY <2>1, Zenon DEF OneTimer, TimerAlive
<1> QED BY <1>1, <1>2, <1>3, <1>4, <1>5, Kinds, Zenon

\* The numbers that the rank is made of.
TimerNumbers ==
    /\ age \in Nat /\ activePhase \in Nat /\ remaining \in Nat /\ idleTime \in Nat
    /\ age <= idleTime

\* Every step of the timer's lowers the rank, whatever the connection's state.
LEMMA TimerLowers ==
    ASSUME TimerNumbers, TimerNumbers', OneTimer, UNCHANGED <<idleTime, activePhase>>, age' >= age,
           \/ TimerFires \/ TimerKeep(connected) \/ TimerArm \/ TimerClose
           \/ Tick /\ pending /\ remaining > 0
    PROVE  Below(TimerRank', TimerRank)
<1> USE DEF TimerNumbers
<1>1. CASE TimerFires
  <2>1. /\ cbPc = "no" /\ cbPc' = "fired" /\ pending /\ remaining = 0
        /\ UNCHANGED <<age, activePhase>>
    BY <1>1 DEF TimerFires
  <2>2. TimerStage = IF Intervals < idleTime THEN 5 ELSE 2
    BY <2>1 DEF TimerStage, Early, Intervals
  <2>3. TimerStage' = IF Intervals < idleTime THEN 4 ELSE 1
    BY <2>1 DEF TimerStage, Intervals
  <2>4. TimerStage' < TimerStage
    BY <2>2, <2>3
  <2> QED BY <2>4 DEF TimerRank, Below
<1>2. CASE TimerKeep(connected)
  <2>1. /\ cbPc = "fired" /\ cbPc' \in {"arm", "no"} /\ Intervals < idleTime
        /\ remaining' = idleTime - Intervals /\ UNCHANGED <<age, activePhase, pending>>
    BY <1>2 DEF TimerKeep
  <2>2. ~pending /\ TimerStage = 4
    BY <2>1 DEF TimerStage, OneTimer
  <2>3. ~Early'
    BY <2>1 DEF Early, Intervals
  <2>4. TimerStage' \in {0, 3}
    BY <2>1, <2>2, <2>3 DEF TimerStage
  <2>5. TimerStage' < TimerStage
    BY <2>2, <2>4
  <2> QED BY <2>5 DEF TimerRank, Below
<1>3. CASE TimerArm
  <2>1. cbPc = "arm" /\ cbPc' = "no" /\ pending' /\ UNCHANGED <<age, activePhase, remaining>>
    BY <1>3 DEF TimerArm
  <2>2. Early' <=> Early
    BY <2>1 DEF Early, Intervals
  <2>3. TimerStage = (IF Early THEN 6 ELSE 3) /\ TimerStage' = (IF Early THEN 5 ELSE 2)
    BY <2>1, <2>2 DEF TimerStage
  <2>4. TimerStage' < TimerStage
    BY <2>3
  <2> QED BY <2>4 DEF TimerRank, Below
<1>4. CASE TimerClose
  <2>1. cbPc = "fired" /\ cbPc' = "no" /\ ~(Intervals < idleTime) /\ UNCHANGED pending
    BY <1>4 DEF TimerClose, TimesOut, Intervals
  <2>2. ~pending /\ TimerStage = 1
    BY <2>1 DEF TimerStage, OneTimer
  <2>3. TimerStage' = 0
    BY <2>1, <2>2 DEF TimerStage
  <2>4. TimerStage' < TimerStage
    BY <2>2, <2>3
  <2> QED BY <2>4 DEF TimerRank, Below
<1>5. CASE Tick /\ pending /\ remaining > 0
  <2>1. /\ pending /\ pending' /\ cbPc = "no" /\ cbPc' = "no" /\ remaining' = remaining - 1
        /\ age' = IF age < idleTime THEN age + 1 ELSE age
    BY <1>5 DEF Tick, OneTimer
  <2>2. Early' => Early
    BY <2>1 DEF Early, Intervals
  <2>3. TimerStage = (IF Early THEN 5 ELSE 2) /\ TimerStage' = (IF Early' THEN 5 ELSE 2)
    BY <2>1 DEF TimerStage
  <2>4. TimerStage' <= TimerStage /\ remaining' < remaining
    BY <2>1, <2>2, <2>3
  <2> QED BY <2>3, <2>4 DEF TimerRank, Below
<1> QED BY <1>1, <1>2, <1>3, <1>4, <1>5, Zenon

\* Nobody takes the timer back while the connection is not active.
LEMMA TimerStays ==
    ASSUME TypeOK, TypeOK', CloseInv, OneTimer, [Next]_vars, accepted,
           age' >= age, activePhase' = activePhase, ~TimerMoves
    PROVE  TimerRank' = TimerRank \/ Below(TimerRank', TimerRank)
<1>0. /\ TimerNumbers /\ TimerNumbers' /\ UNCHANGED idleTime
      /\ {pending, current} \subseteq BOOLEAN /\ cbPc \in {"no", "fired", "arm"}
  BY Kinds, TimeAssumption DEF TypeOK, TimerTypeOK, TimerNumbers
<1>1. ASSUME UNCHANGED <<age, pending, remaining, cbPc>> PROVE TimerRank' = TimerRank
  BY <1>0, <1>1, Zenon DEF TimerRank, TimerStage, Early, Intervals
<1>2. ASSUME UNCHANGED <<age, remaining, cbPc>>, pending, ~pending'
      PROVE  Below(TimerRank', TimerRank)
  <2>1. cbPc = "no"
    BY <1>2 DEF OneTimer
  <2>2. TimerStage' = 0 /\ TimerStage \in {2, 5}
    BY <1>2, <2>1 DEF TimerStage
  <2>3. TimerStage' < TimerStage
    BY <2>2
  <2> QED BY <2>3 DEF TimerRank, Below
<1>3. ASSUME UNCHANGED <<age, remaining, cbPc>>, pending' = (pending /\ ~current)
      PROVE  TimerRank' = TimerRank \/ Below(TimerRank', TimerRank)
  BY <1>0, <1>1, <1>2, <1>3, Zenon
<1>4. ASSUME SetActiveTime PROVE UNCHANGED age
  BY <1>0, <1>4 DEF SetActiveTime, TimerNumbers
<1>5. CASE TimerOnly
  <2>1. CASE UNCHANGED timerVars \/ TimerStore
    BY <1>1, <2>1 DEF TimerStore
  <2>2. CASE Activity
    BY <1>1, <1>4, <2>2, Zenon DEF Activity
  <2>3. CASE Tick
    <3>1. /\ UNCHANGED <<pending, cbPc>> /\ age' = (IF age < idleTime THEN age + 1 ELSE age)
          /\ ~(pending /\ remaining > 0)
      BY <2>3 DEF Tick, TimerMoves
    <3>2. UNCHANGED remaining
      BY <2>3, <3>1 DEF Tick
    <3>3. (Early' => Early) /\ (Intervals' < idleTime => Intervals < idleTime)
      BY <1>0, <3>1, <3>2 DEF Early, Intervals, TimerNumbers
    <3>4. TimerStage' <= TimerStage /\ TimerStage \in Nat /\ TimerStage' \in Nat
      BY <1>0, <3>1, <3>3 DEF TimerStage
    <3>5. TimerStage' = TimerStage \/ TimerStage' < TimerStage
      BY <3>4
    <3> QED BY <3>2, <3>5 DEF TimerRank, Below
  <2> QED BY <1>5, <2>1, <2>2, <2>3, Zenon DEF TimerOnly, TimerMoves
<1>6. ~Opens
  BY Zenon DEF Opens, NewConnection
<1>7. CASE LoopEnds
  <2>1. UNCHANGED age
    BY <1>4, <1>7 DEF LoopEnds
  <2>2. CASE connected
    BY <1>3, <1>7, <2>1, <2>2, Zenon DEF LoopEnds, handleClose, StopTimer
  <2>3. CASE ~connected
    BY <1>1, <1>7, <2>1, <2>3, Zenon DEF LoopEnds, handleClose
  <2> QED BY <2>2, <2>3, Zenon
<1>8. ASSUME NEW a \in Closers, Calls(a) PROVE TimerRank' = TimerRank
  <2>1. UNCHANGED timerVars
    BY <1>8, Zenon DEF Calls, TimerMoves
  <2> QED BY <1>1, <2>1
<1>9. ASSUME NEW a \in Closers, Works(a) PROVE TimerRank' = TimerRank \/ Below(TimerRank', TimerRank)
  <2>1. UNCHANGED timerVars \/ (StopTimer /\ UNCHANGED activeVars)
    BY <1>9, Zenon DEF Works, CloseStep
  <2>2. CASE UNCHANGED timerVars
    BY <1>1, <2>2
  <2>3. CASE StopTimer /\ UNCHANGED activeVars
    <3>1. UNCHANGED age
      BY <2>3
    <3> QED BY <1>3, <2>3, <3>1, Zenon DEF StopTimer
  <2> QED BY <2>1, <2>2, <2>3, Zenon
<1> QED BY <1>5, <1>6, <1>7, <1>8, <1>9, Kinds, Zenon

\* An idle connection's timer, and that of a closed one, comes to an end after
\* finitely many ticks and steps of its own unless the connection is active
\* again: one timer at most is armed, its function is never held up by a Close
\* of its own, every step of it and every tick it waits for lowers a rank of two
\* natural numbers, and no other step of either build raises it, with any idle
\* time and resolution of the clock.
THEOREM TimersAlwaysComeNearer ==
    Spec => [](OneTimer /\ TimerRank \in Nat \X Nat) /\ TimerComesNearer
<1>1. Init => OneTimer
  <2> SUFFICES ASSUME Init PROVE OneTimer
    BY Zenon
  <2>1. ~pending /\ cbPc = "no"
    BY DEF Init, TimerInit
  <2> QED BY <2>1, Zenon DEF OneTimer, TimerAlive
<1>2. IndInv /\ OneTimer /\ [Next]_vars => OneTimer'
  BY OneTimerStep, Zenon DEF IndInv
<1>3. IndInv => TimerRank \in Nat \X Nat
  <2> SUFFICES ASSUME IndInv PROVE TimerRank \in Nat \X Nat
    BY Zenon
  <2>1. remaining \in Nat
    BY TimeAssumption DEF IndInv, TypeOK, TimerTypeOK
  <2>2. TimerStage \in Nat
    BY DEF TimerStage
  <2> QED BY <2>1, <2>2 DEF TimerRank
<1>4. IndInv /\ IndInv' /\ OneTimer /\ [Next]_vars =>
        [accepted /\ age' >= age /\ activePhase' = activePhase =>
            \/ Below(TimerRank', TimerRank)
            \/ ~TimerMoves /\ TimerRank' = TimerRank]_vars
  <2> SUFFICES ASSUME IndInv, IndInv', OneTimer, [Next]_vars, accepted, age' >= age,
                      activePhase' = activePhase
               PROVE  \/ Below(TimerRank', TimerRank)
                      \/ ~TimerMoves /\ TimerRank' = TimerRank
    BY Zenon
  <2>1. TypeOK /\ TypeOK' /\ CloseInv
    BY Zenon DEF IndInv
  <2>2. TimerNumbers /\ TimerNumbers' /\ UNCHANGED idleTime
    BY <2>1, Kinds, TimeAssumption DEF TypeOK, TimerTypeOK, TimerNumbers
  <2>3. TimerMoves => Below(TimerRank', TimerRank)
    BY <2>2, TimerLowers, Zenon DEF TimerMoves
  <2>4. ~TimerMoves => TimerRank' = TimerRank \/ Below(TimerRank', TimerRank)
    BY <2>1, TimerStays, Zenon
  <2> QED BY <2>3, <2>4, Zenon
<1> QED BY <1>1, <1>2, <1>3, <1>4, Invariance, PTL DEF Spec, TimerComesNearer

\* How far Start and Stop have come says where the accepting goroutines are.
StopOrder ==
    /\ startPc = "new" => ~running /\ ~srvDying /\ stopPc = "idle"
    /\ startPc # "new" /\ std => \A a \in Acceptors : acceptPc[a] # "new"
    /\ stopPc # "idle" => ~running /\ (std => srvDying)
    /\ stopPc \in {"range", "found", "missed"} => ~listening

\* Stop comes after Start, and its steps in their order.
LEMMA StopOrderStep ==
    ASSUME TypeOK, StopOrder, [Next]_vars
    PROVE  StopOrder'
<1>0. UNCHANGED std /\ acceptPc \in [Acceptors -> {"new", "top", "accept", "store", "launch", "exited"}]
  BY Kinds, Zenon DEF TypeOK
<1>1. CASE Start /\ UNCHANGED closeQueued
  <2>1. /\ startPc = "new" /\ startPc' = "waiting" /\ UNCHANGED <<stopPc, srvDying, listening>>
        /\ acceptPc' = [a \in Acceptors |-> IF std THEN "top" ELSE "new"]
    BY <1>1, Zenon DEF Start
  <2> QED BY <1>0, <2>1 DEF StopOrder
<1>2. CASE (StartReturns \/ AcceptInLoop) /\ UNCHANGED closeQueued
  <2>1. /\ UNCHANGED <<running, stopPc, srvDying, listening, acceptPc>>
        /\ startPc # "new" /\ startPc' # "new"
    BY <1>2 DEF StartReturns, AcceptInLoop
  <2> QED BY <1>0, <2>1, Zenon DEF StopOrder
<1>3. ASSUME NEW a \in Acceptors, AcceptStep(a) PROVE StopOrder'
  <2>1. UNCHANGED <<running, startPc, stopPc, srvDying, listening>>
    BY <1>3 DEF AcceptStep
  <2>2. \A b \in Acceptors : acceptPc[b] # "new" => acceptPc'[b] # "new"
    BY <1>0, <1>3 DEF AcceptStep, AcceptTop, AcceptError, Accept, Store, Launch
  <2> QED BY <1>0, <2>1, <2>2, Zenon DEF StopOrder
<1>4. CASE Stop /\ StopFrame
  <2>1. /\ running /\ ~running' /\ srvDying' = std /\ stopPc' = "listener"
        /\ UNCHANGED <<listening, startPc, acceptPc>>
    BY <1>4 DEF Stop
  <2> QED BY <1>0, <2>1 DEF StopOrder
<1>5. CASE StopStep
  <2>1. UNCHANGED <<running, startPc, srvDying, acceptPc>>
    BY <1>5 DEF StopStep, StopNext, StopListener, StopRange
  <2>2. \/ stopPc = "listener" /\ ~listening'
        \/ stopPc = "range" /\ UNCHANGED listening
    BY <1>5 DEF StopStep, StopNext, StopListener, StopRange
  <2> QED BY <1>0, <2>1, <2>2 DEF StopOrder
<1>6. CASE ConnStep \/ UNCHANGED vars
  <2>1. UNCHANGED <<running, startPc, stopPc, srvDying, listening, acceptPc>>
    BY <1>6 DEF ConnStep, vars
  <2> QED BY <1>0, <2>1, Zenon DEF StopOrder
<1> QED BY <1>1, <1>2, <1>3, <1>4, <1>5, <1>6, Zenon DEF Next

\* With the listener closed and dying too, an accepting goroutine only leaves.
LEMMA AcceptLowers ==
    ASSUME TypeOK, StopOrder, [Next]_vars, srvDying, ~listening, NEW a \in Acceptors
    PROVE  IF AcceptStep(a) THEN AcceptRank(a)' < AcceptRank(a) ELSE UNCHANGED AcceptRank(a)
<1>0. acceptPc \in [Acceptors -> {"new", "top", "accept", "store", "launch", "exited"}]
  BY Zenon DEF TypeOK
<1>1. CASE AcceptStep(a)
  <2>1. \/ acceptPc[a] = "top" /\ acceptPc'[a] = "exited"
        \/ acceptPc[a] = "accept" /\ acceptPc'[a] = "top"
        \/ acceptPc[a] = "store" /\ acceptPc'[a] = "launch"
        \/ acceptPc[a] = "launch" /\ acceptPc'[a] = "top"
    BY <1>0, <1>1, Zenon DEF AcceptStep, AcceptTop, AcceptError, Accept, Store, Launch, NewConnection
  <2>2. AcceptRank(a)' < AcceptRank(a)
    BY <2>1 DEF AcceptRank
  <2> QED BY <1>1, <2>2, Zenon
<1>2. CASE ~AcceptStep(a)
  <2>1. acceptPc'[a] = acceptPc[a]
    <3>1. ~Start
      BY Zenon DEF Start, StopOrder
    <3>2. ASSUME NEW b \in Acceptors, AcceptStep(b) PROVE acceptPc'[a] = acceptPc[a]
      <4>1. b # a
        BY <1>2, <3>2, Zenon
      <4> QED BY <1>0, <3>2, <4>1, Zenon
                 DEF AcceptStep, AcceptTop, AcceptError, Accept, Store, Launch
    <3>3. CASE \/ StartReturns \/ AcceptInLoop \/ (Stop /\ StopFrame)
               \/ StopStep \/ ConnStep \/ UNCHANGED vars
      BY <3>3, Zenon DEF StartReturns, AcceptInLoop, StopStep, ConnStep, vars
    <3> QED BY <3>1, <3>2, <3>3, Zenon DEF Next
  <2>2. UNCHANGED AcceptRank(a)
    BY <2>1, Zenon DEF AcceptRank
  <2> QED BY <1>2, <2>2, Zenon
<1> QED BY <1>1, <1>2, Zenon

\* When Stop has closed the listener of server_std.go, no accepting goroutine is
\* held up in Accept or goes round again: each has at most three steps left,
\* with any number of them and wherever Stop finds them.
THEOREM AcceptorsLeave == Spec => []AcceptorsNotStuck /\ AcceptorsComeNearer
<1>1. Init => StopOrder
  BY DEF Init, StopOrder
<1>2. IndInv /\ StopOrder /\ [Next]_vars => StopOrder'
  BY StopOrderStep, Zenon DEF IndInv
<1>3. StopOrder => AcceptorsNotStuck
  BY DEF StopOrder, AcceptorsNotStuck
<1>4. IndInv /\ StopOrder /\ [Next]_vars =>
        [srvDying /\ ~listening =>
            \A a \in Acceptors :
                IF AcceptStep(a) THEN AcceptRank(a)' < AcceptRank(a)
                                 ELSE UNCHANGED AcceptRank(a)]_vars
  <2> SUFFICES ASSUME IndInv, StopOrder, [Next]_vars, srvDying, ~listening, NEW a \in Acceptors
               PROVE  IF AcceptStep(a) THEN AcceptRank(a)' < AcceptRank(a)
                                       ELSE UNCHANGED AcceptRank(a)
    BY Zenon
  <2> QED BY AcceptLowers, Zenon DEF IndInv
<1> QED BY <1>1, <1>2, <1>3, <1>4, Invariance, PTL DEF Spec, AcceptorsComeNearer
=============================================================================
