----------------------------- MODULE IdleTimer -----------------------------
(***************************************************************************)
(* The idle timer of a connection, closeTimeoutConn of connection.go and   *)
(* of server_std.go.  A timer checks how long ago activeTime was and       *)
(* closes the connection or arms a timer for the rest of the idle time.    *)
(*                                                                         *)
(* Time is kept relative to now: how long ago the connection was active,   *)
(* and how long the timer has still to run.  activeTime is a Unix time, so *)
(* that it loses the part of a second; that part is activePhase.           *)
(***************************************************************************)
EXTENDS Integers

CONSTANTS
    TicksPerSecond,
    IdleTimes         \* values of Options.IdleTime, in ticks; 0 is none

ASSUME TimeAssumption == TicksPerSecond \in Nat \ {0} /\ IdleTimes \subseteq Nat

VARIABLES
    std,              \* the build is server_std.go's, not connection.go's
    idleTime,         \* Connection.idleTime
    phase,            \* ticks since the last whole second
    age,              \* ticks since activeTime was set, up to idleTime
    activePhase,      \* phase when activeTime was set
    pending,          \* a timer is armed
    remaining,        \* ticks until it fires, or for which it will be armed
    current,          \* Connection.timer is the armed one
    cbPc              \* where the timer's function is

timeVars  == <<std, idleTime>>
activeVars == <<age, activePhase>>
timerVars == <<phase, activeVars, pending, remaining, current, cbPc>>

TimerInit ==
    /\ std \in BOOLEAN /\ idleTime \in IdleTimes
    /\ phase \in 0..(TicksPerSecond - 1) /\ age = 0 /\ activePhase = 0
    /\ pending = FALSE /\ remaining = 0 /\ current = FALSE
    /\ cbPc = "no"

\* NewConnection's part.
ArmTimer ==
    /\ IF idleTime > 0
       THEN /\ age' = 0 /\ activePhase' = phase
            /\ pending' = TRUE /\ remaining' = idleTime /\ current' = TRUE
       ELSE UNCHANGED <<age, activePhase, pending, remaining, current>>
    /\ UNCHANGED <<phase, cbPc>>

\* activeTime.Swap(time.Now().Unix())
SetActiveTime ==
    IF idleTime > 0 THEN age' = 0 /\ activePhase' = phase ELSE UNCHANGED activeVars

\* timer.Stop() of the stored timer, when the connection is closed.
StopTimer ==
    /\ pending' = (pending /\ ~current) /\ current' = FALSE
    /\ UNCHANGED <<phase, remaining, cbPc>>

\* Some timer or its function is there to close the connection.
TimerAlive == pending \/ cbPc # "no"

\* Time is of no consequence while there is no timer.
Tick ==
    /\ TimerAlive
    /\ phase' = (phase + 1) % TicksPerSecond
    /\ age' = IF age < idleTime THEN age + 1 ELSE age
    /\ remaining' = IF pending /\ remaining > 0 THEN remaining - 1 ELSE remaining
    /\ UNCHANGED <<activePhase, pending, current, cbPc>>

-----------------------------------------------------------------------------
(* closeTimeoutConn, in a goroutine of the timing wheel's *)

\* A timer may fire late, but does not before its time.
TimerFires ==
    /\ pending /\ remaining = 0 /\ cbPc = "no"
    /\ pending' = FALSE /\ current' = FALSE /\ cbPc' = "fired"
    /\ UNCHANGED <<phase, age, activePhase, remaining>>

\* Mutant: now is compared with itself.
IntervalsZero == 0

\* Mutant: the time since the last activity is rounded up.
IntervalsRoundedUp == age + TicksPerSecond

\* now.Sub(time.Unix(activeTime, 0))
Intervals == age + activePhase

TimesOut == cbPc = "fired" /\ Intervals >= idleTime

\* Close is the caller's part.
TimerClose ==
    /\ TimesOut
    /\ cbPc' = "no"
    /\ UNCHANGED <<phase, age, activePhase, pending, remaining, current>>

\* Mutant: the timer is not armed again.
TimerKeepDropped(connected) ==
    /\ cbPc = "fired" /\ Intervals < idleTime
    /\ remaining' = idleTime - Intervals /\ cbPc' = "no"
    /\ UNCHANGED <<phase, age, activePhase, pending, current>>

\* connection.go arms a timer only for a connection that is connected.
TimerKeep(connected) ==
    /\ cbPc = "fired" /\ Intervals < idleTime
    /\ remaining' = idleTime - Intervals
    /\ cbPc' = IF std \/ connected THEN "arm" ELSE "no"
    /\ UNCHANGED <<phase, age, activePhase, pending, current>>

\* AfterFunc, and the Store of the timer it returns.  The Store may come after
\* the timer has fired, and then over its successor's: that one stays unknown.
TimerArm ==
    /\ cbPc = "arm"
    /\ pending' = TRUE /\ cbPc' = "no"
    /\ UNCHANGED <<phase, age, activePhase, remaining, current>>

TimerStore ==
    /\ pending /\ ~current
    /\ current' = TRUE
    /\ UNCHANGED <<phase, age, activePhase, pending, remaining, cbPc>>

TimerGoesOn(connected) == TimerKeep(connected) \/ TimerArm

-----------------------------------------------------------------------------
TimerTypeOK ==
    /\ {std, pending, current} \subseteq BOOLEAN
    /\ idleTime \in IdleTimes
    /\ phase \in 0..(TicksPerSecond - 1) /\ activePhase \in 0..(TicksPerSecond - 1)
    /\ age \in 0..idleTime /\ remaining \in 0..idleTime
    /\ cbPc \in {"no", "fired", "arm"}
=============================================================================
