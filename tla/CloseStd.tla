------------------------------ MODULE CloseStd ------------------------------
(***************************************************************************)
(* Close of a connection of server_std.go, the server built on goroutines  *)
(* that gev uses on Windows.  It is called by the connection's own loops,  *)
(* by its idle timer, by Server.Stop and by any goroutine of the user, and *)
(* it is not atomic: it tests connected, closes the channel dying, clears  *)
(* connected, calls OnClose, stops the timer and closes the socket.  To    *)
(* close a channel twice panics, and that ends the process.                *)
(***************************************************************************)
EXTENDS Integers

CONSTANT Closers      \* goroutines that may call Close

VARIABLES
    connected,        \* Connection.connected
    dying,            \* whether the channel dying is closed
    sockClosed,       \* conn.Close has been called
    closePc,          \* where each goroutine is inside Close
    onCloses,         \* history: calls of OnClose
    panicked          \* a goroutine has closed dying again

closeVars == <<connected, dying, sockClosed, closePc, onCloses, panicked>>

CloseInit ==
    /\ dying = FALSE /\ sockClosed = FALSE /\ panicked = FALSE
    /\ closePc = [a \in Closers |-> "no"] /\ onCloses = 0

Enter(a) == closePc' = [closePc EXCEPT ![a] = IF connected THEN "dying" ELSE "no"]

CloseDying(a) ==
    /\ closePc[a] = "dying"
    /\ IF dying
       THEN panicked' = TRUE /\ UNCHANGED <<dying, closePc>>
       ELSE /\ dying' = TRUE /\ closePc' = [closePc EXCEPT ![a] = "flag"]
            /\ UNCHANGED panicked
    /\ UNCHANGED <<connected, sockClosed, onCloses>>

CloseFlag(a) ==
    /\ closePc[a] = "flag"
    /\ connected' = FALSE
    /\ closePc' = [closePc EXCEPT ![a] = "onClose"]
    /\ UNCHANGED <<dying, sockClosed, onCloses, panicked>>

CloseOnClose(a) ==
    /\ closePc[a] = "onClose"
    /\ onCloses' = onCloses + 1
    /\ closePc' = [closePc EXCEPT ![a] = "conn"]
    /\ UNCHANGED <<connected, dying, sockClosed, panicked>>

\* Mutant: the socket stays open.
CloseConnDropped(a) ==
    /\ closePc[a] = "conn"
    /\ closePc' = [closePc EXCEPT ![a] = "no"]
    /\ UNCHANGED <<connected, dying, sockClosed, onCloses, panicked>>

CloseConn(a) ==
    /\ closePc[a] = "conn"
    /\ sockClosed' = TRUE
    /\ closePc' = [closePc EXCEPT ![a] = "no"]
    /\ UNCHANGED <<connected, dying, onCloses, panicked>>

CloseSteps(a) == CloseDying(a) \/ CloseFlag(a) \/ CloseOnClose(a) \/ CloseConn(a)

-----------------------------------------------------------------------------
CloseTypeOK ==
    /\ {connected, dying, sockClosed, panicked} \subseteq BOOLEAN
    /\ closePc \in [Closers -> {"no", "dying", "flag", "onClose", "conn"}]
    /\ onCloses \in Nat

\* OnClose is called once at most, however many goroutines close the
\* connection at once: whoever comes second finds connected cleared, or
\* panics on the closed channel before it gets there.
OnCloseOnce == onCloses <= 1 /\ (onCloses = 1 => ~connected)
=============================================================================
