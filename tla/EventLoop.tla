----------------------------- MODULE EventLoop -----------------------------
(***************************************************************************)
(* The task queue and wake-up protocol of one event loop: QueueInLoop,     *)
(* handlerEvent, doPendingFunc and Stop of eventloop/eventloop.go over     *)
(* Wake, Poll and Close of poller/epoll.go or poller/kqueue.go.            *)
(*                                                                         *)
(* Any goroutine may call QueueInLoop; the loop's own goroutine does too,  *)
(* from a socket callback or from a task it is running.  A call is three   *)
(* steps that others interleave with: append under the spin lock, compare- *)
(* and-swap of needWake, write to the eventfd.  The two critical sections  *)
(* of the spin lock (append, swap) touch nothing else and are atomic.      *)
(*                                                                         *)
(* A poll that finds no event changes only its own timeout (0 to -1), so   *)
(* it is a stuttering step here, and so is an EINTR.                       *)
(***************************************************************************)
EXTENDS Naturals, FiniteSets, Sequences, Functions

CONSTANTS
    Producers,        \* goroutines that call QueueInLoop from outside
    Stoppers,         \* goroutines that call EventLoop.Stop once
    Loop,             \* the goroutine that runs Poll
    Tasks,            \* closures; each is passed to QueueInLoop at most once
    Fds,              \* sockets registered with the poller
    EventFd,          \* the poller's eventfd, or kqueue's user event
    WaitEventsBegin   \* initial length of Poll's event slice

Callers == Producers \cup Stoppers \cup {Loop}

ASSUME CallersAssumption ==
    /\ Loop \notin Producers \cup Stoppers
    /\ Producers \cap Stoppers = {}

ASSUME FdsAssumption == IsFiniteSet(Fds) /\ EventFd \notin Fds

ASSUME EventsAssumption == WaitEventsBegin \in Nat \ {0}

VARIABLES
    kqueue,           \* the poller is kqueue.go's, not epoll.go's
    taskQueueW,       \* closures appended and not yet swapped out
    taskQueueR,       \* closures swapped out by doPendingFunc
    started,          \* how many closures of taskQueueR have been started
    needWake,         \* the next QueueInLoop has to write the eventfd
    counter,          \* value of the eventfd, or 1 if the user event is set
    running,          \* Poller.running
    loopPc,           \* where the loop's goroutine is
    events,           \* reported by EpollWait and not yet handled
    full,             \* EpollWait filled the event slice
    lenEvents,        \* length of the event slice
    wake,             \* Poll's local flag: the eventfd was read
    ready,            \* sockets the kernel would report
    callPc,           \* where each caller is inside QueueInLoop
    stopPc,           \* where each stopper is inside Stop and Close
    executed          \* history: closures started, in order

queueVars == <<taskQueueW, taskQueueR, started, executed>>
pollVars  == <<kqueue, events, full, lenEvents, wake, ready>>
vars == <<queueVars, needWake, counter, running, loopPc, pollVars, callPc, stopPc>>

LoopPcs == {"start", "wait", "events", "callback", "setNeedWake", "swap",
            "run", "checkRunning", "exited"}
CallPcs == {"idle", "cas", "wake"}
StopPcs == {"idle", "check", "clearRunning", "wake", "waitDone", "closed",
            "errClosed", "wakeFailed"}

Init ==
    /\ kqueue \in BOOLEAN
    /\ taskQueueW = <<>> /\ taskQueueR = <<>> /\ started = 0
    /\ executed = <<>>
    /\ needWake = TRUE /\ counter = 0 /\ running = FALSE
    /\ loopPc = "start"
    /\ events = {} /\ full = FALSE /\ lenEvents = WaitEventsBegin
    /\ wake = FALSE /\ ready = {}
    /\ callPc = [c \in Callers |-> "idle"]
    /\ stopPc = [s \in Stoppers |-> "idle"]

\* Close has closed the epoll and event descriptors once waitDone let it go.
FdsOpen == \A s \in Stoppers : stopPc[s] # "closed"

-----------------------------------------------------------------------------
(* Poller.Wake; on a closed descriptor the write fails and nothing happens. *)

EventFdWrite == counter + 1

\* Triggering a user event that is set already leaves it set.
UserEventTrigger == 1

Wake ==
    counter' = IF ~FdsOpen THEN counter
               ELSE IF kqueue THEN UserEventTrigger ELSE EventFdWrite

(* QueueInLoop *)

QueueAppend(c, t) ==
    /\ callPc[c] = "idle"
    /\ t \notin Range(taskQueueW) \cup Range(taskQueueR) \cup Range(executed)
    /\ taskQueueW' = Append(taskQueueW, t)
    /\ callPc' = [callPc EXCEPT ![c] = "cas"]
    /\ UNCHANGED <<taskQueueR, started, executed, needWake, counter, running,
                   loopPc, pollVars>>

\* Mutant: every QueueInLoop writes the eventfd.
QueueCASAlwaysWakes(c) ==
    /\ callPc[c] = "cas"
    /\ needWake' = FALSE
    /\ callPc' = [callPc EXCEPT ![c] = "wake"]
    /\ UNCHANGED <<queueVars, counter, running, loopPc, pollVars, stopPc>>

QueueCAS(c) ==
    /\ callPc[c] = "cas"
    /\ needWake' = FALSE
    /\ callPc' = [callPc EXCEPT ![c] = IF needWake THEN "wake" ELSE "idle"]
    /\ UNCHANGED <<queueVars, counter, running, loopPc, pollVars, stopPc>>

QueueWake(c) ==
    /\ callPc[c] = "wake"
    /\ Wake
    /\ callPc' = [callPc EXCEPT ![c] = "idle"]
    /\ UNCHANGED <<queueVars, needWake, running, loopPc, pollVars, stopPc>>

ProducerQueue(p) == \E t \in Tasks : QueueAppend(p, t) /\ UNCHANGED stopPc

\* Send and Close called by a socket's callback or by a running closure.
LoopQueue ==
    /\ loopPc = "callback" \/ (loopPc = "run" /\ started > 0)
    /\ \E t \in Tasks : QueueAppend(Loop, t) /\ UNCHANGED stopPc

-----------------------------------------------------------------------------
(* Poll, handlerEvent and doPendingFunc, run by the loop's goroutine *)

PollStart ==
    /\ loopPc = "start"
    /\ running' = TRUE
    /\ loopPc' = "wait"
    /\ UNCHANGED <<queueVars, needWake, counter, pollVars, callPc, stopPc>>

Reported == ready \cup (IF counter > 0 THEN {EventFd} ELSE {})

\* The user event is registered with EV_CLEAR: Kevent resets what it reports.
KeventClears(batch) == IF kqueue /\ EventFd \in batch THEN 0 ELSE counter

EpollWait ==
    /\ loopPc = "wait"
    /\ \E batch \in (SUBSET Reported) \ {{}} :
          /\ \/ batch = Reported /\ Cardinality(batch) <= lenEvents
             \/ Cardinality(batch) = lenEvents
          /\ events' = batch
          /\ full' = (Cardinality(batch) = lenEvents)
          /\ counter' = KeventClears(batch)
    /\ loopPc' = "events"
    /\ UNCHANGED <<kqueue, queueVars, needWake, running, lenEvents, wake,
                   ready, callPc, stopPc>>

\* The socket's HandleEvent may or may not exhaust what made it ready.
HandleSocket(fd) ==
    /\ loopPc = "events" /\ fd \in events
    /\ events' = events \ {fd}
    /\ ready' \in {ready, ready \ {fd}}
    /\ loopPc' = "callback"
    /\ UNCHANGED <<kqueue, queueVars, needWake, counter, running, full, lenEvents,
                   wake, callPc, stopPc>>

CallbackReturn ==
    /\ loopPc = "callback" /\ callPc[Loop] = "idle"
    /\ loopPc' = "events"
    /\ UNCHANGED <<queueVars, needWake, counter, running, pollVars, callPc, stopPc>>

WakeHandlerRead ==
    /\ loopPc = "events" /\ EventFd \in events
    /\ events' = events \ {EventFd}
    /\ counter' = IF kqueue THEN counter ELSE 0
    /\ wake' = TRUE
    /\ UNCHANGED <<kqueue, queueVars, needWake, running, loopPc, full, lenEvents,
                   ready, callPc, stopPc>>

GrowEvents == lenEvents' = IF full THEN 2 * lenEvents ELSE lenEvents

EndOfEvents ==
    /\ loopPc = "events" /\ events = {}
    /\ \/ wake /\ loopPc' = "setNeedWake" /\ UNCHANGED lenEvents
       \/ ~wake /\ loopPc' = "wait" /\ GrowEvents
    /\ UNCHANGED <<kqueue, queueVars, needWake, counter, running, events, full, wake,
                   ready, callPc, stopPc>>

\* Mutant: handlerEvent does not arm needWake again.
SetNeedWakeDropped ==
    /\ loopPc = "setNeedWake"
    /\ loopPc' = "swap"
    /\ UNCHANGED <<queueVars, needWake, counter, running, pollVars, callPc, stopPc>>

SetNeedWake ==
    /\ loopPc = "setNeedWake"
    /\ needWake' = TRUE
    /\ loopPc' = "swap"
    /\ UNCHANGED <<queueVars, counter, running, pollVars, callPc, stopPc>>

SwapQueues ==
    /\ loopPc = "swap"
    /\ taskQueueW' = taskQueueR
    /\ taskQueueR' = taskQueueW
    /\ loopPc' = "run"
    /\ UNCHANGED <<started, executed, needWake, counter, running, pollVars,
                   callPc, stopPc>>

RunTask ==
    /\ loopPc = "run" /\ callPc[Loop] = "idle"
    /\ started < Len(taskQueueR)
    /\ started' = started + 1
    /\ executed' = Append(executed, taskQueueR[started + 1])
    /\ UNCHANGED <<taskQueueW, taskQueueR, needWake, counter, running, loopPc,
                   pollVars, callPc, stopPc>>

\* Mutant: the index of doPendingFunc survives the truncation of the queue.
EndOfTasksKeepsIndex ==
    /\ loopPc = "run" /\ callPc[Loop] = "idle"
    /\ started = Len(taskQueueR)
    /\ taskQueueR' = <<>>
    /\ loopPc' = "checkRunning"
    /\ UNCHANGED <<started, taskQueueW, executed, needWake, counter, running,
                   pollVars, callPc, stopPc>>

\* Mutant: doPendingFunc forgets taskQueueR = taskQueueR[:0].
EndOfTasksKeepsQueue ==
    /\ loopPc = "run" /\ callPc[Loop] = "idle"
    /\ started = Len(taskQueueR)
    /\ started' = 0
    /\ loopPc' = "checkRunning"
    /\ UNCHANGED <<taskQueueR, taskQueueW, executed, needWake, counter, running,
                   pollVars, callPc, stopPc>>

EndOfTasks ==
    /\ loopPc = "run" /\ callPc[Loop] = "idle"
    /\ started = Len(taskQueueR)
    /\ taskQueueR' = <<>>
    /\ started' = 0
    /\ loopPc' = "checkRunning"
    /\ UNCHANGED <<taskQueueW, executed, needWake, counter, running, pollVars,
                   callPc, stopPc>>

CheckRunning ==
    /\ loopPc = "checkRunning"
    /\ wake' = FALSE
    /\ \/ running /\ loopPc' = "wait" /\ GrowEvents
       \/ ~running /\ loopPc' = "exited" /\ UNCHANGED lenEvents
    /\ UNCHANGED <<kqueue, queueVars, needWake, counter, running, events, full, ready,
                   callPc, stopPc>>

-----------------------------------------------------------------------------
(* Stop: queue the closure that closes the sockets, then Poller.Close *)

StopQueue(s) ==
    /\ stopPc[s] = "idle"
    /\ \E t \in Tasks : QueueAppend(s, t)
    /\ stopPc' = [stopPc EXCEPT ![s] = "check"]

CloseCheck(s) ==
    /\ stopPc[s] = "check" /\ callPc[s] = "idle"
    /\ stopPc' = [stopPc EXCEPT ![s] =
                    IF running THEN "clearRunning" ELSE "errClosed"]
    /\ UNCHANGED <<queueVars, needWake, counter, running, loopPc, pollVars, callPc>>

CloseClearRunning(s) ==
    /\ stopPc[s] = "clearRunning"
    /\ running' = FALSE
    /\ stopPc' = [stopPc EXCEPT ![s] = "wake"]
    /\ UNCHANGED <<queueVars, needWake, counter, loopPc, pollVars, callPc>>

\* Mutant: Close does not wake the loop after clearing running.
CloseWakeDropped(s) ==
    /\ stopPc[s] = "wake"
    /\ stopPc' = [stopPc EXCEPT ![s] = "waitDone"]
    /\ UNCHANGED <<queueVars, needWake, counter, running, loopPc, pollVars, callPc>>

CloseWake(s) ==
    /\ stopPc[s] = "wake"
    /\ Wake
    /\ stopPc' = [stopPc EXCEPT ![s] = IF FdsOpen THEN "waitDone" ELSE "wakeFailed"]
    /\ UNCHANGED <<queueVars, needWake, running, loopPc, pollVars, callPc>>

CloseFds(s) ==
    /\ stopPc[s] = "waitDone" /\ loopPc = "exited"
    /\ stopPc' = [stopPc EXCEPT ![s] = "closed"]
    /\ UNCHANGED <<queueVars, needWake, counter, running, loopPc, pollVars, callPc>>

-----------------------------------------------------------------------------
\* The kernel has something to report for a socket.
SocketReady(fd) ==
    /\ fd \notin ready
    /\ ready' = ready \cup {fd}
    /\ UNCHANGED <<kqueue, queueVars, needWake, counter, running, loopPc, events,
                   full, lenEvents, wake, callPc, stopPc>>

LoopStep ==
    \/ PollStart \/ EpollWait \/ CallbackReturn \/ WakeHandlerRead
    \/ EndOfEvents \/ SetNeedWake \/ SwapQueues \/ RunTask \/ EndOfTasks
    \/ CheckRunning
    \/ \E fd \in Fds : HandleSocket(fd)

CallStep(c) == QueueCAS(c) \/ QueueWake(c)

StopStep(s) ==
    CloseCheck(s) \/ CloseClearRunning(s) \/ CloseWake(s) \/ CloseFds(s)

Next ==
    \/ LoopStep
    \/ LoopQueue
    \/ \E p \in Producers : ProducerQueue(p)
    \/ \E c \in Callers : CallStep(c)
    \/ \E s \in Stoppers : StopQueue(s) \/ StopStep(s)
    \/ \E fd \in Fds : SocketReady(fd)

Spec == Init /\ [][Next]_vars

\* Every goroutine that can take a step eventually takes it; nobody is
\* obliged to call QueueInLoop or Stop, and no socket to become ready.
Fairness ==
    /\ WF_vars(LoopStep)
    /\ \A c \in Callers : WF_vars(CallStep(c))
    /\ \A s \in Stoppers : WF_vars(StopStep(s))

FairSpec == Spec /\ Fairness

-----------------------------------------------------------------------------
TypeOK ==
    /\ kqueue \in BOOLEAN
    /\ taskQueueW \in Seq(Tasks) /\ taskQueueR \in Seq(Tasks)
    /\ started \in 0..Len(taskQueueR)
    /\ executed \in Seq(Tasks)
    /\ needWake \in BOOLEAN /\ counter \in Nat /\ running \in BOOLEAN
    /\ loopPc \in LoopPcs
    /\ events \subseteq Fds \cup {EventFd} /\ ready \subseteq Fds
    /\ full \in BOOLEAN /\ lenEvents \in Nat \ {0} /\ wake \in BOOLEAN
    /\ callPc \in [Callers -> CallPcs]
    /\ stopPc \in [Stoppers -> StopPcs]

\* No wake-up is lost: whenever the loop is about to block in EpollWait with an
\* empty eventfd while closures are queued, some caller of QueueInLoop is still
\* on its way to the compare-and-swap or to the write that will wake the loop;
\* and no Close that has done its write waits for the loop to leave.
NoLostWakeup ==
    loopPc = "wait" /\ counter = 0 =>
        /\ taskQueueW # <<>> => \E c \in Callers : callPc[c] \in {"cas", "wake"}
        /\ \A s \in Stoppers : stopPc[s] # "waitDone"

\* The eventfd has been read, or the user event has been reported and reset,
\* and handlerEvent(-1) is still to come.
WakeSeen ==
    /\ wake \/ (kqueue /\ EventFd \in events)
    /\ loopPc \in {"events", "callback", "setNeedWake"}

\* What makes NoLostWakeup inductive.  A cleared needWake is always owed to a
\* write of the eventfd that is still to come, or not yet read, or read and not
\* yet acted upon.  A queued closure is covered by a cleared needWake, by a
\* caller that has appended but not yet swapped needWake, or by the swap of the
\* queues the loop is about to do.
WakeupInv ==
    /\ ~needWake => \/ counter > 0
                    \/ \E c \in Callers : callPc[c] = "wake"
                    \/ WakeSeen
                    \/ loopPc = "exited"
    /\ taskQueueW # <<>> => \/ ~needWake
                            \/ \E c \in Callers : callPc[c] = "cas"
                            \/ loopPc \in {"swap", "exited"}
    /\ loopPc # "run" => taskQueueR = <<>> /\ started = 0
    /\ ~FdsOpen => loopPc = "exited"

\* The eventfd counter cannot run up to the value at which a write blocks: of
\* the writes done or about to be done by QueueInLoop and Close, at most one
\* plus one for each Stop are unread, however many goroutines call QueueInLoop.
WakesBounded ==
    counter + Cardinality({c \in Callers : callPc[c] = "wake"})
        <= 1 + Cardinality(Stoppers)

\* Run, seen by its callers, is the FIFO worker of TaskQueue: closures run one
\* at a time, once, in the order of the appends, and none stays queued for
\* ever while the loop runs.
TQ == INSTANCE TaskQueue WITH
        pending <- SubSeq(taskQueueR, started + 1, Len(taskQueueR)) \o taskQueueW,
        open <- loopPc # "exited"

ImplementsTaskQueue == TQ!Spec

\* Close cannot hang: once it has found the poller running, the loop leaves
\* Poll, waitDone is closed and Close goes on to release the descriptors; or
\* a concurrent Close that passed the same test has released them first.
CloseReturns ==
    \A s \in Stoppers :
        stopPc[s] = "clearRunning" ~> stopPc[s] \in {"closed", "wakeFailed"}
=============================================================================
