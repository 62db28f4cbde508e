----------------------------- MODULE Connection -----------------------------
(***************************************************************************)
(* One TCP connection of connection.go, from the task that registers it    *)
(* with its event loop (handleNewConnection in server.go) to handleClose.  *)
(*                                                                         *)
(* HandleEvent and the queued closures run in the loop's goroutine, one at *)
(* a time: each is one action.  The queue is the FIFO that TaskQueue       *)
(* specifies and EventLoop implements.  Send and Close run in any          *)
(* goroutine: they test connected, and queue their closure in a later      *)
(* step.  The kernel's socket and the peer are the environment: a write    *)
(* takes any non-empty prefix that fits the send buffer, the peer may      *)
(* close its half, reset the connection or send urgent data at any time.   *)
(*                                                                         *)
(* The bytes of each direction are numbered in the order in which they     *)
(* were produced, so that a lost, repeated or reordered byte shows.        *)
(***************************************************************************)
EXTENDS Integers, Sequences

CONSTANTS
    Users,            \* goroutines that call Send, Close and ShutdownWrite
    FrameLen,         \* length of a frame of the connection's Protocol
    SendLen,          \* most bytes Packet makes of one message
    PacketSize,       \* length of the loop's read buffer
    SndBuf,           \* capacity of the kernel's send buffer
    MaxIn,            \* bound on the bytes the peer sends
    MaxCalls          \* bound on the calls of Send and Close

ASSUME LengthsAssumption ==
    /\ FrameLen \in Nat \ {0} /\ SendLen \in Nat \ {0}
    /\ PacketSize \in Nat \ {0} /\ SndBuf \in Nat \ {0}
    /\ MaxIn \in Nat /\ MaxCalls \in Nat

VARIABLES
    connected,        \* Connection.connected; while set the fd is open and
                      \* the buffers are not back in the pool
    opened,           \* OnConnect has been called
    registered,       \* the fd is in the loop's sockets and in the poller
    interest,         \* events the fd is registered for
    inBuffer, outBuffer,
    inBufferLen, outBufferLen,
    closes,           \* calls of OnClose
    tasks,            \* the connection's closures in the loop's task queue
    userPc,           \* where each user goroutine is inside Send or Close
    calls,            \* calls of Send and Close so far
    rcv,              \* received by the kernel, not yet read
    fin,              \* the peer has closed its sending half
    reset,            \* the peer has reset the connection
    shutWr,           \* the sending half has been shut down locally
    acked,            \* bytes of wire that have left the send buffer
    peerSent,         \* history: bytes sent by the peer
    delivered,        \* history: bytes passed to OnMessage
    produced,         \* history: bytes passed to sendInLoop
    wire              \* history: bytes the kernel accepted from us

connVars == <<connected, opened, registered, interest, inBuffer, outBuffer, closes>>
lenVars  == <<inBufferLen, outBufferLen>>
userVars == <<userPc, calls>>
peerVars == <<fin, reset, acked, peerSent>>
vars == <<connVars, lenVars, tasks, userVars, rcv, peerVars, shutWr, delivered,
          produced, wire>>

\* The n bytes of a stream that follow its first k.
Bytes(k, n) == [i \in 1..n |-> k + i]

Tasks == [op : {"connect", "close"}, len : {0}] \cup [op : {"send"}, len : 1..SendLen]
Task(op, len) == [op |-> op, len |-> len]

Init ==
    /\ connected = TRUE /\ opened = FALSE /\ registered = FALSE
    /\ interest = "none"
    /\ inBuffer = <<>> /\ outBuffer = <<>>
    /\ inBufferLen = 0 /\ outBufferLen = 0
    /\ closes = 0
    /\ tasks = <<Task("connect", 0)>>
    /\ userPc = [u \in Users |-> "idle"] /\ calls = 0
    /\ rcv = <<>> /\ fin = FALSE /\ reset = FALSE /\ shutWr = FALSE
    /\ acked = 0 /\ peerSent = 0
    /\ delivered = <<>> /\ produced = 0 /\ wire = <<>>

-----------------------------------------------------------------------------
(* The kernel *)

Fatal == -1           \* an error other than EAGAIN
Again == 0            \* EAGAIN: nothing was taken

Room == SndBuf - (Len(wire) - acked)

\* What write may return for len bytes when the send buffer has room left.
WriteResults(len, room) ==
    IF reset \/ shutWr THEN {Fatal}
    ELSE IF room = 0 THEN {Again}
    ELSE {n \in 1..len : n <= room}

\* How many bytes a result stands for.
Taken(n) == IF n = Fatal THEN 0 ELSE n

\* What the poller reports for the fd, in the terms of poller.Event.  A reset
\* raises EPOLLERR, and EPOLLHUP with or without EPOLLIN; urgent data raises
\* EPOLLPRI, which counts as readable although there may be nothing to read.
Reports ==
    LET writable == (interest = "readWrite" /\ (Room > 0 \/ shutWr)) \/ reset
        write    == IF writable THEN {"write"} ELSE {}
    IN  {{"read"} \cup write}
          \cup (IF reset THEN {{"err", "write"}} ELSE {})
          \cup (IF rcv = <<>> /\ ~fin /\ writable THEN {write} ELSE {})

-----------------------------------------------------------------------------
(* Steps of the loop's goroutine *)

\* Mutant: the event is not added.
EnableReadWriteDropped == interest

\* Mutant: EnableWrite is called in its place.
EnableWrite == IF registered THEN "write" ELSE interest

\* Changing the events of an fd fails unless the poller knows it.
EnableReadWrite == IF registered THEN "readWrite" ELSE interest

\* Mutant: the event is not removed.
EnableReadDropped == interest

EnableRead == IF registered THEN "read" ELSE interest

\* The buffers go back to the pool with whatever they hold.
handleClose ==
    /\ connected' = FALSE
    /\ registered' = FALSE
    /\ closes' = closes + 1
    /\ UNCHANGED <<opened, interest, outBuffer>>

\* Mutant: new output overtakes what outBuffer holds.
MustBufferNever == FALSE

MustBuffer == outBuffer # <<>>

sendInLoop(data) ==
    /\ produced' = produced + Len(data)
    /\ \/ /\ MustBuffer
          /\ outBuffer' = outBuffer \o data
          /\ UNCHANGED <<connected, opened, registered, interest, closes, wire>>
       \/ /\ ~MustBuffer
          /\ \E n \in WriteResults(Len(data), Room) :
                \/ n = Fatal /\ handleClose /\ UNCHANGED wire
                \/ /\ n # Fatal
                   /\ wire' = wire \o SubSeq(data, 1, n)
                   /\ outBuffer' = SubSeq(data, n + 1, Len(data))
                   /\ interest' = IF outBuffer' = <<>> THEN interest ELSE EnableReadWrite
                   /\ UNCHANGED <<connected, opened, registered, closes>>

\* Mutant: an incomplete frame is not kept.
UnreadDropped(input, used) == <<>>

Unread(input, used) == SubSeq(input, used + 1, Len(input))

\* handlerProtocol hands every complete frame to OnMessage; the responses it
\* collects, if any, are sent together.  What is left of the input stays in
\* inBuffer, whether it was read into it or into the loop's packet buffer.
handleReadData(n) ==
    LET input == inBuffer \o SubSeq(rcv, 1, n)
        used  == (Len(input) \div FrameLen) * FrameLen
    IN  /\ rcv' = SubSeq(rcv, n + 1, Len(rcv))
        /\ delivered' = delivered \o SubSeq(input, 1, used)
        /\ inBuffer' = Unread(input, used)
        /\ \/ UNCHANGED <<connected, opened, registered, interest, outBuffer,
                          closes, produced, wire>>
           \/ used > 0 /\ \E k \in 1..SendLen : sendInLoop(Bytes(produced, k))

\* Mutant: EAGAIN is taken for an error.
ReadFailsOnAgain == rcv = <<>> \/ reset

\* Mutant: an end of file is not an error.
ReadFailsNotAtEof == reset

ReadFails == (rcv = <<>> /\ fin) \/ reset

handleRead ==
    /\ \/ \E n \in 1..Len(rcv) : n <= PacketSize /\ handleReadData(n)
       \/ /\ ReadFails
          /\ handleClose
          /\ UNCHANGED <<inBuffer, rcv, delivered, produced, wire>>
       \/ /\ rcv = <<>> /\ ~ReadFails
          /\ UNCHANGED <<connVars, rcv, delivered, produced, wire>>
    /\ UNCHANGED reset

\* The ring buffer's content is in two pieces when it wraps; the second is
\* written only after all of the first.
SecondResults(first, n) ==
    IF n = first /\ first < Len(outBuffer)
    THEN {Fatal} \cup WriteResults(Len(outBuffer) - first, Room - n)
    ELSE {Again}

\* What handleWrite does when the writes of the two pieces return n and m.
WriteDone(n, m) ==
    LET took == Taken(n) + Taken(m)
    IN  /\ wire' = wire \o SubSeq(outBuffer, 1, took)
        /\ \/ /\ Fatal \in {n, m}
              /\ handleClose
              /\ reset' = (reset \/ m = Fatal)
           \/ /\ Fatal \notin {n, m}
              /\ outBuffer' = SubSeq(outBuffer, took + 1, Len(outBuffer))
              /\ interest' = IF outBuffer' = <<>> THEN EnableRead ELSE interest
              /\ UNCHANGED <<connected, opened, registered, closes, reset>>

handleWrite ==
    /\ \E first \in 1..Len(outBuffer) : \E n \in WriteResults(first, Room) :
          \E m \in SecondResults(first, n) : WriteDone(n, m)
    /\ UNCHANGED <<inBuffer, rcv, delivered, produced>>

HandleEvent(ev) ==
    /\ connected /\ registered
    /\ \/ /\ "err" \in ev
          /\ handleClose
          /\ UNCHANGED <<inBuffer, rcv, reset, delivered, produced, wire>>
       \/ /\ "err" \notin ev
          /\ outBuffer # <<>> /\ "write" \in ev
          /\ handleWrite
       \/ /\ "err" \notin ev
          /\ outBuffer = <<>> /\ "read" \in ev
          /\ handleRead
       \/ /\ "err" \notin ev
          /\ IF outBuffer # <<>> THEN "write" \notin ev ELSE "read" \notin ev
          /\ UNCHANGED <<connVars, rcv, reset, delivered, produced, wire>>
    /\ IF connected'
       THEN inBufferLen' = Len(inBuffer') /\ outBufferLen' = Len(outBuffer')
       ELSE UNCHANGED lenVars
    /\ UNCHANGED <<tasks, userVars, fin, acked, peerSent, shutWr>>

\* The closure of handleNewConnection; epoll_ctl may refuse the fd.
RunConnect ==
    /\ opened' = TRUE
    /\ \/ registered' = TRUE /\ interest' = "read"
       \/ UNCHANGED <<registered, interest>>
    /\ UNCHANGED <<connected, inBuffer, outBuffer, closes, produced, wire>>

\* Mutant: the closure of Send does not test connected again.
RunSendUnchecked(len) ==
    sendInLoop(Bytes(produced, len)) /\ UNCHANGED inBuffer

\* The closure of Send.
RunSend(len) ==
    IF connected
    THEN sendInLoop(Bytes(produced, len)) /\ UNCHANGED inBuffer
    ELSE UNCHANGED <<connVars, produced, wire>>

\* The closure of Close.
RunClose ==
    IF connected
    THEN handleClose /\ UNCHANGED <<inBuffer, produced, wire>>
    ELSE UNCHANGED <<connVars, produced, wire>>

RunTask ==
    /\ tasks # <<>>
    /\ tasks' = Tail(tasks)
    /\ LET t == Head(tasks)
       IN  \/ t.op = "connect" /\ RunConnect
           \/ t.op = "send" /\ RunSend(t.len)
           \/ t.op = "close" /\ RunClose
    /\ UNCHANGED <<lenVars, userVars, rcv, peerVars, shutWr, delivered>>

-----------------------------------------------------------------------------
(* Calls from other goroutines, which know the connection from OnConnect on *)

unchangedByUsers == <<connVars, lenVars, rcv, peerVars, delivered, produced, wire>>

\* Send and Close return ErrConnectionClosed when the test fails.
TestConnected(u) ==
    /\ opened /\ userPc[u] = "idle" /\ calls < MaxCalls
    /\ connected
    /\ \E op \in {"send", "close"} : userPc' = [userPc EXCEPT ![u] = op]
    /\ calls' = calls + 1
    /\ UNCHANGED <<unchangedByUsers, tasks, shutWr>>

QueueCall(u) ==
    /\ userPc[u] # "idle"
    /\ \E len \in IF userPc[u] = "send" THEN 1..SendLen ELSE {0} :
          tasks' = Append(tasks, Task(userPc[u], len))
    /\ userPc' = [userPc EXCEPT ![u] = "idle"]
    /\ UNCHANGED <<unchangedByUsers, calls, shutWr>>

\* On a closed fd the call fails.
ShutdownWrite ==
    /\ opened /\ connected /\ Users # {}
    /\ shutWr' = TRUE
    /\ UNCHANGED <<unchangedByUsers, tasks, userVars>>

-----------------------------------------------------------------------------
(* The peer *)

unchangedByPeer == <<connVars, lenVars, tasks, userVars, shutWr, delivered, produced, wire>>

PeerSend ==
    /\ connected /\ ~fin /\ ~reset /\ peerSent < MaxIn
    /\ peerSent' = peerSent + 1
    /\ rcv' = Append(rcv, peerSent + 1)
    /\ UNCHANGED <<unchangedByPeer, fin, reset, acked>>

PeerRead ==
    /\ ~reset /\ acked < Len(wire)
    /\ acked' = acked + 1
    /\ UNCHANGED <<unchangedByPeer, rcv, fin, reset, peerSent>>

PeerClose ==
    /\ ~fin /\ ~reset
    /\ fin' = TRUE
    /\ UNCHANGED <<unchangedByPeer, rcv, reset, acked, peerSent>>

PeerReset ==
    /\ ~reset
    /\ reset' = TRUE
    /\ UNCHANGED <<unchangedByPeer, rcv, fin, acked, peerSent>>

-----------------------------------------------------------------------------
PollEvent == \E ev \in Reports : HandleEvent(ev)

Next ==
    \/ PollEvent \/ RunTask
    \/ \E u \in Users : TestConnected(u) \/ QueueCall(u)
    \/ ShutdownWrite
    \/ PeerSend \/ PeerRead \/ PeerClose \/ PeerReset

Spec == Init /\ [][Next]_vars

\* The loop runs, a goroutine inside Send or Close goes on, and the peer reads
\* what it is sent.  Nobody is obliged to send, to close or to reset.
FairSpec ==
    /\ Spec
    /\ WF_vars(PollEvent) /\ WF_vars(RunTask)
    /\ \A u \in Users : WF_vars(QueueCall(u))
    /\ WF_vars(PeerRead)

-----------------------------------------------------------------------------
TypeOK ==
    /\ connected \in BOOLEAN /\ opened \in BOOLEAN /\ registered \in BOOLEAN
    /\ interest \in {"none", "read", "readWrite"}
    /\ inBuffer \in Seq(Nat) /\ outBuffer \in Seq(Nat)
    /\ inBufferLen \in Nat /\ outBufferLen \in Nat /\ closes \in Nat
    /\ tasks \in Seq(Tasks)
    /\ userPc \in [Users -> {"idle", "send", "close"}] /\ calls \in 0..MaxCalls
    /\ rcv \in Seq(Nat) /\ fin \in BOOLEAN /\ reset \in BOOLEAN
    /\ shutWr \in BOOLEAN /\ acked \in 0..Len(wire) /\ Room \in 0..SndBuf
    /\ peerSent \in 0..MaxIn /\ delivered \in Seq(Nat)
    /\ produced \in Nat /\ wire \in Seq(Nat)

\* Every byte given to sendInLoop, by a response or by Send, is either already
\* with the kernel or in outBuffer, once and in order, however often a write is
\* partial or refused; after handleClose what the kernel got is a prefix.
OutputIntact ==
    IF connected THEN wire \o outBuffer = Bytes(0, produced)
                 ELSE wire = Bytes(0, Len(wire)) /\ Len(wire) <= produced

\* The bytes handed to OnMessage, those kept in inBuffer and those still in the
\* kernel are what the peer sent, in order; handleRead leaves no complete frame
\* behind in inBuffer.
InputIntact ==
    /\ delivered \o inBuffer \o rcv = Bytes(0, peerSent)
    /\ Len(inBuffer) < FrameLen

\* The fd is registered for writing exactly while outBuffer holds data: else
\* output would be stuck, or the poller would report the socket for ever.
WriteInterest ==
    registered => /\ connected
                  /\ (interest = "readWrite") <=> (outBuffer # <<>>)

\* handleClose is final: closures queued by a Send or Close that saw the
\* connection open do not write to the fd, touch the pooled buffers, register
\* the fd again or call OnClose again when they run after it.
ClosedIsFinal ==
    [][~connected => UNCHANGED <<connVars, lenVars, delivered, produced, wire>>]_vars

\* The loop gives a connection up on its own account, without a reset, a local
\* shutdown or a Close, only at the peer's end of file, and then all input has
\* been read and all output has been written.
EofIsGraceful ==
    [][connected /\ ~connected' /\ ~reset' /\ ~shutWr /\ tasks' = tasks
         => fin /\ rcv = <<>> /\ Len(wire) = produced]_vars

\* While the peer reads, buffered output is written or the connection ends.
OutputDrains == registered /\ outBuffer # <<>> ~> ~connected \/ outBuffer = <<>>

\* A connection the peer has closed is closed here too, after its output.
EofCloses == registered /\ fin ~> ~connected
=============================================================================
