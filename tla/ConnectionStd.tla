--------------------------- MODULE ConnectionStd ---------------------------
(***************************************************************************)
(* A connection of server_std.go: readLoop and writeLoop, each a goroutine *)
(* of its own, Send and Close, which they share with other goroutines, and *)
(* the protocol that cuts the stream into messages.                        *)
(***************************************************************************)
EXTENDS Framing, CloseStd

CONSTANTS
    Reader, Writer,   \* the connection's two goroutines
    Users,            \* other goroutines that call Send or Close
    Inputs,           \* the sequences of messages a client may send
    Sends,            \* what a user may send
    MaxSubmitted      \* bound: a message is answered after at most so many bytes

ASSUME ClosersAssumption ==
    /\ Closers = {Reader, Writer} \cup Users
    /\ Reader # Writer /\ Reader \notin Users /\ Writer \notin Users

\* The client packs no message that its length fields cannot describe.
ASSUME StreamAssumption ==
    /\ Inputs \subseteq Seq([type : Seq(Nat), data : Seq(Nat)])
    /\ \A ms \in Inputs : \A i \in DOMAIN ms : Fits(ms[i])
    /\ Sends \subseteq Seq(Nat)

VARIABLES
    protocol, msgs,   \* the protocol in use and what the client sends
    peer,             \* the other end: "open", "closed" or "reset"
    inbound,          \* bytes of msgs not yet read
    readPc, inBuffer, inBufferLen,
    tmp,              \* readLoop's buf: the replies of this turn
    delivered,        \* history: what OnMessage has got
    writePc, taskQueueW, taskQueueR, outBuffer, outBufferLen,
    peeked,           \* length of the slice of PeekAll that is written next
    sent,             \* history: bytes the other end has been sent
    submitted,        \* history: bytes that Send has taken, as packed later
    userPc            \* where each user is inside Send

streamVars == <<protocol, msgs, peer>>
readVars   == <<inbound, readPc, inBuffer, inBufferLen, tmp, delivered>>
writeVars  == <<writePc, taskQueueR, outBuffer, outBufferLen, peeked, sent>>
sendVars   == <<taskQueueW, submitted>>
vars == <<closeVars, streamVars, readVars, writeVars, sendVars, userPc>>

Init ==
    /\ connected = TRUE /\ CloseInit
    /\ protocol \in Protocols /\ msgs \in Inputs /\ peer = "open"
    /\ inbound = EncodeAll(protocol, msgs)
    /\ readPc = "empty" /\ inBuffer = <<>> /\ inBufferLen = 0 /\ tmp = <<>>
    /\ delivered = <<>>
    /\ writePc = "top" /\ taskQueueW = <<>> /\ taskQueueR = <<>>
    /\ outBuffer = <<>> /\ outBufferLen = 0 /\ peeked = 0
    /\ sent = <<>> /\ submitted = <<>>
    /\ userPc = [u \in Users |-> "idle"]

-----------------------------------------------------------------------------
CloseStep(a) ==
    /\ CloseSteps(a)
    /\ UNCHANGED <<streamVars, readVars, writeVars, sendVars, userPc>>

-----------------------------------------------------------------------------
(* readLoop *)

\* The first Read is into a slice of length 0 and gets nothing.
ReadEmpty ==
    /\ readPc = "empty"
    /\ readPc' = IF dying THEN "exited" ELSE "top"
    /\ UNCHANGED <<closePc, inbound, inBuffer, inBufferLen, tmp, delivered, sendVars>>

ReadTop ==
    /\ readPc = "top"
    /\ readPc' = IF dying THEN "exited" ELSE "read"
    /\ UNCHANGED <<closePc, inbound, inBuffer, inBufferLen, tmp, delivered, sendVars>>

Read ==
    /\ readPc = "read" /\ ~sockClosed /\ peer # "reset"
    /\ \E n \in 1..Len(inbound) :
          /\ inbound' = Retrieve(inbound, n)
          /\ inBuffer' = inBuffer \o Peek(inbound, n)
    /\ readPc' = "protocol"
    /\ UNCHANGED <<closePc, inBufferLen, tmp, delivered, sendVars>>

\* EOF, a reset, or a socket closed under the reader.
ReadError ==
    /\ \/ readPc \in {"empty", "read"} /\ (sockClosed \/ peer = "reset")
       \/ readPc = "read" /\ peer = "closed" /\ inbound = <<>>
    /\ readPc' = "exited" /\ Enter(Reader)
    /\ UNCHANGED <<inbound, inBuffer, inBufferLen, tmp, delivered, sendVars>>

\* Mutant: the loop goes on only while there is a context.
HandlesContext(u) == u.ctx # NoCtx

\* The condition of handlerProtocol's loop.
Handles(u) == u.ctx # NoCtx \/ u.data # <<>>

\* One turn of handlerProtocol's loop.  OnMessage replies with nothing, or
\* with what it got.
handlerProtocol ==
    LET u == UnPacket(protocol, inBuffer)
    IN  /\ readPc = "protocol"
        /\ inBuffer' = u.rest
        /\ IF Handles(u)
           THEN /\ delivered' = Append(delivered, [type |-> u.ctx, data |-> u.data])
                /\ \/ UNCHANGED tmp
                   \/ Len(submitted \o tmp) <= MaxSubmitted
                      /\ tmp' = tmp \o Packet(protocol, u.data)
                /\ UNCHANGED readPc
           ELSE readPc' = "send" /\ UNCHANGED <<delivered, tmp>>
        /\ UNCHANGED <<closePc, inbound, inBufferLen, sendVars>>

\* The closure of Send packs the data when it runs, replies that
\* handlerProtocol has packed already included.
SendAppend(data) ==
    /\ taskQueueW' = Append(taskQueueW, data)
    /\ submitted' = submitted \o Packet(protocol, data)

\* Mutant: what the replies take is deducted from the length.
ReadDoneDeducts ==
    readPc' = "top" /\ tmp' = <<>> /\ inBufferLen' = Len(inBuffer) - Len(tmp)

\* The end of a turn of readLoop.
ReadDone == readPc' = "top" /\ tmp' = <<>> /\ inBufferLen' = Len(inBuffer)

\* The replies go through Send: its test, then its append.
ReadSend ==
    /\ readPc = "send"
    /\ IF tmp # <<>> /\ connected
       THEN readPc' = "append" /\ UNCHANGED <<tmp, inBufferLen>>
       ELSE ReadDone
    /\ UNCHANGED <<closePc, inbound, inBuffer, delivered, sendVars>>

ReadAppend ==
    /\ readPc = "append"
    /\ SendAppend(tmp) /\ ReadDone
    /\ UNCHANGED <<closePc, inbound, inBuffer, delivered>>

ReadStep ==
    /\ closePc[Reader] = "no"
    /\ \/ ReadEmpty \/ ReadTop \/ Read \/ ReadError
       \/ handlerProtocol \/ ReadSend \/ ReadAppend
    /\ UNCHANGED <<streamVars, connected, dying, sockClosed, onCloses, panicked,
                   writeVars, userPc>>

-----------------------------------------------------------------------------
(* writeLoop *)

WriteTop ==
    /\ writePc = "top"
    /\ writePc' = IF dying THEN "exited" ELSE "swap"
    /\ UNCHANGED <<closePc, taskQueueW, taskQueueR, outBuffer, outBufferLen, peeked,
                   sent>>

\* doPendingFunc; taskQueueR is empty between its calls.
SwapQueues ==
    /\ writePc = "swap"
    /\ taskQueueR' = taskQueueW /\ taskQueueW' = taskQueueR
    /\ writePc' = "run"
    /\ UNCHANGED <<closePc, outBuffer, outBufferLen, peeked, sent>>

\* The closure's own test of connected.
RunClosure ==
    /\ writePc = "run" /\ taskQueueR # <<>>
    /\ IF connected
       THEN writePc' = "send" /\ UNCHANGED taskQueueR
       ELSE taskQueueR' = Tail(taskQueueR) /\ UNCHANGED writePc
    /\ UNCHANGED <<closePc, taskQueueW, outBuffer, outBufferLen, peeked, sent>>

\* What conn.Write makes of data: it writes the first n bytes and may report
\* an error.  (Weaker than net.Conn, which reports one whenever n is short.)
ConnWrite(data, n, err) ==
    /\ sockClosed => n = 0 /\ err
    /\ err => sockClosed \/ peer # "open"
    /\ sent' = sent \o Peek(data, n)

sendInLoop ==
    LET data == Packet(protocol, Head(taskQueueR))
    IN  /\ writePc = "send"
        /\ IF outBuffer # <<>>
           THEN outBuffer' = outBuffer \o data /\ UNCHANGED <<closePc, sent>>
           ELSE \E n \in 0..Len(data), err \in BOOLEAN :
                  /\ ConnWrite(data, n, err)
                  /\ IF err THEN Enter(Writer) /\ UNCHANGED outBuffer
                            ELSE outBuffer' = Retrieve(data, n) /\ UNCHANGED closePc
        /\ taskQueueR' = Tail(taskQueueR) /\ writePc' = "run"
        /\ UNCHANGED <<taskQueueW, outBufferLen, peeked>>

\* PeekAll returns the bytes up to the end of the ring, then the others.
PeekAll ==
    /\ writePc = "run" /\ taskQueueR = <<>>
    /\ IF outBuffer = <<>> THEN writePc' = "top" /\ UNCHANGED peeked
                           ELSE writePc' = "first" /\ peeked' \in 1..Len(outBuffer)
    /\ UNCHANGED <<closePc, taskQueueW, taskQueueR, outBuffer, outBufferLen, sent>>

\* Mutant: the length is taken before Retrieve.
WriteDoneEarly ==
    /\ writePc' = "top" /\ outBufferLen' = Len(outBuffer) /\ peeked' = 0
    /\ UNCHANGED closePc

\* The end of a turn of writeLoop.
WriteDone ==
    /\ writePc' = "top" /\ outBufferLen' = Len(outBuffer') /\ peeked' = 0
    /\ UNCHANGED closePc

WriteFailed ==
    /\ writePc' = "exited" /\ Enter(Writer)
    /\ peeked' = 0
    /\ UNCHANGED <<outBuffer, outBufferLen>>

\* Mutant: the second slice is written although the first was not finished.
WriteFirstGoesOn ==
    /\ writePc = "first"
    /\ \E n \in 0..peeked, err \in BOOLEAN :
          /\ ConnWrite(outBuffer, n, err)
          /\ IF err THEN WriteFailed
             ELSE /\ outBuffer' = Retrieve(outBuffer, n)
                  /\ IF peeked < Len(outBuffer)
                     THEN /\ writePc' = "end" /\ peeked' = Len(outBuffer) - peeked
                          /\ UNCHANGED <<closePc, outBufferLen>>
                     ELSE WriteDone
    /\ UNCHANGED <<taskQueueW, taskQueueR>>

WriteFirst ==
    /\ writePc = "first"
    /\ \E n \in 0..peeked, err \in BOOLEAN :
          /\ ConnWrite(outBuffer, n, err)
          /\ IF err THEN WriteFailed
             ELSE /\ outBuffer' = Retrieve(outBuffer, n)
                  /\ IF n = peeked /\ peeked < Len(outBuffer)
                     THEN /\ writePc' = "end" /\ peeked' = Len(outBuffer) - peeked
                          /\ UNCHANGED <<closePc, outBufferLen>>
                     ELSE WriteDone
    /\ UNCHANGED <<taskQueueW, taskQueueR>>

WriteEnd ==
    /\ writePc = "end"
    /\ \E n \in 0..peeked, err \in BOOLEAN :
          /\ ConnWrite(SubSeq(outBuffer, Len(outBuffer) - peeked + 1, Len(outBuffer)),
                       n, err)
          /\ IF err THEN WriteFailed
                    ELSE outBuffer' = Retrieve(outBuffer, n) /\ WriteDone
    /\ UNCHANGED <<taskQueueW, taskQueueR>>

WriteStep ==
    /\ closePc[Writer] = "no"
    /\ \/ WriteTop \/ SwapQueues \/ RunClosure \/ sendInLoop
       \/ PeekAll \/ WriteFirst \/ WriteEnd
    /\ UNCHANGED <<streamVars, connected, dying, sockClosed, onCloses, panicked,
                   readVars, submitted, userPc>>

-----------------------------------------------------------------------------
(* Other goroutines, once the connection is known to them; the other end *)

UserSend(u) ==
    /\ userPc[u] = "idle"
    /\ userPc' = [userPc EXCEPT ![u] = IF connected THEN "append" ELSE "done"]
    /\ UNCHANGED <<closePc, sendVars>>

UserAppend(u) ==
    /\ userPc[u] = "append"
    /\ \E data \in Sends : SendAppend(data)
    /\ userPc' = [userPc EXCEPT ![u] = "done"]
    /\ UNCHANGED closePc

UserClose(u) ==
    /\ userPc[u] = "idle"
    /\ userPc' = [userPc EXCEPT ![u] = "done"] /\ Enter(u)
    /\ UNCHANGED sendVars

UserStep(u) ==
    /\ UserSend(u) \/ UserAppend(u) \/ UserClose(u)
    /\ UNCHANGED <<streamVars, connected, dying, sockClosed, onCloses, panicked,
                   readVars, writeVars>>

PeerEnds ==
    /\ peer = "open" /\ peer' \in {"closed", "reset"}
    /\ UNCHANGED <<closeVars, protocol, msgs, readVars, writeVars, sendVars, userPc>>

Next ==
    /\ ~panicked
    /\ \/ \E a \in Closers : CloseStep(a)
       \/ ReadStep \/ WriteStep \/ PeerEnds
       \/ \E u \in Users : UserStep(u)

Spec == Init /\ [][Next]_vars

\* Every goroutine that can take a step eventually does.  Nobody is obliged to
\* call Send or Close, and the other end need never end the connection.
FairSpec ==
    /\ Spec
    /\ WF_vars(ReadStep) /\ WF_vars(WriteStep)
    /\ \A a \in Closers : WF_vars(CloseStep(a))

-----------------------------------------------------------------------------
Bytes == Seq(Int)

TypeOK ==
    /\ CloseTypeOK
    /\ protocol \in Protocols /\ msgs \in Inputs
    /\ peer \in {"open", "closed", "reset"}
    /\ readPc \in {"empty", "top", "read", "protocol", "send", "append", "exited"}
    /\ writePc \in {"top", "swap", "run", "send", "first", "end", "exited"}
    /\ {inbound, inBuffer, tmp, outBuffer, sent, submitted} \subseteq Bytes
    /\ taskQueueW \in Seq(Bytes) /\ taskQueueR \in Seq(Bytes)
    /\ inBufferLen \in Nat /\ outBufferLen \in Nat /\ peeked \in 0..Len(outBuffer)
    /\ userPc \in [Users -> {"idle", "append", "done"}]

\* What the other end is sent is a prefix of what Send has taken, in the order
\* of the queue, across short writes, a wrapped ring buffer and errors; and a
\* connection whose queues and buffer are empty has sent all of it.
OutputIntact ==
    /\ IsPrefix(sent, submitted)
    /\ (/\ connected /\ writePc \in {"top", "swap", "run"} /\ closePc[Writer] = "no"
        /\ taskQueueW = <<>> /\ taskQueueR = <<>> /\ outBuffer = <<>>)
       => sent = submitted

\* What OnMessage gets of a message.  It is not called for the example
\* protocol's messages without data, which handlerProtocol takes for incomplete.
Gets(p, m) ==
    IF p = "protobuf" THEN <<m>>
    ELSE IF m.data = <<>> THEN <<>> ELSE <<[type |-> NoCtx, data |-> m.data]>>

Expected == Concat([i \in DOMAIN msgs |-> Gets(protocol, msgs[i])])

\* However the stream is cut into reads, OnMessage gets the client's messages,
\* whole and in their order; with DefaultProtocol, the stream in pieces.
InputIntact ==
    IF protocol = "default"
    THEN IsPrefix(Concat([i \in DOMAIN delivered |-> delivered[i].data]),
                  EncodeAll(protocol, msgs))
    ELSE IsPrefix(delivered, Expected)

\* No message waits in inBuffer when the reader goes back to Read, unless the
\* client sends an empty one: that ends handlerProtocol's loop, or is too short
\* for UnPacket's test, and what follows it waits for the next read.
NoBacklog ==
    readPc = "read" /\ (\A i \in DOMAIN msgs : msgs[i].data # <<>>) =>
        LET received == Len(EncodeAll(protocol, msgs)) - Len(inbound)
        IN  IF protocol = "default" THEN inBuffer = <<>>
            ELSE \A k \in DOMAIN msgs :
                    Len(EncodeAll(protocol, SubSeq(msgs, 1, k))) <= received
                        => Len(delivered) >= k

\* The lengths that ReadBufferLength and WriteBufferLength report are right
\* between two turns of the loops.
LengthsReported ==
    /\ readPc \in {"top", "read"} => inBufferLen = Len(inBuffer)
    /\ writePc \in {"top", "swap"} => outBufferLen = Len(outBuffer)

\* "Close closes the connection": both loops end once some goroutine is past
\* the test of connected, although the reader may be blocked in Read; unless
\* two were at once, and the second panics.
CloseEndsLoops ==
    dying ~> panicked \/ (readPc = "exited" /\ writePc = "exited")
=============================================================================
