----------------------------- MODULE WebSocket ------------------------------
(***************************************************************************)
(* plugins/websocket on one connection: the handshake, then the frames.    *)
(* Protocol.UnPacket and HandlerWrap.OnMessage run inside the connection's *)
(* handleRead, in the loop of handlerProtocol: one action per turn of the  *)
(* loop, between a read (Arrive) and the write of the collected responses  *)
(* (SendResponses).                                                        *)
(*                                                                         *)
(* The client keeps to RFC 6455: it waits for the answer to a request      *)
(* before it sends anything else, masks its frames and sends none after a  *)
(* close frame.  Bytes are counted, not named: frame f occupies Size(f)    *)
(* bytes from position f.from of the stream, and a read may end at any     *)
(* byte of a header, in the middle of a payload or at the end of a frame.  *)
(***************************************************************************)
EXTENDS Cipher, Upgrade

CONSTANTS
    Requests,         \* upgrade requests the client may make
    Frames,           \* frames the client may send: [op, len, code, maskZero]
    MaxRequests,      \* bound on the requests
    MaxFrames,        \* bound on the frames
    Offsets,          \* where in a frame a read may end, besides its middle
                      \* and its end
    SplitLong         \* whether a read may end six or seven bytes into a
                      \* header with a 64-bit length

ASSUME RequestsAssumption ==
    Requests \subseteq [line : Lines, before : Codes \cup {0, Nil},
                        headers : Seq([key : Keys, val : {"good", "bad", "none"},
                                       code : Codes \cup {0}])]

ASSUME SplitLongAssumption == SplitLong \in BOOLEAN

Ops == {"continuation", "text", "binary", "close", "ping", "pong"}

\* Lengths are below 2^32.
ASSUME FramesAssumption ==
    /\ Frames \subseteq [op : Ops, len : Nat, code : Int, maskZero : BOOLEAN]
    /\ \A f \in Frames : f.len \div 65536 < 65536

ASSUME BoundsAssumption == MaxRequests \in Nat /\ MaxFrames \in Nat /\ Offsets \subseteq Nat

VARIABLES
    upgraded,         \* upgradedKey is set in the connection's context
    request,          \* the last request of the client, if any
    reqCount,         \* requests made
    reqBytes,         \* how much of it is in the buffer: "none", "part" or
                      \* "all", or "taken" after that
    response,         \* the answer to it
    frames,           \* the frames sent by the client
    arrived,          \* bytes of the frames read from the socket
    next,             \* the frame UnPacket is to read next
    stale,            \* which of bytes 4 to 7 of the header buffer are zero
    lost,             \* UnPacket has mistaken part of a header for a frame
    delivered,        \* messages passed to OnMessage
    maskRead,         \* for each of them, the bytes of its mask that were read
    out,              \* responses collected by handlerProtocol
    pc,               \* "poll", "unpack" or "send"
    shutWr,           \* the sending half is shut down
    closed            \* handleClose has run

hsVars == <<upgraded, request, reqCount, reqBytes, response>>
vars == <<hsVars, frames, arrived, next, stale, lost, delivered, maskRead,
          out, pc, shutWr, closed>>

NoRequest == [line |-> "none"]

Init ==
    /\ upgraded = FALSE /\ request = NoRequest /\ reqCount = 0
    /\ reqBytes = "none" /\ response = Nil
    /\ frames = <<>> /\ arrived = 0 /\ next = 1
    /\ stale = [i \in 4..7 |-> TRUE] /\ lost = FALSE
    /\ delivered = <<>> /\ maskRead = <<>> /\ out = <<>>
    /\ pc = "poll" /\ shutWr = FALSE /\ closed = FALSE

-----------------------------------------------------------------------------
(* Headers *)

\* Bytes of the extended length that WriteHeader puts after the first two.
LengthBytes(len) == IF len <= 125 THEN 0 ELSE IF len <= 65535 THEN 2 ELSE 8

\* The length and the mask follow the first two bytes.
extra(f) == 4 + LengthBytes(f.len)

Size(f) == 2 + extra(f) + f.len

\* Bytes of the buffer from the start of the frame to be read.
Available == IF next > Len(frames) THEN 0 ELSE arrived - frames[next].from

\* Mutant: two bytes are taken for a header.
HeaderReadyEarly(avail) == avail >= 2

HeaderReady(avail) == avail >= 6

\* VirtualRead of extra bytes reads what there is, into the header buffer.
Fresh(f, avail) == IF avail - 2 < extra(f) THEN avail - 2 ELSE extra(f)

\* What the bytes of the length at 4 to 7 count for.
Weight == [i \in 4..7 |->
    CASE i = 4 -> 16777216 [] i = 5 -> 65536 [] i = 6 -> 256 [] OTHER -> 1]

\* The byte of the header buffer at i after that read is zero.  After a 64-bit
\* length the buffer holds its low bytes, after a 16-bit one the mask's.
HeaderByteZero(f, i) ==
    /\ LengthBytes(f.len) = 8 => (f.len \div Weight[i]) % 256 = 0
    /\ LengthBytes(f.len) = 2 => f.maskZero

HeaderBuffer(f, avail) ==
    [i \in 4..7 |-> IF i < Fresh(f, avail) THEN HeaderByteZero(f, i) ELSE stale[i]]

\* The length is complete when it is read, and the buffer holds the payload; or
\* it is not, the buffer is exhausted, and the bytes found in the place of the
\* missing ones make the length zero.
PayloadReady(f, avail) ==
    IF Fresh(f, avail) >= LengthBytes(f.len)
    THEN avail - 2 - Fresh(f, avail) >= f.len
    ELSE \A i \in 4..7 : HeaderBuffer(f, avail)[i]

\* Bytes of the mask among those read; the others are what the buffer held.
MaskBytes(f, avail) ==
    IF Fresh(f, avail) <= LengthBytes(f.len) THEN 0 ELSE Fresh(f, avail) - LengthBytes(f.len)

-----------------------------------------------------------------------------
(* Control frames *)

IsProtocolDefined(code) == code \in (1000..1003) \cup (1005..1011) \cup {1015}

IsProtocolReserved(code) == code \in {1005, 1006, 1015}

\* Mutant: the reserved codes pass, being defined.
CheckCloseFrameDataDefined(code) ==
    ~(code \in 0..999 \/ code = 1004 \/ (code \in 1000..2999 /\ ~IsProtocolDefined(code)))

\* The reason is valid UTF-8.
CheckCloseFrameData(code) ==
    ~ \/ code \in 0..999
      \/ IsProtocolReserved(code)
      \/ code = 1004
      \/ code \in 1000..2999 /\ ~IsProtocolDefined(code)

\* The code of the reply; a close frame without a payload has none.
NoCode == -1
HandleClose(m) ==
    IF m.len = 0 THEN NoCode
    ELSE IF CheckCloseFrameData(m.code) THEN m.code ELSE 1002

Response(op, len, code) == [op |-> op, len |-> len, code |-> code]

\* What OnMessage may return for a message: for data what the handler returns,
\* if anything.
OnMessage(m) ==
    CASE m.op = "close" -> {<<Response("close", 0, HandleClose(m))>>}
      [] m.op = "ping"  -> {<<Response("pong", m.len, NoCode)>>}
      [] m.op = "pong"  -> {<<Response("ping", m.len, NoCode)>>}
      [] OTHER -> {<<>>, <<Response("text", m.len, NoCode)>>}

-----------------------------------------------------------------------------
(* The connection *)

unchangedByHandshake == <<frames, arrived, next, lost, delivered, maskRead, shutWr, closed>>

\* UnPacket before the upgrade.  An incomplete request stays in the buffer, a
\* complete one is taken out of it; the answer, if there is one, goes through
\* OnMessage as it is, and the next turn finds the buffer empty.  The header
\* buffer comes from a pool and holds whatever its last user left.
UnPacketUpgrade ==
    /\ pc = "unpack" /\ ~upgraded
    /\ \/ /\ reqBytes # "all"
          /\ pc' = "send"
          /\ UNCHANGED <<hsVars, out, stale>>
       \/ /\ reqBytes = "all"
          /\ reqBytes' = "taken"
          /\ response' = UpgradeResponse(request)
          /\ upgraded' = UpgradeOk(request)
          /\ stale' \in IF upgraded' THEN [4..7 -> BOOLEAN] ELSE {stale}
          /\ out' = IF response' = Nil THEN out
                    ELSE Append(out, Response("http", 0, NoCode))
          /\ pc' = IF response' = Nil THEN "send" ELSE "unpack"
          /\ UNCHANGED <<request, reqCount>>
    /\ UNCHANGED unchangedByHandshake

\* What UnPacket makes of the middle of a frame is not followed.
Readable == HeaderReady(Available) /\ ~lost

\* UnPacket after it, and OnMessage on what it returns.  ShutdownWrite is called
\* before the reply to a close frame is sent.
UnPacketFrame ==
    /\ pc = "unpack" /\ upgraded
    /\ \/ /\ ~Readable
          /\ pc' = "send"
          /\ UNCHANGED <<next, stale, lost, delivered, maskRead, out, shutWr>>
       \/ /\ Readable
          /\ LET f == frames[next]
             IN  /\ stale' = HeaderBuffer(f, Available)
                 /\ \/ /\ ~PayloadReady(f, Available)
                       /\ pc' = "send"
                       /\ UNCHANGED <<next, lost, delivered, maskRead, out, shutWr>>
                    \/ /\ PayloadReady(f, Available)
                       /\ lost' = (Fresh(f, Available) < LengthBytes(f.len))
                       /\ LET m == Response(f.op, IF lost' THEN 0 ELSE f.len, f.code)
                          IN  /\ delivered' = Append(delivered, m)
                              /\ \E resp \in OnMessage(m) : out' = out \o resp
                              /\ shutWr' = (shutWr \/ m.op = "close")
                       /\ maskRead' = Append(maskRead, MaskBytes(f, Available))
                       /\ next' = next + 1
                       /\ UNCHANGED pc
    /\ UNCHANGED <<hsVars, frames, arrived, closed>>

\* Connection models the write.  After ShutdownWrite it fails, and sendInLoop
\* closes the connection.
SendResponses ==
    /\ pc = "send" /\ pc' = "poll" /\ out' = <<>>
    /\ closed' = (out # <<>> /\ shutWr)
    /\ UNCHANGED <<hsVars, frames, arrived, next, stale, lost, delivered, maskRead, shutWr>>

-----------------------------------------------------------------------------
(* The client and the kernel *)

unchangedByClient ==
    <<upgraded, next, stale, lost, delivered, maskRead, out, shutWr, closed>>

\* The client tries again after a refusal.
ClientRequest ==
    /\ ~upgraded /\ pc = "poll" /\ reqCount < MaxRequests
    /\ request = NoRequest \/ response # Nil
    /\ \E q \in Requests : request' = q
    /\ reqCount' = reqCount + 1 /\ reqBytes' = "none" /\ response' = Nil
    /\ UNCHANGED <<unchangedByClient, frames, arrived, pc>>

ArriveRequest ==
    /\ pc = "poll" /\ request # NoRequest
    /\ \/ reqBytes = "none" /\ reqBytes' \in {"part", "all"}
       \/ reqBytes = "part" /\ reqBytes' = "all"
    /\ pc' = "unpack"
    /\ UNCHANGED <<unchangedByClient, request, reqCount, response, frames, arrived>>

SentBytes ==
    IF frames = <<>> THEN 0 ELSE frames[Len(frames)].from + Size(frames[Len(frames)])

ClientFrame ==
    /\ upgraded /\ pc = "poll" /\ ~closed /\ Len(frames) < MaxFrames
    /\ \A i \in DOMAIN frames : frames[i].op # "close"
    /\ \E f \in Frames :
          frames' = Append(frames, [op |-> f.op, len |-> f.len, code |-> f.code,
                                    maskZero |-> f.maskZero, from |-> SentBytes])
    /\ request' = NoRequest /\ reqBytes' = "none" /\ response' = Nil
    /\ UNCHANGED <<unchangedByClient, reqCount, arrived, pc>>

DefaultPacketSize == 65536

\* Where a read may end.
Cuts(f) ==
    {f.from + k : k \in
        {n \in Offsets \cup {Size(f) \div 2, Size(f) - 1, Size(f)} :
            n \in 1..Size(f) /\ (SplitLong \/ LengthBytes(f.len) < 8 \/ n \notin {6, 7})}}

ArriveFrames ==
    /\ pc = "poll" /\ upgraded /\ ~closed
    /\ \E i \in DOMAIN frames : \E w \in Cuts(frames[i]) :
          w > arrived /\ w - arrived <= DefaultPacketSize /\ arrived' = w
    /\ pc' = "unpack"
    /\ UNCHANGED <<unchangedByClient, request, reqCount, reqBytes, response, frames>>

Next ==
    \/ ClientRequest \/ ArriveRequest \/ UnPacketUpgrade
    \/ ClientFrame \/ ArriveFrames \/ UnPacketFrame
    \/ SendResponses

Spec == Init /\ [][Next]_vars

-----------------------------------------------------------------------------
TypeOK ==
    /\ upgraded \in BOOLEAN /\ request \in Requests \cup {NoRequest}
    /\ reqCount \in 0..MaxRequests /\ reqBytes \in {"none", "part", "all", "taken"}
    /\ response \in Responses
    /\ Len(frames) <= MaxFrames /\ arrived \in 0..SentBytes
    /\ next \in 1..(Len(frames) + 1) /\ stale \in [4..7 -> BOOLEAN]
    /\ {lost, shutWr, closed} \subseteq BOOLEAN
    /\ Len(delivered) <= MaxFrames
    /\ pc \in {"poll", "unpack", "send"}

\* UnPacket cuts the stream into the frames the client sent, whatever the
\* segments it arrives in: OnMessage gets each once, in order and only when all
\* of it has been read, and handleRead leaves none behind that has.
FramesIntact ==
    /\ \A i \in DOMAIN delivered :
          /\ delivered[i] = Response(frames[i].op, frames[i].len, frames[i].code)
          /\ frames[i].from + Size(frames[i]) <= arrived
    /\ pc = "poll" => \A i \in DOMAIN frames :
          frames[i].from + Size(frames[i]) <= arrived => i <= Len(delivered)

\* The connection becomes a WebSocket exactly when the request Upgrade has taken
\* is acceptable, and it says so; a client that is refused for its headers or by
\* a callback for them gets the status of the first thing that is wrong.
UpgradeSound ==
    reqBytes = "taken" =>
        /\ upgraded <=> Acceptable(request)
        /\ request.line = "ok" =>
              response = IF Acceptable(request) THEN 101 ELSE Refusal(request)

\* The code in the reply to a close frame is not one that RFC 6455 keeps out of
\* close frames, whatever code the frame has.
CloseCodeLegal ==
    \A i \in DOMAIN out : out[i].op = "close" =>
        out[i].code \notin (0..999) \cup {1004, 1005, 1006, 1015} \cup (1016..2999)

\* The lengths of payloads of which Cipher XORs every byte once, with the byte
\* of the mask that goes with it.
Unmasked ==
    {n \in {f.len : f \in Frames} : \A i \in 0..(n - 1) : MaskedOnce(n, 0, i)}

\* A payload goes to OnMessage unmasked, wherever the reads end: the whole mask
\* of its frame has been read before, and Cipher undoes it byte by byte.
PayloadUnmasked ==
    \A i \in DOMAIN delivered :
        delivered[i].len > 0 => maskRead[i] = 4 /\ delivered[i].len \in Unmasked
=============================================================================
