-------------------------- MODULE ConnectionProofs --------------------------
(***************************************************************************)
(* Proofs about Connection, for any number of goroutines and any lengths   *)
(* of frames, messages and buffers.                                        *)
(***************************************************************************)
EXTENDS Connection, SequenceTheorems, TLAPS

-----------------------------------------------------------------------------
(* The streams *)

\* Bytes(k, n) are the n bytes that follow the first k of a stream.
LEMMA BytesSeq ==
    ASSUME NEW k \in Nat, NEW n \in Nat
    PROVE  /\ Bytes(k, n) \in Seq(Nat)
           /\ Len(Bytes(k, n)) = n
           /\ \A i \in 1..n : Bytes(k, n)[i] = k + i
BY DEF Bytes

\* Cutting a sequence in two and joining the pieces gives it back.
LEMMA CutAndJoin ==
    ASSUME NEW d \in Seq(Nat), NEW n \in 0..Len(d)
    PROVE  /\ SubSeq(d, 1, n) \in Seq(Nat) /\ Len(SubSeq(d, 1, n)) = n
           /\ SubSeq(d, n + 1, Len(d)) \in Seq(Nat)
           /\ Len(SubSeq(d, n + 1, Len(d))) = Len(d) - n
           /\ SubSeq(d, 1, n) \o SubSeq(d, n + 1, Len(d)) = d
<1>1. /\ SubSeq(d, 1, n) \in Seq(Nat) /\ Len(SubSeq(d, 1, n)) = n
      /\ SubSeq(d, n + 1, Len(d)) \in Seq(Nat)
      /\ Len(SubSeq(d, n + 1, Len(d))) = Len(d) - n
  BY SubSeqProperties, LenProperties, ElementOfSeq
<1>2. SubSeq(d, 1, n) \o SubSeq(d, n + 1, Len(d)) = SubSeq(d, 1, Len(d))
  <2>1. /\ 1 \in 1..(Len(d) + 1) /\ n \in (1 - 1)..Len(d)
        /\ Len(d) \in n..Len(d)
    BY LenProperties
  <2> QED BY <2>1, ConcatAdjacentSubSeq, Zenon
<1>3. SubSeq(d, 1, Len(d)) = d
  BY SubSeqFull
<1> QED BY <1>1, <1>2, <1>3, Zenon

\* Where the brackets stand does not matter to a stream in three pieces.
LEMMA Reassociate ==
    ASSUME NEW w \in Seq(Nat), NEW a \in Seq(Nat), NEW b \in Seq(Nat)
    PROVE  (w \o a) \o b = w \o (a \o b)
OBVIOUS

\* Moving the head of what is buffered to the wire keeps the stream.
LEMMA MoveToWire ==
    ASSUME NEW w \in Seq(Nat), NEW d \in Seq(Nat), NEW n \in 0..Len(d)
    PROVE  (w \o SubSeq(d, 1, n)) \o SubSeq(d, n + 1, Len(d)) = w \o d
<1>1. PICK a \in Seq(Nat), b \in Seq(Nat) :
         a = SubSeq(d, 1, n) /\ b = SubSeq(d, n + 1, Len(d)) /\ a \o b = d
  BY CutAndJoin, ZenonT(40)
<1>2. (w \o a) \o b = w \o (a \o b)
  BY Reassociate, ZenonT(40)
<1> QED BY <1>1, <1>2, Zenon

\* A stream followed by its next bytes is a longer piece of the stream.
LEMMA BytesExtend ==
    ASSUME NEW p \in Nat, NEW k \in Nat
    PROVE  Bytes(0, p) \o Bytes(p, k) = Bytes(0, p + k)
<1>1. /\ Bytes(0, p) \o Bytes(p, k) \in Seq(Nat)
      /\ Len(Bytes(0, p) \o Bytes(p, k)) = p + k
      /\ \A i \in 1..(p + k) : (Bytes(0, p) \o Bytes(p, k))[i] = i
  <2> DEFINE a == Bytes(0, p)
             b == Bytes(p, k)
  <2>1. /\ a \in Seq(Nat) /\ Len(a) = p /\ \A i \in 1..p : a[i] = i
        /\ b \in Seq(Nat) /\ Len(b) = k /\ \A i \in 1..k : b[i] = p + i
    BY DEF Bytes
  <2> HIDE DEF a, b
  <2>2. /\ a \o b \in Seq(Nat) /\ Len(a \o b) = Len(a) + Len(b)
        /\ \A i \in 1..(Len(a) + Len(b)) :
              (a \o b)[i] = IF i <= Len(a) THEN a[i] ELSE b[i - Len(a)]
    BY <2>1, ConcatProperties, Zenon
  <2>3. \A i \in 1..(p + k) : (a \o b)[i] = i
    BY <2>1, <2>2
  <2> QED BY <2>1, <2>2, <2>3 DEF a, b
<1>2. /\ Bytes(0, p + k) \in Seq(Nat) /\ Len(Bytes(0, p + k)) = p + k
      /\ \A i \in 1..(p + k) : Bytes(0, p + k)[i] = i
  BY BytesSeq
<1> QED BY <1>1, <1>2, SeqEqual, Zenon

\* A part of the stream that starts at its beginning is a prefix of it.
LEMMA PrefixOfBytes ==
    ASSUME NEW w \in Seq(Nat), NEW o \in Seq(Nat), NEW p \in Nat,
           w \o o = Bytes(0, p)
    PROVE  w = Bytes(0, Len(w)) /\ Len(w) <= p
<1>0. /\ Len(w \o o) = Len(w) + Len(o)
      /\ \A i \in 1..(Len(w) + Len(o)) :
            (w \o o)[i] = IF i <= Len(w) THEN w[i] ELSE o[i - Len(w)]
  BY ConcatProperties, Zenon
<1>1. Len(w) \in Nat /\ Len(o) \in Nat /\ Len(w) + Len(o) = p
  BY <1>0 DEF Bytes
<1>2. \A i \in 1..Len(w) : w[i] = i
  <2> TAKE i \in 1..Len(w)
  <2>1. (w \o o)[i] = w[i]
    BY <1>0, <1>1
  <2>2. Bytes(0, p)[i] = i
    BY <1>1 DEF Bytes
  <2> QED BY <2>1, <2>2
<1>3. w = Bytes(0, Len(w))
  BY <1>1, <1>2, BytesSeq, SeqEqual
<1> QED BY <1>1, <1>3

-----------------------------------------------------------------------------
(* The output path *)

\* The part of the types that sendInLoop, handleWrite and handleClose touch.
OutTypes ==
    /\ connected \in BOOLEAN /\ opened \in BOOLEAN /\ registered \in BOOLEAN
    /\ interest \in {"none", "read", "readWrite"}
    /\ outBuffer \in Seq(Nat) /\ closes \in Nat
    /\ produced \in Nat /\ wire \in Seq(Nat)
    /\ acked \in 0..Len(wire) /\ Room \in 0..SndBuf

OutInv == OutTypes /\ OutputIntact /\ WriteInterest

\* A write takes no more than it is given and than the send buffer can hold.
LEMMA WriteBounded ==
    ASSUME NEW len \in Nat, NEW room \in Nat, NEW n \in WriteResults(len, room)
    PROVE  /\ n # Fatal => n \in Nat
           /\ Taken(n) \in Nat /\ Taken(n) <= len /\ Taken(n) <= room
BY DEF WriteResults, Taken, Fatal, Again

\* Bytes handed to the kernel keep the send buffer's accounts.
LEMMA WireGrows ==
    ASSUME OutTypes, NEW d \in Seq(Nat), NEW n \in 0..Len(d), n <= Room,
           wire' = wire \o SubSeq(d, 1, n), acked' = acked
    PROVE  wire' \in Seq(Nat) /\ acked' \in 0..Len(wire') /\ Room' \in 0..SndBuf
<1>1. SubSeq(d, 1, n) \in Seq(Nat) /\ Len(SubSeq(d, 1, n)) = n
  BY CutAndJoin
<1>2. wire' \in Seq(Nat) /\ Len(wire') = Len(wire) + n
  BY <1>1, ConcatProperties, Zenon DEF OutTypes
<1> QED
  BY <1>2, LengthsAssumption DEF OutTypes, Room

\* handleClose keeps the accounts when what the kernel got is a prefix of what
\* was produced.
LEMMA HandleCloseInv ==
    ASSUME OutTypes, handleClose,
           wire' \in Seq(Nat), acked' \in 0..Len(wire'), Room' \in 0..SndBuf,
           produced' \in Nat,
           wire' = Bytes(0, Len(wire')), Len(wire') <= produced'
    PROVE  OutInv'
<1>1. connected' \in BOOLEAN /\ registered' \in BOOLEAN
  BY Zenon DEF handleClose
<1>2. closes' \in Nat /\ UNCHANGED <<opened, interest, outBuffer>>
  BY DEF OutTypes, handleClose
<1>3. OutTypes'
  BY <1>1, <1>2 DEF OutTypes
<1>4. OutputIntact' /\ WriteInterest'
  BY DEF OutputIntact, WriteInterest, handleClose
<1> QED BY <1>3, <1>4 DEF OutInv

\* sendInLoop keeps the output stream whole and the write event in step with
\* outBuffer, whether it buffers, writes all, writes a part or closes.
LEMMA SendInLoopInv ==
    ASSUME OutInv, connected, NEW k \in 1..SendLen, sendInLoop(Bytes(produced, k)),
           acked' = acked
    PROVE  OutInv'
<1> DEFINE data == Bytes(produced, k)
<1>0. k \in Nat /\ produced \in Nat /\ produced' = produced + k
      /\ data \in Seq(Nat) /\ Len(data) = k
  BY LengthsAssumption DEF OutInv, OutTypes, Bytes, sendInLoop
<1>1. wire \o outBuffer = Bytes(0, produced) /\ Bytes(0, produced) \o data = Bytes(0, produced')
  BY <1>0, BytesExtend, Zenon DEF OutInv, OutputIntact
<1> HIDE DEF data
<1>2. CASE MustBuffer /\ outBuffer' = outBuffer \o data
           /\ UNCHANGED <<connected, opened, registered, interest, closes, wire>>
  <2>1. outBuffer' \in Seq(Nat) /\ outBuffer' # <<>>
    BY <1>0, <1>2 DEF OutInv, OutTypes, MustBuffer
  <2>2. wire' \o outBuffer' = Bytes(0, produced')
    <3>1. (wire \o outBuffer) \o data = wire \o (outBuffer \o data)
      BY <1>0, Reassociate, Zenon DEF OutInv, OutTypes
    <3> QED BY <1>1, <1>2, <3>1, Zenon
  <2>3. OutTypes'
    BY <1>0, <1>2, <2>1 DEF OutInv, OutTypes, Room
  <2> QED
    BY <1>2, <2>1, <2>2, <2>3 DEF OutInv, OutputIntact, WriteInterest, MustBuffer
<1>3. ASSUME outBuffer = <<>>, handleClose, UNCHANGED wire
      PROVE  OutInv'
  <2>1. wire = Bytes(0, Len(wire)) /\ Len(wire) <= produced
    BY <1>1, PrefixOfBytes, Zenon DEF OutInv, OutTypes
  <2>2. wire' = Bytes(0, Len(wire')) /\ Len(wire') <= produced'
    BY <1>0, <1>3, <2>1 DEF OutInv, OutTypes
  <2>3. /\ wire' \in Seq(Nat) /\ acked' \in 0..Len(wire') /\ Room' \in 0..SndBuf
        /\ produced' \in Nat
    BY <1>0, <1>3 DEF OutInv, OutTypes, Room
  <2> QED BY <1>3, <2>2, <2>3, HandleCloseInv DEF OutInv
<1>4. ASSUME outBuffer = <<>>, NEW n \in WriteResults(k, Room), n # Fatal,
             wire' = wire \o SubSeq(data, 1, n),
             outBuffer' = SubSeq(data, n + 1, Len(data)),
             interest' = IF outBuffer' = <<>> THEN interest ELSE EnableReadWrite,
             UNCHANGED <<connected, opened, registered, closes>>
      PROVE  OutInv'
  <2>1. n \in 0..Len(data) /\ n <= Room
    BY <1>0, <1>4, WriteBounded DEF Taken, OutInv, OutTypes
  <2>2. wire' \in Seq(Nat) /\ acked' \in 0..Len(wire') /\ Room' \in 0..SndBuf
    BY <1>0, <1>4, <2>1, WireGrows, Zenon DEF OutInv
  <2>3. outBuffer' \in Seq(Nat)
    BY <1>0, <1>4, <2>1, CutAndJoin
  <2>4. wire' \o outBuffer' = wire \o data
    BY <1>0, <1>4, <2>1, MoveToWire, Zenon DEF OutInv, OutTypes
  <2>5. wire = Bytes(0, produced)
    BY <1>1, <1>4, ConcatEmptySeq DEF OutInv, OutTypes
  <2>6. OutTypes'
    BY <1>0, <1>4, <2>2, <2>3 DEF OutInv, OutTypes, EnableReadWrite
  <2>7. OutputIntact'
    BY <1>1, <1>4, <2>4, <2>5, Zenon DEF OutputIntact
  <2>8. WriteInterest'
    BY <1>4 DEF OutInv, WriteInterest, EnableReadWrite
  <2> QED BY <2>6, <2>7, <2>8 DEF OutInv
<1> QED
  BY <1>0, <1>2, <1>3, <1>4, Zenon DEF sendInLoop, MustBuffer, data

\* handleWrite moves a prefix of outBuffer to the kernel and drops the write
\* event exactly when nothing is left; a failing write closes.
LEMMA HandleWriteInv ==
    ASSUME OutInv, connected, registered, handleWrite, acked' = acked
    PROVE  OutInv'
<1>0. OutTypes /\ wire \o outBuffer = Bytes(0, produced) /\ produced' = produced
  BY DEF OutInv, OutputIntact, handleWrite
<1>1. PICK first \in 1..Len(outBuffer) : \E n \in WriteResults(first, Room) :
        \E m \in SecondResults(first, n) : WriteDone(n, m)
  BY Zenon DEF handleWrite
<1>10. PICK n \in WriteResults(first, Room) : \E m \in SecondResults(first, n) : WriteDone(n, m)
  BY <1>1
<1>2. PICK m \in SecondResults(first, n) : WriteDone(n, m)
  BY <1>10
<1> DEFINE took == Taken(n) + Taken(m)
<1>3. took \in 0..Len(outBuffer) /\ took <= Room
  <2>1. Taken(n) \in Nat /\ Taken(n) <= first /\ Taken(n) <= Room
    BY <1>0, WriteBounded DEF OutTypes
  <2>2. CASE n = first /\ first < Len(outBuffer) /\ m # Fatal
    <3>1. Len(outBuffer) - first \in Nat /\ Room - n \in Nat /\ Taken(n) = n
      BY <1>0, <2>1, <2>2 DEF OutTypes, Taken, Fatal
    <3>2. m \in WriteResults(Len(outBuffer) - first, Room - n)
      BY <2>2 DEF SecondResults
    <3>3. Taken(m) \in Nat /\ Taken(m) <= Len(outBuffer) - first /\ Taken(m) <= Room - n
      BY <3>1, <3>2, WriteBounded
    <3> QED BY <1>0, <2>1, <2>2, <3>1, <3>3 DEF OutTypes
  <2>3. CASE ~(n = first /\ first < Len(outBuffer)) \/ m = Fatal
    <3>1. Taken(m) = 0
      BY <2>3 DEF SecondResults, Taken, Again
    <3> QED BY <1>0, <2>1, <3>1 DEF OutTypes
  <2> QED BY <2>2, <2>3
<1>4. wire' = wire \o SubSeq(outBuffer, 1, took)
  BY <1>2 DEF WriteDone
<1> HIDE DEF took
<1>5. wire' \in Seq(Nat) /\ acked' \in 0..Len(wire') /\ Room' \in 0..SndBuf
  BY <1>0, <1>3, <1>4, WireGrows, Zenon DEF OutTypes
<1>6. /\ SubSeq(outBuffer, took + 1, Len(outBuffer)) \in Seq(Nat)
      /\ wire' \o SubSeq(outBuffer, took + 1, Len(outBuffer)) = Bytes(0, produced)
  BY <1>0, <1>3, <1>4, MoveToWire, CutAndJoin, Zenon DEF OutTypes
<1>7. CASE handleClose
  <2>1. wire' = Bytes(0, Len(wire')) /\ Len(wire') <= produced
    BY <1>0, <1>5, <1>6, PrefixOfBytes, Zenon DEF OutTypes
  <2> QED BY <1>0, <1>5, <1>7, <2>1, HandleCloseInv DEF OutTypes
<1>8. CASE /\ outBuffer' = SubSeq(outBuffer, took + 1, Len(outBuffer))
           /\ interest' = IF outBuffer' = <<>> THEN EnableRead ELSE interest
           /\ UNCHANGED <<connected, opened, registered, closes>>
  <2>1. OutTypes'
    BY <1>0, <1>5, <1>6, <1>8, Zenon DEF OutTypes, EnableRead
  <2>2. OutputIntact'
    BY <1>0, <1>6, <1>8, Zenon DEF OutputIntact
  <2>3. outBuffer # <<>> /\ interest = "readWrite"
    BY <1>0 DEF OutInv, WriteInterest, OutTypes
  <2>4. WriteInterest'
    BY <1>8, <2>3 DEF WriteInterest, EnableRead
  <2> QED BY <2>1, <2>2, <2>4 DEF OutInv
<1> QED BY <1>2, <1>7, <1>8, Zenon DEF WriteDone, took

\* handleClose drops what is buffered, and what has been written stays a prefix
\* of the stream.
LEMMA CloseInv ==
    ASSUME OutInv, connected, handleClose, UNCHANGED <<wire, produced, acked>>
    PROVE  OutInv'
<1>1. wire = Bytes(0, Len(wire)) /\ Len(wire) <= produced
  BY PrefixOfBytes, Zenon DEF OutInv, OutTypes, OutputIntact
<1>2. wire' = Bytes(0, Len(wire')) /\ Len(wire') <= produced'
  BY <1>1
<1>3. /\ wire' \in Seq(Nat) /\ acked' \in 0..Len(wire') /\ Room' \in 0..SndBuf
      /\ produced' \in Nat
  BY DEF OutInv, OutTypes, Room
<1> QED BY <1>2, <1>3, HandleCloseInv DEF OutInv

\* The output invariant speaks of these variables only.
LEMMA OutUnchanged ==
    ASSUME OutInv,
           UNCHANGED <<connected, opened, registered, interest, outBuffer, closes,
                       wire, produced, acked>>
    PROVE  OutInv'
BY DEF OutInv, OutTypes, OutputIntact, WriteInterest, Room

-----------------------------------------------------------------------------
(* The invariant *)

RestTypes ==
    /\ inBufferLen \in Nat /\ outBufferLen \in Nat
    /\ tasks \in Seq(Tasks)
    /\ userPc \in [Users -> {"idle", "send", "close"}] /\ calls \in 0..MaxCalls
    /\ fin \in BOOLEAN /\ reset \in BOOLEAN /\ shutWr \in BOOLEAN

\* The closure that registers the connection runs first, once, and nobody has
\* the connection before it.
Opening ==
    /\ ~opened => /\ connected /\ ~registered /\ outBuffer = <<>>
                  /\ tasks = <<Task("connect", 0)>>
                  /\ \A u \in Users : userPc[u] = "idle"
    /\ opened => \A i \in 1..Len(tasks) : tasks[i].op # "connect"

InTypes ==
    /\ inBuffer \in Seq(Nat) /\ rcv \in Seq(Nat) /\ delivered \in Seq(Nat)
    /\ peerSent \in 0..MaxIn

InInv == InTypes /\ InputIntact

IndInv == OutInv /\ InInv /\ RestTypes /\ Opening

\* HandleEvent keeps the output path in order.
LEMMA HandleEventOut ==
    ASSUME OutInv, NEW ev, HandleEvent(ev)
    PROVE  OutInv'
<1>0. connected /\ registered /\ acked' = acked
  BY DEF HandleEvent
<1>1. CASE "err" \in ev /\ handleClose /\ UNCHANGED <<produced, wire>>
  BY <1>0, <1>1, CloseInv
<1>2. CASE handleWrite
  BY <1>0, <1>2, HandleWriteInv
<1>3. CASE handleRead
  <2>1. CASE handleClose /\ UNCHANGED <<produced, wire>>
    BY <1>0, <2>1, CloseInv
  <2>2. CASE UNCHANGED <<connected, opened, registered, interest, outBuffer,
                         closes, produced, wire>>
    BY <1>0, <2>2, OutUnchanged
  <2>3. ASSUME NEW k \in 1..SendLen, sendInLoop(Bytes(produced, k)) PROVE OutInv'
    BY <1>0, <2>3, SendInLoopInv
  <2> QED BY <1>3, <2>1, <2>2, <2>3 DEF handleRead, handleReadData, connVars
<1>4. CASE UNCHANGED <<connVars, produced, wire>>
  BY <1>0, <1>4, OutUnchanged DEF connVars
<1> QED BY <1>1, <1>2, <1>3, <1>4 DEF HandleEvent

\* The queued closures keep the output path in order.
LEMMA RunTaskOut ==
    ASSUME OutInv, RestTypes, Opening, RunTask
    PROVE  OutInv'
<1>0. /\ acked' = acked
      /\ Head(tasks) \in Tasks
      /\ 1 \in 1..Len(tasks) /\ Head(tasks) = tasks[1]
  BY DEF RunTask, peerVars, RestTypes
<1>1. CASE Head(tasks).op = "connect" /\ RunConnect
  <2>1. ~opened
    BY <1>0, <1>1 DEF Opening, OutInv, OutTypes
  <2>2. connected /\ outBuffer = <<>>
    BY <2>1 DEF Opening
  <2>3. OutTypes'
    BY <1>0, <1>1, Zenon DEF RunConnect, OutInv, OutTypes, Room
  <2>4. OutputIntact'
    BY <1>1, <2>2 DEF RunConnect, OutInv, OutputIntact
  <2>5. WriteInterest'
    BY <1>1, <2>1, <2>2, Zenon DEF RunConnect, WriteInterest, Opening
  <2> QED BY <2>3, <2>4, <2>5 DEF OutInv
<1>2. CASE Head(tasks).op = "send" /\ RunSend(Head(tasks).len)
  <2>1. Head(tasks).len \in 1..SendLen
    BY <1>0, <1>2 DEF Tasks
  <2>2. CASE connected
    BY <1>0, <1>2, <2>1, <2>2, SendInLoopInv DEF RunSend
  <2>3. CASE ~connected
    BY <1>0, <1>2, <2>3, OutUnchanged DEF RunSend, connVars
  <2> QED BY <2>2, <2>3
<1>3. CASE RunClose
  <2>1. CASE connected
    BY <1>0, <1>3, <2>1, CloseInv DEF RunClose
  <2>2. CASE ~connected
    BY <1>0, <1>3, <2>2, OutUnchanged DEF RunClose, connVars
  <2> QED BY <2>1, <2>2
<1> QED BY <1>1, <1>2, <1>3 DEF RunTask

\* Every step of the loop, the users and the peer keeps the output invariant.
LEMMA OutStep == IndInv /\ [Next]_vars => OutInv'
<1> SUFFICES ASSUME IndInv, [Next]_vars PROVE OutInv'
  OBVIOUS
<1> USE DEF IndInv
<1>1. CASE PollEvent
  BY <1>1, HandleEventOut DEF PollEvent
<1>2. CASE RunTask
  BY <1>2, RunTaskOut
<1>3. ASSUME NEW u \in Users, TestConnected(u) \/ QueueCall(u) PROVE OutInv'
  BY <1>3, OutUnchanged DEF TestConnected, QueueCall, unchangedByUsers, connVars, peerVars
<1>4. CASE ShutdownWrite
  BY <1>4, OutUnchanged DEF ShutdownWrite, unchangedByUsers, connVars, peerVars
<1>5. CASE PeerRead
  BY <1>5, LengthsAssumption DEF PeerRead, unchangedByPeer, connVars, OutInv,
     OutTypes, OutputIntact, WriteInterest, Room
<1>6. CASE PeerSend \/ PeerClose \/ PeerReset
  BY <1>6, OutUnchanged DEF PeerSend, PeerClose, PeerReset, unchangedByPeer, connVars
<1>7. CASE UNCHANGED vars
  BY <1>7, OutUnchanged DEF vars, connVars, peerVars
<1> QED
  BY <1>1, <1>2, <1>3, <1>4, <1>5, <1>6, <1>7 DEF Next

-----------------------------------------------------------------------------
(* The input path *)

\* The whole frames in a buffer fit in it and leave less than one frame.
LEMMA WholeFrames ==
    ASSUME NEW len \in Nat
    PROVE  /\ (len \div FrameLen) * FrameLen \in 0..len
           /\ len - (len \div FrameLen) * FrameLen < FrameLen
BY LengthsAssumption

\* A read hands on a whole number of frames and keeps the rest, less than one.
LEMMA ReadDataIn ==
    ASSUME InInv, NEW n \in 1..Len(rcv), handleReadData(n), peerSent' = peerSent
    PROVE  InInv'
<1> DEFINE head  == SubSeq(rcv, 1, n)
           tail  == SubSeq(rcv, n + 1, Len(rcv))
           input == inBuffer \o head
           used  == (Len(input) \div FrameLen) * FrameLen
<1>0. rcv \in Seq(Nat) /\ inBuffer \in Seq(Nat) /\ delivered \in Seq(Nat)
  BY DEF InInv, InTypes
<1>1. n \in 0..Len(rcv)
  BY <1>0
<1>2. head \in Seq(Nat) /\ tail \in Seq(Nat) /\ head \o tail = rcv
  BY <1>0, <1>1, CutAndJoin, Zenon
<1>3. /\ rcv' = tail
      /\ delivered' = delivered \o SubSeq(input, 1, used)
      /\ inBuffer' = SubSeq(input, used + 1, Len(input))
  BY DEF handleReadData, Unread
<1> HIDE DEF head, tail
<1>4. input \in Seq(Nat) /\ Len(input) \in Nat
  BY <1>0, <1>2, ConcatProperties
<1>5. used \in 0..Len(input) /\ Len(input) - used < FrameLen
  BY <1>4, WholeFrames
<1>6. (delivered \o inBuffer) \o rcv = Bytes(0, peerSent)
  BY DEF InInv, InputIntact
<1>7. (delivered \o input) \o tail = (delivered \o inBuffer) \o (head \o tail)
  <2>1. (delivered \o inBuffer) \o head = delivered \o input
    BY <1>0, <1>2, Reassociate, ZenonT(40)
  <2>2. delivered \o inBuffer \in Seq(Nat)
    BY <1>0, ConcatProperties
  <2>3. ((delivered \o inBuffer) \o head) \o tail = (delivered \o inBuffer) \o (head \o tail)
    BY <1>2, <2>2, Reassociate, Zenon
  <2> QED BY <2>1, <2>3, Zenon
<1> HIDE DEF input, used
<1>8. delivered' \o inBuffer' = delivered \o input
  BY <1>0, <1>3, <1>4, <1>5, MoveToWire, Zenon
<1>9. /\ delivered' \in Seq(Nat) /\ inBuffer' \in Seq(Nat)
      /\ Len(inBuffer') = Len(input) - used
  BY <1>0, <1>3, <1>4, <1>5, CutAndJoin, ConcatProperties, Zenon
<1>10. (delivered' \o inBuffer') \o rcv' = Bytes(0, peerSent')
  BY <1>2, <1>3, <1>6, <1>7, <1>8, Zenon
<1> QED
  BY <1>2, <1>3, <1>5, <1>9, <1>10, Zenon DEF InInv, InTypes, InputIntact

\* The input invariant speaks of these variables only.
LEMMA InUnchanged ==
    ASSUME InInv, UNCHANGED <<inBuffer, rcv, delivered, peerSent>>
    PROVE  InInv'
BY DEF InInv, InTypes, InputIntact

\* A byte of the peer joins the end of the input stream.
LEMMA PeerSendIn ==
    ASSUME InInv, PeerSend
    PROVE  InInv'
<1> DEFINE before == delivered \o inBuffer
<1>0. /\ rcv \in Seq(Nat) /\ before \in Seq(Nat) /\ peerSent \in Nat
      /\ before \o rcv = Bytes(0, peerSent)
  BY LengthsAssumption DEF InInv, InTypes, InputIntact
<1>1. /\ peerSent' = peerSent + 1 /\ peerSent' \in 0..MaxIn
      /\ rcv' = Append(rcv, peerSent + 1)
      /\ UNCHANGED <<delivered, inBuffer>>
  BY LengthsAssumption DEF PeerSend, unchangedByPeer, connVars, InInv, InTypes
<1> HIDE DEF before
<1>2. Bytes(peerSent, 1) = <<peerSent + 1>>
  BY <1>0 DEF Bytes
<1>3. rcv' = rcv \o Bytes(peerSent, 1)
  <2>1. peerSent + 1 \in Nat
    BY <1>0
  <2>2. Append(rcv, peerSent + 1) = rcv \o <<peerSent + 1>>
    BY <1>0, <2>1, AppendIsConcat, Zenon
  <2> QED BY <1>1, <1>2, <2>2, Zenon
<1>4. before \o rcv' = (before \o rcv) \o Bytes(peerSent, 1)
  BY <1>0, <1>3, BytesSeq, Reassociate, Zenon
<1>5. before \o rcv' = Bytes(0, peerSent')
  BY <1>0, <1>1, <1>4, BytesExtend, Zenon
<1>6. (delivered' \o inBuffer') \o rcv' = Bytes(0, peerSent')
  BY <1>1, <1>5, Zenon DEF before
<1>7. rcv' \in Seq(Nat)
  BY <1>0, <1>1
<1> QED
  BY <1>1, <1>6, <1>7, Zenon DEF InInv, InTypes, InputIntact

\* Every step keeps the input invariant; only handleRead and the peer touch it.
LEMMA InStep == IndInv /\ [Next]_vars => InInv'
<1> SUFFICES ASSUME InInv, [Next]_vars PROVE InInv'
  BY DEF IndInv
<1>1. ASSUME NEW ev, HandleEvent(ev) PROVE InInv'
  <2>1. CASE handleRead
    <3>1. ASSUME NEW n \in 1..Len(rcv), handleReadData(n) PROVE InInv'
      BY <1>1, <3>1, ReadDataIn DEF HandleEvent
    <3>2. CASE UNCHANGED <<inBuffer, rcv, delivered>>
      BY <1>1, <3>2, InUnchanged DEF HandleEvent
    <3> QED BY <2>1, <3>1, <3>2 DEF handleRead, connVars
  <2>2. CASE UNCHANGED <<inBuffer, rcv, delivered>>
    BY <1>1, <2>2, InUnchanged DEF HandleEvent
  <2> QED BY <1>1, <2>1, <2>2, Zenon DEF HandleEvent, handleWrite, connVars
<1>2. CASE RunTask
  BY <1>2, InUnchanged DEF RunTask, RunConnect, RunSend, RunClose, connVars, peerVars
<1>3. ASSUME NEW u \in Users, TestConnected(u) \/ QueueCall(u) PROVE InInv'
  BY <1>3, InUnchanged DEF TestConnected, QueueCall, unchangedByUsers, connVars, peerVars
<1>4. CASE ShutdownWrite
  BY <1>4, InUnchanged DEF ShutdownWrite, unchangedByUsers, connVars, peerVars
<1>5. CASE PeerSend
  BY <1>5, PeerSendIn
<1>6. CASE PeerRead \/ PeerClose \/ PeerReset
  BY <1>6, InUnchanged DEF PeerRead, PeerClose, PeerReset, unchangedByPeer, connVars
<1>7. CASE UNCHANGED vars
  BY <1>7, InUnchanged DEF vars, connVars, peerVars
<1> QED
  BY <1>1, <1>2, <1>3, <1>4, <1>5, <1>6, <1>7 DEF Next, PollEvent

-----------------------------------------------------------------------------
(* The rest of the state *)

\* Every step keeps the types of the variables that neither stream involves.
LEMMA RestStep == IndInv /\ [Next]_vars => RestTypes'
<1> SUFFICES ASSUME IndInv, [Next]_vars PROVE RestTypes'
  OBVIOUS
<1>0. RestTypes /\ InTypes /\ OutTypes /\ OutTypes' /\ InTypes'
  BY OutStep, InStep DEF IndInv, OutInv, InInv
<1>1. ASSUME NEW ev, HandleEvent(ev) PROVE RestTypes'
  <2>1. inBufferLen' \in Nat /\ outBufferLen' \in Nat
    <3>1. Len(inBuffer') \in Nat /\ Len(outBuffer') \in Nat
      <4>1. inBuffer' \in Seq(Nat)
        BY <1>0 DEF InTypes
      <4>2. outBuffer' \in Seq(Nat)
        BY <1>0 DEF OutTypes
      <4> QED BY <4>1, <4>2
    <3>2. \/ inBufferLen' = Len(inBuffer') /\ outBufferLen' = Len(outBuffer')
          \/ UNCHANGED <<inBufferLen, outBufferLen>>
      BY <1>1 DEF HandleEvent, lenVars
    <3> QED BY <1>0, <3>1, <3>2 DEF RestTypes
  <2>2. reset' \in BOOLEAN
    BY <1>0, <1>1, Zenon DEF HandleEvent, handleRead, handleWrite, WriteDone, RestTypes
  <2>3. UNCHANGED <<tasks, userPc, calls, fin, shutWr>>
    BY <1>1 DEF HandleEvent, userVars
  <2> QED BY <1>0, <2>1, <2>2, <2>3 DEF RestTypes
<1>2. CASE RunTask
  BY <1>0, <1>2 DEF RunTask, lenVars, userVars, peerVars, RestTypes
<1>3. ASSUME NEW u \in Users, TestConnected(u) PROVE RestTypes'
  <2>1. calls' \in 0..MaxCalls
    BY <1>0, <1>3, LengthsAssumption DEF TestConnected, RestTypes
  <2>2. userPc' \in [Users -> {"idle", "send", "close"}]
    BY <1>0, <1>3 DEF TestConnected, RestTypes
  <2> QED
    BY <1>0, <1>3, <2>1, <2>2
    DEF TestConnected, RestTypes, unchangedByUsers, lenVars, peerVars
<1>4. ASSUME NEW u \in Users, QueueCall(u) PROVE RestTypes'
  <2>1. userPc' \in [Users -> {"idle", "send", "close"}]
    BY <1>0, <1>4 DEF QueueCall, RestTypes
  <2>2. tasks' \in Seq(Tasks)
    <3>1. userPc[u] \in {"send", "close"}
      BY <1>0, <1>4 DEF QueueCall, RestTypes
    <3>2. PICK len \in IF userPc[u] = "send" THEN 1..SendLen ELSE {0} :
            tasks' = Append(tasks, Task(userPc[u], len))
      BY <1>4 DEF QueueCall
    <3>3. Task(userPc[u], len) \in Tasks
      BY <3>1 DEF Task, Tasks
    <3> QED BY <1>0, <3>2, <3>3 DEF RestTypes
  <2> QED
    BY <1>0, <1>4, <2>1, <2>2
    DEF QueueCall, RestTypes, unchangedByUsers, lenVars, peerVars
<1>5. CASE ShutdownWrite
  BY <1>0, <1>5 DEF ShutdownWrite, RestTypes, unchangedByUsers, lenVars, peerVars, userVars
<1>6. CASE PeerSend
  BY <1>0, <1>6 DEF PeerSend, RestTypes, unchangedByPeer, lenVars, userVars
<1>7. CASE PeerRead
  BY <1>0, <1>7 DEF PeerRead, RestTypes, unchangedByPeer, lenVars, userVars
<1>8. CASE PeerClose
  BY <1>0, <1>8 DEF PeerClose, RestTypes, unchangedByPeer, lenVars, userVars
<1>9. CASE PeerReset
  BY <1>0, <1>9 DEF PeerReset, RestTypes, unchangedByPeer, lenVars, userVars
<1>10. CASE UNCHANGED vars
  BY <1>0, <1>10 DEF vars, RestTypes, lenVars, userVars, peerVars
<1> QED
  BY <1>1, <1>2, <1>3, <1>4, <1>5, <1>6, <1>7, <1>8, <1>9, <1>10 DEF Next, PollEvent

\* The invariant of a connection being opened speaks of these variables only.
LEMMA OpeningUnchanged ==
    ASSUME Opening, UNCHANGED <<connected, opened, registered, outBuffer, tasks, userPc>>
    PROVE  Opening'
BY DEF Opening

\* Every step keeps the order in which NewConnection, addConnection and the
\* users' closures come.
LEMMA OpeningStep == IndInv /\ [Next]_vars => Opening'
<1> SUFFICES ASSUME IndInv, [Next]_vars PROVE Opening'
  OBVIOUS
<1>0. Opening /\ RestTypes /\ opened \in BOOLEAN
  BY DEF IndInv, OutInv, OutTypes
<1>1. ASSUME NEW ev, HandleEvent(ev) PROVE Opening'
  <2>1. opened /\ UNCHANGED <<tasks, opened>>
    BY <1>0, <1>1, Zenon
       DEF HandleEvent, Opening, handleClose, handleWrite, WriteDone, handleRead,
                      handleReadData, sendInLoop, connVars
  <2> QED BY <1>0, <2>1, Zenon DEF Opening
<1>2. CASE RunTask
  <2>1. tasks \in Seq(Tasks) /\ tasks # <<>> /\ tasks' = Tail(tasks)
    BY <1>0, <1>2 DEF RunTask, RestTypes
  <2>2. CASE ~opened
    <3>1. opened' = TRUE
      <4>1. Head(tasks).op = "connect"
        BY <1>0, <2>2 DEF Opening, Task
      <4> QED BY <1>2, <4>1 DEF RunTask, RunConnect
    <3>2. tasks' = <<>>
      BY <1>0, <2>1, <2>2 DEF Opening
    <3> QED BY <3>1, <3>2 DEF Opening
  <2>3. CASE opened
    <3>1. Head(tasks).op # "connect"
      BY <1>0, <2>1, <2>3 DEF Opening
    <3>2. opened' = opened
      BY <1>2, <3>1 DEF RunTask, RunSend, RunClose, sendInLoop, handleClose, connVars
    <3>3. \A i \in 1..Len(tasks') : tasks'[i].op # "connect"
      BY <1>0, <2>1, <2>3 DEF Opening
    <3> QED BY <2>3, <3>2, <3>3 DEF Opening
  <2> QED BY <1>0, <2>2, <2>3
<1>3. ASSUME NEW u \in Users, TestConnected(u) PROVE Opening'
  BY <1>0, <1>3 DEF TestConnected, Opening, unchangedByUsers, connVars
<1>4. ASSUME NEW u \in Users, QueueCall(u) PROVE Opening'
  <2>1. opened /\ opened' = opened
    BY <1>0, <1>4 DEF QueueCall, Opening, unchangedByUsers, connVars
  <2>2. PICK len : tasks' = Append(tasks, Task(userPc[u], len))
    BY <1>4 DEF QueueCall
  <2>3. userPc[u] # "connect"
    BY <1>0 DEF RestTypes
  <2>4. \A i \in 1..Len(tasks') : tasks'[i] = IF i <= Len(tasks) THEN tasks[i] ELSE Task(userPc[u], len)
    BY <1>0, <2>2 DEF RestTypes
  <2>5. Len(tasks) \in Nat /\ Len(tasks') = Len(tasks) + 1
    BY <1>0, <2>2 DEF RestTypes
  <2>6. \A i \in 1..Len(tasks') : tasks'[i].op # "connect"
    BY <1>0, <2>1, <2>3, <2>4, <2>5 DEF Opening, Task
  <2> QED BY <2>1, <2>6 DEF Opening
<1>5. CASE ShutdownWrite
  BY <1>0, <1>5, OpeningUnchanged DEF ShutdownWrite, unchangedByUsers, connVars, userVars
<1>6. CASE PeerSend \/ PeerRead \/ PeerClose \/ PeerReset
  BY <1>0, <1>6, OpeningUnchanged
  DEF PeerSend, PeerRead, PeerClose, PeerReset, unchangedByPeer, connVars, userVars
<1>7. CASE UNCHANGED vars
  BY <1>0, <1>7, OpeningUnchanged DEF vars, connVars, userVars
<1> QED
  BY <1>1, <1>2, <1>3, <1>4, <1>5, <1>6, <1>7 DEF Next, PollEvent

\* NewConnection makes a connection that satisfies the inductive invariant.
LEMMA InitInd == Init => IndInv
<1> SUFFICES ASSUME Init PROVE IndInv
  OBVIOUS
<1>1. Bytes(0, 0) = <<>>
  BY DEF Bytes
<1>2. OutTypes
  <2>1. connected \in BOOLEAN /\ opened \in BOOLEAN /\ registered \in BOOLEAN
    BY Zenon DEF Init
  <2>2. /\ interest \in {"none", "read", "readWrite"} /\ closes \in Nat
        /\ outBuffer \in Seq(Nat) /\ wire \in Seq(Nat) /\ produced \in Nat
        /\ acked \in 0..Len(wire) /\ Room \in 0..SndBuf
    BY LengthsAssumption DEF Init, Room
  <2> QED BY <2>1, <2>2 DEF OutTypes
<1>3. OutputIntact /\ WriteInterest
  BY <1>1 DEF Init, OutputIntact, WriteInterest
<1>4. InTypes
  BY LengthsAssumption DEF Init, InTypes
<1>5. InputIntact
  BY <1>1, LengthsAssumption DEF Init, InputIntact
<1>6. Opening
  BY DEF Init, Opening
<1>7. tasks \in Seq(Tasks)
  BY DEF Init, Task, Tasks
<1>8. RestTypes
  <2>1. fin \in BOOLEAN /\ reset \in BOOLEAN /\ shutWr \in BOOLEAN
    BY Zenon DEF Init
  <2>2. /\ inBufferLen \in Nat /\ outBufferLen \in Nat /\ calls \in 0..MaxCalls
        /\ userPc \in [Users -> {"idle", "send", "close"}]
    BY LengthsAssumption DEF Init
  <2> QED BY <1>7, <2>1, <2>2 DEF RestTypes
<1> QED BY <1>2, <1>3, <1>4, <1>5, <1>6, <1>8 DEF IndInv, OutInv, InInv

\* The inductive invariant holds in every state of a connection's life.
LEMMA IndInvHolds == Spec => []IndInv
<1>1. IndInv /\ [Next]_vars => IndInv'
  BY OutStep, InStep, RestStep, OpeningStep DEF IndInv
<1> QED BY InitInd, <1>1, PTL DEF Spec

-----------------------------------------------------------------------------
(* The theorems *)

\* Every variable keeps its type; in particular the kernel never accepts more
\* than its send buffer holds.
THEOREM TypeCorrect == Spec => []TypeOK
<1>1. IndInv => TypeOK
  BY DEF IndInv, OutInv, OutTypes, InInv, InTypes, RestTypes, TypeOK
<1> QED BY IndInvHolds, <1>1, PTL

\* Output is neither lost, repeated nor reordered by sendInLoop's and
\* handleWrite's partial writes.
THEOREM OutputStaysIntact == Spec => []OutputIntact
<1>1. IndInv => OutputIntact
  BY DEF IndInv, OutInv
<1> QED BY IndInvHolds, <1>1, PTL

\* Input is neither lost, repeated nor reordered between the kernel, inBuffer
\* and OnMessage, and no complete frame stays behind.
THEOREM InputStaysIntact == Spec => []InputIntact
<1>1. IndInv => InputIntact
  BY DEF IndInv, InInv
<1> QED BY IndInvHolds, <1>1, PTL

\* The write event is enabled exactly while there is buffered output.
THEOREM WriteInterestInStep == Spec => []WriteInterest
<1>1. IndInv => WriteInterest
  BY DEF IndInv, OutInv
<1> QED BY IndInvHolds, <1>1, PTL

\* No step after handleClose changes the connection, calls a callback or
\* writes to the fd.
THEOREM ClosedStaysClosed == Spec => ClosedIsFinal
<1> DEFINE Frozen == UNCHANGED <<connVars, lenVars, delivered, produced, wire>>
<1>1. IndInv /\ [Next]_vars => [~connected => Frozen]_vars
  <2> SUFFICES ASSUME IndInv, Next, ~connected PROVE Frozen
    BY DEF Frozen
  <2>0. opened
    BY DEF IndInv, Opening, OutInv, OutTypes
  <2>1. CASE PollEvent
    BY <2>1 DEF PollEvent, HandleEvent
  <2>2. CASE RunTask
    <3>1. Head(tasks).op # "connect"
      BY <2>0, <2>2 DEF RunTask, IndInv, Opening, RestTypes
    <3> QED BY <2>2, <3>1 DEF RunTask, RunSend, RunClose, Frozen
  <2>3. CASE \E u \in Users : TestConnected(u) \/ QueueCall(u)
    BY <2>3 DEF TestConnected, QueueCall, unchangedByUsers, Frozen
  <2>4. CASE ShutdownWrite
    BY <2>4 DEF ShutdownWrite
  <2>5. CASE PeerSend \/ PeerRead \/ PeerClose \/ PeerReset
    BY <2>5 DEF PeerSend, PeerRead, PeerClose, PeerReset, unchangedByPeer, Frozen
  <2> QED BY <2>1, <2>2, <2>3, <2>4, <2>5 DEF Next
<1>2. Spec => [][~connected => Frozen]_vars
  BY IndInvHolds, <1>1, PTL DEF Spec
<1> QED BY <1>2 DEF ClosedIsFinal

\* A write fails for good only after a reset or a local shutdown.
LEMMA FatalWrites ==
    ASSUME NEW len \in Nat, NEW room \in Nat, Fatal \in WriteResults(len, room)
    PROVE  reset \/ shutWr
BY DEF WriteResults, Fatal, Again

\* handleWrite closes the connection only when a write has failed.
LEMMA WriteCloses ==
    ASSUME OutTypes, handleWrite, connected, ~connected', ~reset'
    PROVE  shutWr
<1>1. PICK first \in 1..Len(outBuffer) : \E n \in WriteResults(first, Room) :
        \E m \in SecondResults(first, n) : WriteDone(n, m)
  BY Zenon DEF handleWrite
<1>2. PICK n \in WriteResults(first, Room) : \E m \in SecondResults(first, n) : WriteDone(n, m)
  BY <1>1
<1>3. PICK m \in SecondResults(first, n) : WriteDone(n, m)
  BY <1>2
<1>4. n = Fatal /\ ~reset
  BY <1>3, Zenon DEF WriteDone
<1> QED BY <1>4, FatalWrites DEF OutTypes

\* The loop ends a healthy connection only at the peer's end of file, when all
\* input has been delivered or kept and all output written.
THEOREM EofEndsGracefully == Spec => EofIsGraceful
<1> DEFINE Ends == connected /\ ~connected' /\ ~reset' /\ ~shutWr /\ tasks' = tasks
           Graceful == fin /\ rcv = <<>> /\ Len(wire) = produced
<1>1. IndInv /\ [Next]_vars => [Ends => Graceful]_vars
  <2> SUFFICES ASSUME IndInv, Next, Ends PROVE Graceful
    OBVIOUS
  <2>0. OutTypes /\ Len(outBuffer) \in Nat /\ Room \in Nat
    BY DEF IndInv, OutInv, OutTypes
  <2>1. ASSUME NEW ev \in Reports, HandleEvent(ev) PROVE Graceful
    <3>1. CASE "err" \in ev
      <4>1. reset
        BY <3>1 DEF Reports
      <4> QED BY <2>1, <3>1, <4>1, Zenon DEF HandleEvent
    <3>2. ASSUME handleWrite PROVE FALSE
      BY <2>0, <3>2, WriteCloses
    <3>3. ASSUME handleRead, outBuffer = <<>> PROVE Graceful
      <4>1. ~reset
        BY <3>3 DEF handleRead
      <4>2. ASSUME NEW k \in 1..SendLen, sendInLoop(Bytes(produced, k)) PROVE FALSE
        <5>1. Fatal \in WriteResults(Len(Bytes(produced, k)), Room)
          BY <4>2, Zenon DEF sendInLoop
        <5>2. Len(Bytes(produced, k)) \in Nat
          BY <2>0, LengthsAssumption DEF OutTypes, Bytes
        <5> QED BY <2>0, <4>1, <5>1, <5>2, FatalWrites
      <4>3. ReadFails
        BY <3>3, <4>2, Zenon DEF handleRead, handleReadData, connVars
      <4>4. wire \o outBuffer = Bytes(0, produced)
        BY DEF IndInv, OutInv, OutputIntact
      <4>5. wire = Bytes(0, produced)
        BY <2>0, <3>3, <4>4, ConcatEmptySeq DEF OutTypes
      <4>6. Len(wire) = produced
        BY <2>0, <4>5 DEF OutTypes, Bytes
      <4> QED BY <4>1, <4>3, <4>6 DEF ReadFails
    <3> QED BY <2>1, <3>1, <3>2, <3>3, Zenon DEF HandleEvent, connVars
  <2>2. ASSUME RunTask PROVE FALSE
    BY <2>2 DEF RunTask, IndInv, RestTypes
  <2>3. CASE \E u \in Users : TestConnected(u) \/ QueueCall(u)
    BY <2>3, Zenon DEF TestConnected, QueueCall, unchangedByUsers, connVars
  <2>4. CASE ShutdownWrite
    BY <2>4 DEF ShutdownWrite, unchangedByUsers, connVars
  <2>5. CASE PeerSend \/ PeerRead \/ PeerClose \/ PeerReset
    BY <2>5, Zenon DEF PeerSend, PeerRead, PeerClose, PeerReset, unchangedByPeer, connVars
  <2> QED BY <2>1, <2>2, <2>3, <2>4, <2>5 DEF Next, PollEvent
<1>2. Spec => [][Ends => Graceful]_vars
  BY IndInvHolds, <1>1, PTL DEF Spec
<1> QED BY <1>2 DEF EofIsGraceful
=============================================================================
