------------------------------ MODULE Framing ------------------------------
(***************************************************************************)
(* The protocols that cut a byte stream into messages: DefaultProtocol of  *)
(* protocol.go, the protobuf plug-in and the length-prefixed protocol of   *)
(* example/protocol.                                                       *)
(*                                                                         *)
(* A buffer is a sequence of bytes.  The bytes of an encoded integer each  *)
(* stand for the whole number, so that decoding one needs only its first   *)
(* byte, but its width counts: a number too large for it is truncated.     *)
(***************************************************************************)
EXTENDS Integers, Sequences

CONSTANTS
    LengthWidth,      \* bytes of the length field; 4 in the code
    TypeLenWidth      \* bytes of protobuf's type length; 2 in the code

ASSUME WidthAssumption == LengthWidth \in Nat \ {0} /\ TypeLenWidth \in Nat \ {0}

-----------------------------------------------------------------------------
(* Sequences.  Concat and IsPrefix are defined here and not taken from       *)
(* SequencesExt, which would put Bags in front of every proof obligation.    *)

\* The sequences of seqs, one after the other.
Concat(seqs) ==
    LET joined[n \in 0..Len(seqs)] ==
            IF n = 0 THEN <<>> ELSE joined[n - 1] \o seqs[n]
    IN  joined[Len(seqs)]

IsPrefix(s, t) == Len(s) <= Len(t) /\ s = SubSeq(t, 1, Len(s))

-----------------------------------------------------------------------------
Protocols == {"default", "protobuf", "example"}

\* How many numbers a field of width bytes tells apart.
Modulus(width) ==
    LET values[n \in 0..width] == IF n = 0 THEN 1 ELSE 256 * values[n - 1]
    IN  values[width]

\* The conversion to uint32 or uint16, and the encoding of the result.
PutUint(n, width) == [i \in 1..width |-> n % Modulus(width)]
PeekUint(buffer)  == Head(buffer)
Peek(buffer, n)     == SubSeq(buffer, 1, n)
Retrieve(buffer, n) == SubSeq(buffer, n + 1, Len(buffer))

-----------------------------------------------------------------------------
(* UnPacket: the context, the data, and what stays in the buffer.  NoCtx is  *)
(* a nil context.                                                            *)

NoCtx == <<-1>>
NotYet(buffer) == [ctx |-> NoCtx, data |-> <<>>, rest |-> buffer]

DefaultUnPacket(buffer) == [ctx |-> NoCtx, data |-> buffer, rest |-> <<>>]

\* Mutant: the header is not skipped.
ExampleUnPacketKeepsHeader(buffer) ==
    LET body == Retrieve(buffer, LengthWidth)
    IN  IF Len(buffer) > LengthWidth /\ Len(body) >= PeekUint(buffer)
        THEN [ctx |-> NoCtx, data |-> Peek(buffer, PeekUint(buffer)),
              rest |-> Retrieve(body, PeekUint(buffer))]
        ELSE NotYet(buffer)

ExampleUnPacket(buffer) ==
    LET body == Retrieve(buffer, LengthWidth)
    IN  IF Len(buffer) > LengthWidth /\ Len(body) >= PeekUint(buffer)
        THEN [ctx |-> NoCtx, data |-> Peek(body, PeekUint(buffer)),
              rest |-> Retrieve(body, PeekUint(buffer))]
        ELSE NotYet(buffer)

ProtobufUnPacket(buffer) ==
    LET length  == PeekUint(buffer)
        body    == Retrieve(buffer, LengthWidth)
        typeLen == PeekUint(body)
        payload == Retrieve(body, TypeLenWidth)
    IN  IF Len(buffer) > LengthWidth + TypeLenWidth /\ Len(body) >= length
        THEN [ctx  |-> Peek(payload, typeLen),
              data |-> SubSeq(payload, typeLen + 1, length - TypeLenWidth),
              rest |-> Retrieve(body, length)]
        ELSE NotYet(buffer)

UnPacket(protocol, buffer) ==
    CASE protocol = "default"  -> DefaultUnPacket(buffer)
      [] protocol = "protobuf" -> ProtobufUnPacket(buffer)
      [] protocol = "example"  -> ExampleUnPacket(buffer)

Packet(protocol, data) ==
    IF protocol = "example" THEN PutUint(Len(data), LengthWidth) \o data ELSE data

-----------------------------------------------------------------------------
(* What a client sends for a message, a type and data. *)

PackMessage(m) ==
    PutUint(Len(m.data) + Len(m.type) + TypeLenWidth, LengthWidth)
        \o PutUint(Len(m.type), TypeLenWidth) \o m.type \o m.data

Encode(protocol, m) ==
    IF protocol = "protobuf" THEN PackMessage(m) ELSE Packet(protocol, m.data)

\* The fields are wide enough for the message.
Fits(m) ==
    /\ Len(m.type) < Modulus(TypeLenWidth)
    /\ Len(m.data) + Len(m.type) + TypeLenWidth < Modulus(LengthWidth)

EncodeAll(protocol, msgs) ==
    Concat([i \in DOMAIN msgs |-> Encode(protocol, msgs[i])])
=============================================================================
