------------------------------ MODULE Framing ------------------------------
(***************************************************************************)
(* How GenericConnection turns the byte stream of a connection back into   *)
(* payloads: NetworkPayload.cpp, Range.hpp and the Process... functions of *)
(* GenericConnection.cpp.                                                  *)
(*                                                                         *)
(* A byte is a pair <<frame, position>>: the properties are about which    *)
(* bytes end up in which payload, not about their values.  One step is one *)
(* frame written by the peer, one read, or one call of ProcessDataGeneric. *)
(***************************************************************************)
EXTENDS Integers, Sequences

CONSTANTS
    HeaderLength,     \* NetworkPayload::headerLength (6)
    ReadBufferSize,   \* READ_BUFFER_SIZE (2048)
    MaxPayload,       \* payloadMaxAllowedLength (8 000 000)
    MaxFrames,        \* bound on the frames the peer sends
    MaxAnnounced      \* bound on the length a frame announces

ASSUME FramingAssumption ==
    /\ HeaderLength \in Nat \ {0}
    /\ ReadBufferSize \in Nat \ {0}
    /\ MaxPayload \in Nat
    /\ MaxFrames \in Nat
    /\ MaxAnnounced \in Nat

VARIABLES
    frames,     \* frames the peer has written: content length, and start (history)
    stream,     \* the bytes it has written
    taken,      \* bytes of the stream the socket has handed over
    buffer,     \* m_readBuffer, up to the bytes transferred
    cursor,     \* m_cursorPosition of the Range over the buffer
    raw,        \* m_rawPayloadData of the payload being assembled
    announced,  \* headerInfo->payloadLength, or NoHeader
    phase,      \* "reading": a read is pending; "processing": in ProcessDataGeneric;
                \* "closed": Close() has been called
    received    \* payload contents passed to OnReceivedPayload, in order

vars == <<frames, stream, taken, buffer, cursor, raw, announced, phase, received>>

NoHeader == -1
MaxOf(a, b) == IF a >= b THEN a ELSE b
MinOf(a, b) == IF a <= b THEN a ELSE b

\* WriteHeader and the NetworkPayload constructor of the sender: a header that
\* carries the content length, then the content.
FrameBytes(f, length) == [p \in 1 .. HeaderLength + length |-> <<f, p>>]

\* ReadHeader: the announced length, if the first bytes are a frame's header;
\* anything else decodes to some length, taken here to be an excessive one.
DecodedLength(bytes) ==
    LET f == bytes[1][1] IN
      IF \A p \in 1 .. HeaderLength : bytes[p] = <<f, p>>
        THEN frames[f].length ELSE MaxPayload + 1

\* Mutation: the lower bound of one byte also applies once the header is known.
BytesLeftAtLeastOne(bytes, length) ==
    MaxOf(1, IF length # NoHeader THEN length - (Len(bytes) - HeaderLength)
                                  ELSE HeaderLength - Len(bytes))

\* NetworkPayload::BytesLeft
BytesLeft(bytes, length) ==
    IF length # NoHeader
      THEN length - (Len(bytes) - HeaderLength)
      ELSE MaxOf(HeaderLength - Len(bytes), 1)

\* Range::size
RangeSize(c) == Len(buffer) - c

\* Mutation: Insert takes all the range has, whatever the payload lacks.
InsertWholeRange(length) ==
    LET n == MinOf(length, RangeSize(cursor))
        bytes == raw \o SubSeq(buffer, cursor + 1, cursor + n)
    IN  [bytes |-> bytes, cursor |-> cursor + n,
         announced |-> IF Len(bytes) >= HeaderLength
                         THEN DecodedLength(bytes) ELSE NoHeader]

\* NetworkPayload::Insert: as many bytes as the header or the content still
\* lacks; once the header is complete, what the range has of the content too.
Insert(length) ==
    LET n == MinOf(MinOf(length, BytesLeft(raw, announced)), RangeSize(cursor))
        bytes == raw \o SubSeq(buffer, cursor + 1, cursor + n)
        header == IF announced = NoHeader /\ Len(bytes) >= HeaderLength
                    THEN DecodedLength(bytes) ELSE announced
        more == IF announced = NoHeader /\ header # NoHeader /\ header <= MaxPayload
                  THEN MinOf(RangeSize(cursor + n), BytesLeft(bytes, header))
                  ELSE 0
    IN  [bytes |-> bytes \o SubSeq(buffer, cursor + n + 1, cursor + n + more),
         cursor |-> cursor + n + more,
         announced |-> header]

Init ==
    /\ frames = <<>>
    /\ stream = <<>>
    /\ taken = 0
    /\ buffer = <<>>
    /\ cursor = 0
    /\ raw = <<>>
    /\ announced = NoHeader
    /\ phase = "reading"
    /\ received = <<>>

\* Send of the peer: a frame follows the bytes written before it.
PeerSends ==
    /\ Len(frames) < MaxFrames
    /\ \E length \in 0 .. MaxAnnounced :
         /\ frames' = Append(frames, [start |-> Len(stream), length |-> length])
         /\ stream' = stream \o FrameBytes(Len(frames) + 1, length)
    /\ UNCHANGED <<taken, buffer, cursor, raw, announced, phase, received>>

\* OnReceivedHeaderData and OnReceivedPayloadData: the socket transfers any
\* number of bytes the buffer can take, and a Range is laid over them.  The
\* payload is the one the pending read was started for.
ReadSome ==
    /\ phase = "reading"
    /\ \E n \in 1 .. MinOf(ReadBufferSize, Len(stream) - taken) :
         /\ buffer' = SubSeq(stream, taken + 1, taken + n)
         /\ taken' = taken + n
    /\ cursor' = 0
    /\ phase' = "processing"
    /\ UNCHANGED <<frames, stream, raw, announced, received>>

\* GetPayloadContent skips the header.
Content(bytes) == SubSeq(bytes, HeaderLength + 1, Len(bytes))

\* Mutation: the range is dropped once a payload is complete.
CompleteForgettingRest(in) ==
    /\ in.announced <= MaxPayload
    /\ BytesLeft(in.bytes, in.announced) = 0
    /\ received' = Append(received, Content(in.bytes))
    /\ raw' = <<>>
    /\ announced' = NoHeader
    /\ phase' = "reading"

\* ReadHeader throws a length_error: ProcessDataGeneric catches it and closes.
RefuseLength(in) ==
    /\ in.announced > MaxPayload
    /\ phase' = "closed"
    /\ raw' = <<>>
    /\ announced' = NoHeader
    /\ UNCHANGED received

\* BytesLeft() == 0: the payload is dispatched, and what is left of the range
\* starts a new one; with nothing left, StartReading.
CompletePayload(in) ==
    /\ in.announced <= MaxPayload
    /\ BytesLeft(in.bytes, in.announced) = 0
    /\ received' = Append(received, Content(in.bytes))
    /\ raw' = <<>>
    /\ announced' = NoHeader
    /\ phase' = IF RangeSize(in.cursor) = 0 THEN "reading" ELSE "processing"

\* ReadPayloadData: the payload waits for the next read.
AwaitMore(in) ==
    /\ in.announced <= MaxPayload
    /\ BytesLeft(in.bytes, in.announced) # 0
    /\ raw' = in.bytes
    /\ announced' = in.announced
    /\ phase' = "reading"
    /\ UNCHANGED received

\* ProcessDataGeneric; length is the bytes transferred even when the range has
\* been consumed in part.
Process ==
    /\ phase = "processing"
    /\ LET in == Insert(Len(buffer)) IN
         /\ cursor' = in.cursor
         /\ \/ RefuseLength(in)
            \/ CompletePayload(in)
            \/ AwaitMore(in)
    /\ UNCHANGED <<frames, stream, taken, buffer>>

Receive == ReadSome \/ Process

Next == PeerSends \/ Receive

\* The network delivers the bytes the peer wrote, and the io thread runs.
Spec == Init /\ [][Next]_vars /\ WF_vars(Receive)

-----------------------------------------------------------------------------
(* Properties.                                                             *)

TypeOK ==
    /\ frames \in Seq([start : Nat, length : 0 .. MaxAnnounced])
    /\ taken \in 0 .. Len(stream)
    /\ Len(buffer) \in 0 .. ReadBufferSize
    /\ cursor \in 0 .. Len(buffer)
    /\ announced \in {NoHeader} \cup 0 .. MaxPayload
    /\ Len(raw) <= HeaderLength + MaxOf(announced, 0)
    /\ phase \in {"reading", "processing", "closed"}

Message(f, length) == Content(FrameBytes(f, length))

Messages == {Message(f, length) : f \in 1 .. MaxFrames, length \in 0 .. MaxAnnounced}

Channel == INSTANCE OrderedChannel WITH
    sent <- [f \in DOMAIN frames |-> Message(f, frames[f].length)],
    open <- (phase # "closed"),
    Acceptable <- {m \in Messages : Len(m) <= MaxPayload}

\* However the bytes are cut into reads, the payloads dispatched are the frames
\* sent, whole and in order; the connection closes exactly at the first frame
\* that announces more than the allowed length.
DeliversFramesInOrder == Channel!Spec

\* Every frame is dispatched in the end, unless one before it closes the connection.
EveryFrameArrives ==
    \A f \in 1 .. MaxFrames :
      (Len(frames) >= f) ~> (phase = "closed" \/ Len(received) >= f)
=============================================================================
