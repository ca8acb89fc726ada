--------------------------- MODULE FramingProofs ---------------------------
(***************************************************************************)
(* Theorems about Framing, for any header, buffer and payload sizes and    *)
(* any way the stream is cut into reads: its types, and that it implements *)
(* OrderedChannel.                                                         *)
(*                                                                         *)
(* The invariant is about positions: frame f lies in the stream from       *)
(* Start(f) on, and what the receiver has consumed of the stream ends      *)
(* Len(raw) bytes after the start of the frame that it is to dispatch next.*)
(***************************************************************************)
EXTENDS Framing, SequenceTheorems, TLAPS

Byte == Nat \X Nat

Frame == [start : Nat, length : 0 .. MaxAnnounced]

Size(f) == HeaderLength + frames[f].length

\* Where frame f begins, or will begin when it is written next.
Start(f) == IF f = Len(frames) + 1 THEN Len(stream) ELSE frames[f].start

Typed ==
    /\ frames \in Seq(Frame)
    /\ Len(frames) <= MaxFrames
    /\ stream \in Seq(Byte)
    /\ taken \in 0 .. Len(stream)
    /\ buffer \in Seq(Byte)
    /\ Len(buffer) <= ReadBufferSize
    /\ Len(buffer) <= taken
    /\ cursor \in 0 .. Len(buffer)
    /\ raw \in Seq(Byte)
    /\ announced \in {NoHeader} \cup 0 .. MaxPayload
    /\ phase \in {"reading", "processing", "closed"}
    /\ received \in Seq(Seq(Byte))

\* The bytes are the first ones of frame f.
Begins(bytes, f) == \A p \in 1 .. Len(bytes) : bytes[p] = <<f, p>>

\* The stream consists of the frames.
Laid ==
    /\ Start(1) = 0
    /\ \A f \in 1 .. Len(frames) :
         /\ Start(f + 1) = Start(f) + Size(f)
         /\ Start(f) + Size(f) <= Len(stream)
         /\ \A p \in 1 .. Size(f) : stream[Start(f) + p] = <<f, p>>

\* The buffer holds the last bytes taken.
Buffered ==
    \A i \in 1 .. Len(buffer) : buffer[i] = stream[(taken - Len(buffer)) + i]

\* The frame to dispatch next.
Following == Len(received) + 1

Consumed == (taken - Len(buffer)) + cursor

\* What has been consumed ends Len(raw) bytes after the start of frame f, and
\* those bytes are what has been assembled.
Assembling(f) ==
    /\ f <= Len(frames) + 1
    /\ Consumed = Start(f) + Len(raw)
    /\ Begins(raw, f)
    /\ Len(raw) > 0 => f <= Len(frames) /\ Len(raw) < Size(f)
    /\ announced = IF Len(raw) >= HeaderLength THEN frames[f].length ELSE NoHeader
    /\ phase = "reading" => cursor = Len(buffer)
    /\ phase = "processing" => cursor < Len(buffer)

\* As long as the connection is open, it assembles the frame to dispatch next.
Aligned == phase # "closed" => \A f \in Nat : f = Following => Assembling(f)

RawFits == Len(raw) <= HeaderLength + MaxOf(announced, 0)

Inv == Typed /\ Laid /\ Buffered /\ Aligned /\ RawFits
-----------------------------------------------------------------------------
(* Sequences.                                                              *)

LEMMA PieceOf ==
  ASSUME NEW S, NEW s \in Seq(S), NEW c \in Nat, NEW k \in Nat, c + k <= Len(s)
  PROVE  /\ SubSeq(s, c + 1, c + k) \in Seq(S)
         /\ Len(SubSeq(s, c + 1, c + k)) = k
         /\ \A i \in 1 .. k : SubSeq(s, c + 1, c + k)[i] = s[c + i]
  <1>1. Len(s) \in Nat /\ c + 1 \in Int /\ c + k \in Int
    OBVIOUS
  <1>2. ASSUME NEW i \in c + 1 .. c + k
        PROVE  s[i] \in S
    <2>1. i \in 1 .. Len(s)
      BY <1>1
    <2>2. QED
      BY <2>1, ElementOfSeq
  <1>3. /\ SubSeq(s, c + 1, c + k) \in Seq(S)
        /\ Len(SubSeq(s, c + 1, c + k)) = IF c + 1 <= c + k THEN (c + k) - (c + 1) + 1 ELSE 0
        /\ \A i \in 1 .. (c + k) - (c + 1) + 1 :
             SubSeq(s, c + 1, c + k)[i] = s[(c + 1) + i - 1]
    BY <1>1, <1>2, SubSeqProperties
  <1>4. Len(SubSeq(s, c + 1, c + k)) = k
    BY <1>3
  <1>5. ASSUME NEW i \in 1 .. k
        PROVE  SubSeq(s, c + 1, c + k)[i] = s[c + i]
    <2>1. i \in 1 .. (c + k) - (c + 1) + 1 /\ (c + 1) + i - 1 = c + i
      OBVIOUS
    <2>2. SubSeq(s, c + 1, c + k)[i] = s[(c + 1) + i - 1]
      BY <1>3, <2>1
    <2>3. QED
      BY <2>1, <2>2
  <1>6. QED
    BY <1>3, <1>4, <1>5

-----------------------------------------------------------------------------
(* The stream.                                                             *)

LEMMA FrameBytesAre ==
  ASSUME NEW f \in Nat, NEW length \in Nat
  PROVE  /\ FrameBytes(f, length) \in Seq(Byte)
         /\ Len(FrameBytes(f, length)) = HeaderLength + length
         /\ \A p \in 1 .. HeaderLength + length : FrameBytes(f, length)[p] = <<f, p>>
  <1>1. HeaderLength + length \in Nat
    BY FramingAssumption
  <1>2. FrameBytes(f, length) \in [1 .. HeaderLength + length -> Byte]
    BY <1>1 DEF FrameBytes, Byte
  <1>3. QED
    BY <1>1, <1>2, SeqDef DEF FrameBytes

LEMMA PlaceIsNat ==
  ASSUME Typed, NEW f \in 1 .. Len(frames)
  PROVE  Start(f) \in Nat /\ Size(f) \in Nat
  <1>1. frames[f] \in Frame /\ Len(stream) \in Nat
    BY ElementOfSeq DEF Typed
  <1>2. Start(f) \in Nat
    BY <1>1 DEF Start, Frame
  <1>3. Size(f) \in Nat
    BY <1>1, FramingAssumption DEF Size, Frame
  <1>4. QED
    BY <1>2, <1>3

\* The bytes of a frame that a payload lacks follow in the buffer.
LEMMA Continues ==
  ASSUME Typed, Laid, Buffered,
         NEW f \in 1 .. Len(frames), NEW bytes \in Seq(Byte),
         Begins(bytes, f),
         NEW c \in 0 .. Len(buffer),
         (taken - Len(buffer)) + c = Start(f) + Len(bytes),
         NEW k \in 0 .. Len(buffer) - c, Len(bytes) + k <= Size(f)
  PROVE  LET more == bytes \o SubSeq(buffer, c + 1, c + k) IN
           /\ more \in Seq(Byte)
           /\ Len(more) = Len(bytes) + k
           /\ Begins(more, f)
           /\ (taken - Len(buffer)) + (c + k) = Start(f) + (Len(bytes) + k)
  <1> DEFINE piece == SubSeq(buffer, c + 1, c + k)
             more == bytes \o piece
  <1>1. /\ buffer \in Seq(Byte) /\ Len(buffer) \in Nat /\ Len(bytes) \in Nat /\ c \in Nat /\ k \in Nat
        /\ taken \in Nat /\ Start(f) \in Nat /\ Size(f) \in Nat /\ c + k <= Len(buffer)
    <2>4. /\ buffer \in Seq(Byte) /\ Len(buffer) \in Nat /\ Len(bytes) \in Nat /\ taken \in Nat
      BY DEF Typed
    <2>5. QED
      BY <2>4, PlaceIsNat
  <1>2. /\ piece \in Seq(Byte) /\ Len(piece) = k
        /\ \A i \in 1 .. k : piece[i] = buffer[c + i]
    BY <1>1, PieceOf
  <1> HIDE DEF piece
  <1>3. /\ more \in Seq(Byte) /\ Len(more) = Len(bytes) + k
        /\ \A p \in 1 .. Len(bytes) + k :
             more[p] = IF p <= Len(bytes) THEN bytes[p] ELSE piece[p - Len(bytes)]
    BY <1>2, ConcatProperties
  <1> HIDE DEF more
  <1>4. ASSUME NEW p \in 1 .. Len(bytes) + k
        PROVE  more[p] = <<f, p>>
    <2>1. CASE p <= Len(bytes)
      <3>1. p \in 1 .. Len(bytes) /\ more[p] = bytes[p]
        BY <1>1, <1>3, <2>1
      <3>2. bytes[p] = <<f, p>>
        BY <3>1 DEF Begins
      <3>3. QED
        BY <3>1, <3>2
    <2>2. CASE ~(p <= Len(bytes))
      <3>1. p - Len(bytes) \in 1 .. k /\ more[p] = piece[p - Len(bytes)]
        BY <1>1, <1>3, <2>2
      <3>2. more[p] = buffer[c + (p - Len(bytes))] /\ c + (p - Len(bytes)) \in 1 .. Len(buffer)
        BY <1>1, <1>2, <3>1, SMTT(30)
      <3>3. more[p] = stream[(taken - Len(buffer)) + (c + (p - Len(bytes)))]
        BY <3>2 DEF Buffered
      <3>4. (taken - Len(buffer)) + (c + (p - Len(bytes))) = Start(f) + p
        BY <1>1, SMTT(30)
      <3>5. p \in 1 .. Size(f)
        BY <1>1
      <3>6. stream[Start(f) + p] = <<f, p>>
        BY <3>5 DEF Laid
      <3>7. QED
        BY <3>3, <3>4, <3>6
    <2>3. QED
      BY <2>1, <2>2
  <1>5. (taken - Len(buffer)) + (c + k) = Start(f) + (Len(bytes) + k)
    BY <1>1, SMTT(30)
  <1>6. Begins(more, f)
    BY <1>3, <1>4 DEF Begins
  <1>7. QED
    BY <1>3, <1>5, <1>6 DEF more, piece

\* A header that is complete is the header of its frame.
LEMMA HeaderIsDecoded ==
  ASSUME NEW f \in 1 .. Len(frames), NEW bytes \in Seq(Byte), Len(bytes) >= HeaderLength,
         Begins(bytes, f)
  PROVE  DecodedLength(bytes) = frames[f].length
  <1>1. HeaderLength \in Nat \ {0} /\ Len(bytes) \in Nat
    BY FramingAssumption
  <1>2. bytes[1] = <<f, 1>>
    BY <1>1 DEF Begins
  <1>3. bytes[1][1] = f
    BY <1>2
  <1>4. \A p \in 1 .. HeaderLength : bytes[p] = <<f, p>>
    BY <1>1 DEF Begins
  <1>5. QED
    BY <1>3, <1>4 DEF DecodedLength

\* What Insert returns is more of the frame that is being assembled; unless the
\* frame is complete or refused, it has consumed the whole range.
LEMMA InsertAssembles ==
  ASSUME Inv, phase = "processing", NEW F \in Nat, F = Following
  PROVE  LET in == Insert(Len(buffer)) IN
           /\ F \in 1 .. Len(frames)
           /\ in.bytes \in Seq(Byte)
           /\ Begins(in.bytes, F)
           /\ Len(in.bytes) <= Size(F)
           /\ in.cursor \in 0 .. Len(buffer)
           /\ (taken - Len(buffer)) + in.cursor = Start(F) + Len(in.bytes)
           /\ in.announced = IF Len(in.bytes) >= HeaderLength THEN frames[F].length ELSE NoHeader
           /\ in.announced <= MaxPayload =>
                \/ BytesLeft(in.bytes, in.announced) = 0 /\ Len(in.bytes) = Size(F)
                \/ /\ BytesLeft(in.bytes, in.announced) # 0
                   /\ Len(in.bytes) < Size(F)
                   /\ in.cursor = Len(buffer)
  <1> DEFINE n == MinOf(MinOf(Len(buffer), BytesLeft(raw, announced)), RangeSize(cursor))
             first == raw \o SubSeq(buffer, cursor + 1, cursor + n)
             header == IF announced = NoHeader /\ Len(first) >= HeaderLength
                         THEN DecodedLength(first) ELSE announced
             k == IF announced = NoHeader /\ header # NoHeader /\ header <= MaxPayload
                    THEN MinOf(RangeSize(cursor + n), BytesLeft(first, header)) ELSE 0
             bytes == first \o SubSeq(buffer, cursor + n + 1, cursor + n + k)
  <1>1. Insert(Len(buffer)) = [bytes |-> bytes, cursor |-> cursor + n + k, announced |-> header]
    BY DEF Insert
  <1>2. /\ Typed /\ Laid /\ Buffered /\ Assembling(F)
    BY DEF Inv, Aligned
  <1>3. /\ Len(buffer) \in Nat /\ cursor \in Nat /\ cursor < Len(buffer)
        /\ Len(raw) \in Nat /\ raw \in Seq(Byte) /\ taken \in Nat /\ Len(buffer) <= taken
        /\ taken <= Len(stream) /\ Len(stream) \in Nat /\ Len(frames) \in Nat
        /\ HeaderLength \in Nat /\ HeaderLength > 0 /\ MaxPayload \in Nat
    <2>1. /\ Len(buffer) \in Nat /\ cursor \in Nat /\ Len(raw) \in Nat /\ raw \in Seq(Byte)
          /\ taken \in Nat /\ Len(buffer) <= taken
          /\ taken <= Len(stream) /\ Len(stream) \in Nat /\ Len(frames) \in Nat
      BY <1>2 DEF Typed
    <2>2. cursor < Len(buffer)
      BY <1>2 DEF Assembling
    <2>3. HeaderLength \in Nat /\ HeaderLength > 0 /\ MaxPayload \in Nat
      BY FramingAssumption
    <2>4. QED
      BY <2>1, <2>2, <2>3
  <1>4. F \in 1 .. Len(frames)
    <2>1. F \in 1 .. Len(frames) + 1
      <3>1. Len(received) \in Nat /\ F = Len(received) + 1
        BY <1>2 DEF Typed, Following
      <3>2. QED
        BY <1>2, <3>1 DEF Assembling
    <2>2. ASSUME F = Len(frames) + 1
          PROVE  FALSE
      <3>1. Start(F) = Len(stream)
        BY <2>2 DEF Start
      <3>2. (taken - Len(buffer)) + cursor = Start(F) + Len(raw)
        BY <1>2 DEF Assembling, Consumed
      <3>3. QED
        BY <1>3, <3>1, <3>2
    <2>3. QED
      BY <1>3, <2>1, <2>2
  <1>5. /\ frames[F].length \in Nat /\ Size(F) = HeaderLength + frames[F].length
        /\ Size(F) \in Nat /\ Len(raw) < Size(F)
    <2>1. frames[F] \in Frame
      BY <1>2, <1>4, ElementOfSeq DEF Typed
    <2>2. frames[F].length \in Nat
      BY <2>1, FramingAssumption DEF Frame
    <2>3. Len(raw) > 0 => Len(raw) < Size(F)
      BY <1>2 DEF Assembling
    <2>4. QED
      BY <1>3, <2>2, <2>3, SMTT(30) DEF Size
  <1>21. Size(F) \in Nat /\ Len(raw) < Size(F) /\ HeaderLength <= Size(F)
    BY <1>3, <1>5
  <1>6. /\ announced = IF Len(raw) >= HeaderLength THEN frames[F].length ELSE NoHeader
        /\ announced <= MaxPayload
    BY <1>2, <1>3 DEF Assembling, Typed, NoHeader
  \* The first copy: it fills the header, or the content.
  <1> DEFINE lacking == BytesLeft(raw, announced)
  <1>19. /\ lacking \in Nat /\ lacking > 0
         /\ announced = NoHeader => Len(raw) < HeaderLength /\ lacking = HeaderLength - Len(raw)
         /\ announced # NoHeader => lacking = Size(F) - Len(raw)
    <2>1. CASE announced = NoHeader
      <3>1. Len(raw) < HeaderLength
        BY <1>3, <1>5, <1>21, <1>6, <2>1 DEF NoHeader
      <3>2. lacking = HeaderLength - Len(raw)
        BY <1>3, <2>1, <3>1 DEF BytesLeft, MaxOf
      <3>3. QED
        BY <1>3, <2>1, <3>1, <3>2
    <2>2. CASE announced # NoHeader
      <3>1. lacking = announced - (Len(raw) - HeaderLength) /\ announced = frames[F].length
        BY <1>6, <2>2 DEF BytesLeft
      <3>2. lacking = Size(F) - Len(raw)
        BY <1>3, <1>5, <3>1, SMTT(30)
      <3>3. lacking \in Nat /\ lacking > 0
        BY <1>3, <1>21, <3>2
      <3>4. QED
        BY <2>2, <3>2, <3>3
    <2>3. QED
      BY <2>1, <2>2
  <1> HIDE DEF lacking
  <1>20. /\ n \in 1 .. Len(buffer) - cursor /\ n <= lacking
         /\ n = Len(buffer) - cursor \/ n = lacking
    <2>1. n = MinOf(MinOf(Len(buffer), lacking), Len(buffer) - cursor)
      BY DEF lacking, RangeSize
    <2> HIDE DEF n
    <2>2. QED
      BY <1>3, <1>19, <2>1 DEF MinOf
  <1> HIDE DEF n
  <1>7. /\ n \in 1 .. Len(buffer) - cursor
        /\ Len(raw) + n <= Size(F)
        /\ announced = NoHeader => Len(raw) + n <= HeaderLength
        /\ announced = NoHeader => n = Len(buffer) - cursor \/ Len(raw) + n = HeaderLength
        /\ announced # NoHeader => n = Len(buffer) - cursor \/ Len(raw) + n = Size(F)
    <2>1. CASE announced = NoHeader
      <3>1. lacking = HeaderLength - Len(raw) /\ Size(F) >= HeaderLength
        BY <1>3, <1>5, <1>21, <1>19, <2>1
      <3>2. /\ Len(raw) + n <= HeaderLength /\ Len(raw) + n <= Size(F)
            /\ n = Len(buffer) - cursor \/ Len(raw) + n = HeaderLength
        BY <1>3, <1>21, <1>20, <3>1
      <3>3. QED
        BY <1>20, <2>1, <3>2
    <2>2. CASE announced # NoHeader
      <3>1. lacking = Size(F) - Len(raw)
        BY <1>19, <2>2
      <3>2. /\ Len(raw) + n <= Size(F)
            /\ n = Len(buffer) - cursor \/ Len(raw) + n = Size(F)
        BY <1>3, <1>21, <1>20, <3>1, SMTT(30)
      <3>3. QED
        BY <1>20, <2>2, <3>2
    <2>3. QED
      BY <2>1, <2>2
  <1>8. /\ first \in Seq(Byte)
        /\ Len(first) = Len(raw) + n
        /\ Begins(first, F)
        /\ (taken - Len(buffer)) + (cursor + n) = Start(F) + (Len(raw) + n)
    <2>1. /\ Begins(raw, F) /\ (taken - Len(buffer)) + cursor = Start(F) + Len(raw)
      BY <1>2 DEF Assembling, Consumed
    <2>2. cursor \in 0 .. Len(buffer) /\ n \in 0 .. Len(buffer) - cursor
      BY <1>3, <1>7
    <2>3. QED
      BY <1>2, <1>3, <1>4, <1>7, <2>1, <2>2, Continues
  <1> HIDE DEF first
  <1>9. header = IF Len(first) >= HeaderLength THEN frames[F].length ELSE NoHeader
    <2>1. Len(first) >= HeaderLength => DecodedLength(first) = frames[F].length
      BY <1>4, <1>8, HeaderIsDecoded
    <2>2. QED
      BY <1>3, <1>5, <1>21, <1>6, <1>7, <1>8, <2>1 DEF NoHeader
  <1>10. announced # NoHeader => header = announced
    OBVIOUS
  <1> HIDE DEF header
  \* The second copy: what the range has of the content.
  <1>11. /\ k \in 0 .. Len(buffer) - (cursor + n)
         /\ Len(first) + k <= Size(F)
         /\ announced # NoHeader => k = 0
         /\ header = NoHeader => k = 0
         /\ announced = NoHeader /\ header # NoHeader /\ header <= MaxPayload =>
              k = Len(buffer) - (cursor + n) \/ Len(first) + k = Size(F)
    <2>1. CASE announced = NoHeader /\ header # NoHeader /\ header <= MaxPayload
      <3>1. BytesLeft(first, header) = Size(F) - Len(first)
        <4>1. header = frames[F].length
          BY <1>9, <2>1
        <4>2. BytesLeft(first, header) = header - (Len(first) - HeaderLength)
          BY <2>1 DEF BytesLeft
        <4>3. QED
          BY <1>3, <1>5, <1>7, <1>8, <4>1, <4>2, SMTT(30)
      <3>2. k = MinOf(Len(buffer) - (cursor + n), Size(F) - Len(first))
        BY <2>1, <3>1 DEF RangeSize
      <3> HIDE DEF k
      <3>3. /\ k \in 0 .. Len(buffer) - (cursor + n) /\ k <= Size(F) - Len(first)
            /\ k = Len(buffer) - (cursor + n) \/ k = Size(F) - Len(first)
        <4>1. Len(buffer) - (cursor + n) \in Nat /\ Size(F) - Len(first) \in Nat
          BY <1>3, <1>21, <1>7, <1>8
        <4>2. QED
          BY <3>2, <4>1 DEF MinOf
      <3>4. /\ Len(first) + k <= Size(F)
            /\ k = Len(buffer) - (cursor + n) \/ Len(first) + k = Size(F)
        <4>1. Len(first) \in Nat
          BY <1>8
        <4>2. k \in Nat
          BY <3>3
        <4>3. QED
          BY <1>21, <3>3, <4>1, <4>2
      <3>5. QED
        BY <2>1, <3>3, <3>4
    <2>2. CASE ~(announced = NoHeader /\ header # NoHeader /\ header <= MaxPayload)
      <3>1. k = 0
        BY <2>2
      <3> HIDE DEF k
      <3>2. QED
        BY <1>3, <1>5, <1>21, <1>7, <1>8, <2>2, <3>1
    <2>3. QED
      BY <2>1, <2>2
  <1> HIDE DEF k
  <1>12. /\ bytes \in Seq(Byte)
         /\ Len(bytes) = Len(first) + k
         /\ Begins(bytes, F)
         /\ (taken - Len(buffer)) + ((cursor + n) + k) = Start(F) + (Len(first) + k)
    <2>1. (taken - Len(buffer)) + (cursor + n) = Start(F) + Len(first)
      BY <1>8
    <2>2. cursor + n \in 0 .. Len(buffer)
      BY <1>3, <1>7
    <2>3. QED
      BY <1>2, <1>4, <1>8, <1>11, <2>1, <2>2, Continues
  <1> HIDE DEF bytes
  <1>13. header = IF Len(bytes) >= HeaderLength THEN frames[F].length ELSE NoHeader
    BY <1>3, <1>5, <1>21, <1>7, <1>8, <1>9, <1>11, <1>12, SMTT(30) DEF NoHeader
  <1>14. ASSUME header <= MaxPayload
         PROVE  \/ BytesLeft(bytes, header) = 0 /\ Len(bytes) = Size(F)
                \/ /\ BytesLeft(bytes, header) # 0
                   /\ Len(bytes) < Size(F)
                   /\ cursor + n + k = Len(buffer)
    <2>1. CASE header = NoHeader
      <3>1. k = 0 /\ announced = NoHeader /\ Len(bytes) = Len(raw) + n
        BY <1>3, <1>5, <1>21, <1>6, <1>7, <1>8, <1>10, <1>11, <1>12, <2>1
      <3>2. Len(bytes) \in Nat /\ Len(bytes) < HeaderLength
        BY <1>3, <1>5, <1>21, <1>7, <1>13, <2>1, <3>1 DEF NoHeader
      <3>3. cursor + n + k = Len(buffer)
        BY <1>3, <1>7, <3>1, <3>2
      <3>4. BytesLeft(bytes, header) # 0
        BY <1>3, <2>1, <3>2 DEF BytesLeft, MaxOf
      <3>5. QED
        BY <1>3, <1>5, <1>21, <3>2, <3>3, <3>4, SMTT(30)
    <2>2. CASE header # NoHeader
      <3>1. BytesLeft(bytes, header) = Size(F) - Len(bytes)
        BY <1>3, <1>5, <1>21, <1>12, <1>13, <2>2, SMTT(30) DEF BytesLeft
      <3>2. Len(bytes) = Size(F) \/ cursor + n + k = Len(buffer)
        <4>1. CASE announced = NoHeader
          <5>1. k = Len(buffer) - (cursor + n) \/ Len(first) + k = Size(F)
            BY <1>11, <1>14, <2>2, <4>1
          <5>2. QED
            BY <1>3, <1>7, <1>12, <5>1, SMTT(30)
        <4>2. CASE announced # NoHeader
          <5>1. k = 0 /\ (n = Len(buffer) - cursor \/ Len(raw) + n = Size(F))
            BY <1>7, <1>11, <4>2
          <5>2. Len(bytes) = Len(raw) + n /\ cursor + n + k = cursor + n
            BY <1>3, <1>7, <1>8, <1>12, <5>1
          <5>3. QED
            BY <1>3, <1>7, <5>1, <5>2
        <4>3. QED
          BY <4>1, <4>2
      <3>3. Len(bytes) \in Nat /\ Len(bytes) <= Size(F)
        BY <1>11, <1>12
      <3>4. QED
        BY <1>5, <3>1, <3>2, <3>3
    <2>3. QED
      BY <2>1, <2>2
  <1>15. cursor + n + k \in 0 .. Len(buffer)
    BY <1>3, <1>7, <1>11
  <1>16. (taken - Len(buffer)) + (cursor + n + k) = Start(F) + Len(bytes)
    BY <1>12
  <1>17. Len(bytes) <= Size(F)
    BY <1>11, <1>12
  <1>18. QED
    BY <1>1, <1>4, <1>12, <1>13, <1>14, <1>15, <1>16, <1>17

-----------------------------------------------------------------------------
(* The invariant.                                                          *)

\* A frame that is sent begins where the stream ended; those before it stay.
LEMMA SendAppends ==
  ASSUME Inv, PeerSends, NEW new \in Nat, new = Len(frames) + 1
  PROVE  /\ frames' \in Seq(Frame) /\ Len(frames') = new
         /\ \A f \in 1 .. Len(frames) : frames'[f] = frames[f]
         /\ stream' \in Seq(Byte) /\ Len(stream') = Len(stream) + Size(new)'
         /\ \A i \in 1 .. Len(stream) : stream'[i] = stream[i]
         /\ \A p \in 1 .. Size(new)' : stream'[Len(stream) + p] = <<new, p>>
         /\ frames'[new].start = Len(stream)
         /\ frames'[new].length \in 0 .. MaxAnnounced
         /\ frames' = Append(frames, frames'[new])
  <1>1. /\ frames \in Seq(Frame) /\ stream \in Seq(Byte)
        /\ Len(frames) \in Nat /\ new \in Nat /\ Len(stream) \in Nat
    BY DEF Inv, Typed
  <1>2. PICK length \in 0 .. MaxAnnounced :
          /\ frames' = Append(frames, [start |-> Len(stream), length |-> length])
          /\ stream' = stream \o FrameBytes(new, length)
    BY DEF PeerSends
  <1> DEFINE frame == [start |-> Len(stream), length |-> length]
  <1>3. frame \in Frame /\ frame.start = Len(stream) /\ frame.length = length
    BY <1>1 DEF Frame
  <1> HIDE DEF frame
  <1>4. /\ frames' \in Seq(Frame) /\ Len(frames') = new
        /\ \A f \in 1 .. Len(frames) : frames'[f] = frames[f]
        /\ frames'[new] = frame
    <2>1. frames' = Append(frames, frame)
      BY <1>2 DEF frame
    <2>2. QED
      BY <1>1, <1>3, <2>1, AppendProperties
  <1>5. length \in Nat /\ Size(new)' = HeaderLength + length
    <2>1. length \in Nat
      BY FramingAssumption
    <2>2. Size(new)' = HeaderLength + frames'[new].length
      BY <1>4 DEF Size
    <2>3. QED
      BY <1>3, <1>4, <2>1, <2>2
  <1> DEFINE bytes == FrameBytes(new, length)
  <1>6. /\ bytes \in Seq(Byte) /\ Len(bytes) = HeaderLength + length
        /\ \A p \in 1 .. HeaderLength + length : bytes[p] = <<new, p>>
    BY <1>1, <1>5, FrameBytesAre
  <1>7. stream' = stream \o bytes
    BY <1>2
  <1> HIDE DEF bytes
  <1>8. /\ stream' \in Seq(Byte) /\ Len(stream') = Len(stream) + Len(bytes)
        /\ \A i \in 1 .. Len(stream) + Len(bytes) :
             stream'[i] = IF i <= Len(stream) THEN stream[i] ELSE bytes[i - Len(stream)]
    BY <1>1, <1>6, <1>7, ConcatProperties
  <1>9. ASSUME NEW i \in 1 .. Len(stream)
        PROVE  stream'[i] = stream[i]
    <2>1. i \in 1 .. Len(stream) + Len(bytes) /\ i <= Len(stream)
      BY <1>1, <1>6
    <2>2. QED
      BY <1>8, <2>1
  <1>10. ASSUME NEW p \in 1 .. Len(bytes)
         PROVE  stream'[Len(stream) + p] = bytes[p]
    <2>1. /\ Len(stream) + p \in 1 .. Len(stream) + Len(bytes)
          /\ ~(Len(stream) + p <= Len(stream))
          /\ (Len(stream) + p) - Len(stream) = p
      BY <1>1, <1>6
    <2>2. QED
      BY <1>8, <2>1
  <1>11. Len(bytes) = Size(new)'
    BY <1>5, <1>6
  <1>12. \A p \in 1 .. Size(new)' : stream'[Len(stream) + p] = <<new, p>>
    BY <1>5, <1>6, <1>10, <1>11
  <1>13. frames' = Append(frames, frames'[new])
    BY <1>2, <1>4 DEF frame
  <1>14. QED
    BY <1>3, <1>4, <1>8, <1>9, <1>11, <1>12, <1>13

\* Where a frame begins does not change once it can be foreseen.
LEMMA StartStays ==
  ASSUME Inv, PeerSends, NEW f \in 1 .. Len(frames) + 1
  PROVE  Start(f)' = Start(f)
  <1>1. Len(frames) \in Nat /\ Len(frames') = Len(frames) + 1
    BY SendAppends DEF Inv, Typed
  <1>2. CASE f = Len(frames) + 1
    <2>1. f # Len(frames') + 1
      BY <1>1, <1>2
    <2>2. Start(f)' = frames'[f].start
      BY <2>1 DEF Start
    <2>3. QED
      BY <1>2, <2>2, SendAppends DEF Start
  <1>3. CASE f \in 1 .. Len(frames)
    <2>1. f # Len(frames') + 1 /\ f # Len(frames) + 1
      BY <1>1, <1>3
    <2>2. frames'[f] = frames[f]
      BY <1>3, SendAppends
    <2>3. QED
      BY <2>1, <2>2 DEF Start
  <1>4. QED
    BY <1>1, <1>2, <1>3

LEMMA SendKeepsInv == Inv /\ PeerSends => Inv'
  <1> SUFFICES ASSUME Inv, PeerSends
               PROVE  Inv'
    OBVIOUS
  <1>0. PICK new \in Nat : new = Len(frames) + 1
    BY DEF Inv, Typed
  <1>1. /\ frames' \in Seq(Frame) /\ Len(frames') = new
        /\ stream' \in Seq(Byte) /\ Len(stream') = Len(stream) + Size(new)'
        /\ frames'[new].start = Len(stream)
        /\ frames'[new].length \in 0 .. MaxAnnounced
    BY <1>0, SendAppends
  <1>2. \A f \in 1 .. Len(frames) : frames'[f] = frames[f]
    BY <1>0, SendAppends
  <1>3. \A i \in 1 .. Len(stream) : stream'[i] = stream[i]
    BY <1>0, SendAppends
  <1>4. \A p \in 1 .. Size(new)' : stream'[Len(stream) + p] = <<new, p>>
    BY <1>0, SendAppends
  <1>5. \A f \in 1 .. new : Start(f)' = Start(f)
    BY <1>0, StartStays
  <1>6. /\ Len(frames) \in Nat /\ new \in Nat /\ Len(stream) \in Nat /\ Len(stream') \in Nat
        /\ taken \in Nat /\ taken <= Len(stream) /\ Len(buffer) \in Nat /\ Len(buffer) <= taken
    BY <1>0, <1>1 DEF Inv, Typed
  <1>7. Size(new)' \in Nat
    <2>1. Size(new)' = HeaderLength + frames'[new].length
      BY DEF Size
    <2>2. QED
      BY <1>1, <2>1, FramingAssumption, SMTT(30)
  <1>8. UNCHANGED <<taken, buffer, cursor, raw, announced, phase, received>>
    BY DEF PeerSends
  <1>9. Typed'
    <2>1. Len(frames) < MaxFrames
      BY DEF PeerSends
    <2>2. Len(frames') <= MaxFrames
      BY <1>0, <1>1, <1>6, <2>1, FramingAssumption
    <2>3. taken' \in 0 .. Len(stream')
      BY <1>0, <1>1, <1>6, <1>7, <1>8
    <2>4. /\ buffer \in Seq(Byte) /\ Len(buffer) <= ReadBufferSize /\ Len(buffer) <= taken
          /\ cursor \in 0 .. Len(buffer) /\ raw \in Seq(Byte)
          /\ announced \in {NoHeader} \cup 0 .. MaxPayload
          /\ phase \in {"reading", "processing", "closed"} /\ received \in Seq(Seq(Byte))
      BY DEF Inv, Typed
    <2>5. QED
      BY <1>1, <1>8, <2>2, <2>3, <2>4 DEF Typed
  <1>10. Laid'
    <2>1. Start(1)' = 0
      <3>1. 1 \in 1 .. new
        BY <1>0, <1>6
      <3>2. Start(1) = 0
        BY DEF Inv, Laid
      <3>3. QED
        BY <1>5, <3>1, <3>2
    <2>2. ASSUME NEW f \in 1 .. Len(frames')
          PROVE  /\ Start(f + 1)' = Start(f)' + Size(f)'
                 /\ Start(f)' + Size(f)' <= Len(stream')
                 /\ \A p \in 1 .. Size(f)' : stream'[Start(f)' + p] = <<f, p>>
      <3>1. CASE f \in 1 .. Len(frames)
        <4>1. f \in 1 .. new /\ f + 1 \in 1 .. new
          BY <1>0, <1>6, <3>1
        <4>2. Start(f)' = Start(f) /\ Start(f + 1)' = Start(f + 1)
          BY <1>5, <4>1
        <4>3. Size(f)' = Size(f)
          BY <1>2, <3>1 DEF Size
        <4>4. /\ Start(f + 1) = Start(f) + Size(f)
              /\ Start(f) + Size(f) <= Len(stream)
              /\ \A p \in 1 .. Size(f) : stream[Start(f) + p] = <<f, p>>
          BY <3>1 DEF Inv, Laid
        <4>5. Start(f) \in Nat /\ Size(f) \in Nat
          BY <3>1, PlaceIsNat DEF Inv
        <4>6. Start(f) + Size(f) <= Len(stream')
          BY <1>0, <1>1, <1>6, <1>7, <4>4, <4>5, SMTT(30)
        <4>7. ASSUME NEW p \in 1 .. Size(f)
              PROVE  stream'[Start(f) + p] = <<f, p>>
          <5>1. Start(f) + p \in 1 .. Len(stream)
            BY <1>0, <1>6, <4>4, <4>5, SMTT(30)
          <5>2. QED
            BY <1>3, <4>4, <5>1
        <4>8. QED
          BY <4>2, <4>3, <4>4, <4>6, <4>7
      <3>2. CASE f = new
        <4>1. new \in 1 .. new
          BY <1>0, <1>6
        <4>2. Start(new)' = Len(stream)
          BY <1>0, <1>5, <4>1 DEF Start
        <4>3. new + 1 = Len(frames') + 1
          BY <1>1
        <4>4. Start(new + 1)' = Len(stream')
          BY <4>3 DEF Start
        <4>5. Start(f)' = Start(new)' /\ Start(f + 1)' = Start(new + 1)' /\ Size(f)' = Size(new)'
          BY <3>2 DEF Start, Size
        <4>6. Len(stream) + Size(new)' <= Len(stream')
          BY <1>0, <1>1, <1>6, <1>7
        <4>7. QED
          BY <1>1, <1>4, <3>2, <4>2, <4>4, <4>5, <4>6
      <3>3. QED
        BY <1>0, <1>1, <1>6, <3>1, <3>2
    <2>3. QED
      BY <2>1, <2>2 DEF Laid
  <1>11. Buffered'
    <2>1. ASSUME NEW i \in 1 .. Len(buffer)
          PROVE  buffer[i] = stream'[(taken - Len(buffer)) + i]
      <3>1. (taken - Len(buffer)) + i \in 1 .. Len(stream)
        BY <1>6
      <3>2. buffer[i] = stream[(taken - Len(buffer)) + i]
        BY DEF Inv, Buffered
      <3>3. QED
        BY <1>3, <3>1, <3>2
    <2>2. QED
      BY <1>8, <2>1 DEF Buffered
  <1>12. Aligned'
    <2>1. SUFFICES ASSUME phase # "closed", NEW f \in Nat, f = Following
                   PROVE  Assembling(f)'
      BY <1>8 DEF Aligned, Following
    <2>2. Assembling(f)
      BY <2>1 DEF Inv, Aligned
    <2>3. f \in 1 .. new
      <3>1. Len(received) \in Nat /\ f = Len(received) + 1 /\ f <= new
        BY <1>0, <2>1, <2>2 DEF Inv, Typed, Following, Assembling
      <3>2. QED
        BY <3>1
    <2>4. f <= Len(frames') + 1
      BY <1>0, <1>1, <1>6, <2>3
    <2>5. Consumed' = Start(f)' + Len(raw')
      BY <1>5, <1>8, <2>2, <2>3 DEF Assembling, Consumed
    <2>6. Begins(raw, f)'
      BY <1>8, <2>2 DEF Assembling, Begins
    <2>7. Len(raw) \in Nat /\ HeaderLength \in Nat /\ HeaderLength > 0
      BY FramingAssumption DEF Inv, Typed
    <2>8. Len(raw) > 0 => f \in 1 .. Len(frames) /\ Len(raw) < Size(f)
      BY <1>0, <1>6, <2>2, <2>3 DEF Assembling
    <2>9. Len(raw') > 0 => f <= Len(frames') /\ Len(raw') < Size(f)'
      <3>1. ASSUME Len(raw) > 0
            PROVE  f <= Len(frames') /\ Len(raw) < Size(f)'
        <4>1. f \in 1 .. Len(frames)
          BY <2>8, <3>1
        <4>2. Size(f)' = Size(f)
          BY <1>2, <4>1 DEF Size
        <4>3. f <= Len(frames')
          BY <1>0, <1>1, <1>6, <4>1
        <4>4. QED
          BY <2>8, <3>1, <4>2, <4>3
      <3>2. QED
        BY <1>8, <3>1
    <2>10. announced' = IF Len(raw') >= HeaderLength THEN frames'[f].length ELSE NoHeader
      <3>1. announced = IF Len(raw) >= HeaderLength THEN frames[f].length ELSE NoHeader
        BY <2>2 DEF Assembling
      <3>2. Len(raw) >= HeaderLength => frames'[f] = frames[f]
        BY <1>2, <2>7, <2>8
      <3>3. QED
        BY <1>8, <3>1, <3>2
    <2>11. /\ phase = "reading" => cursor = Len(buffer)
           /\ phase = "processing" => cursor < Len(buffer)
      BY <2>2 DEF Assembling
    <2>12. QED
      BY <1>8, <2>4, <2>5, <2>6, <2>9, <2>10, <2>11 DEF Assembling
  <1>13. RawFits'
    BY <1>8 DEF Inv, RawFits
  <1>14. QED
    BY <1>9, <1>10, <1>11, <1>12, <1>13 DEF Inv

\* What the receiver does leaves the frames and the stream alone.
LEMMA PeerStays ==
  ASSUME Inv, UNCHANGED <<frames, stream>>
  PROVE  /\ Laid'
         /\ \A f \in Nat : Start(f)' = Start(f) /\ Size(f)' = Size(f)
  BY DEF Inv, Laid, Start, Size

LEMMA ReadKeepsInv == Inv /\ ReadSome => Inv'
  <1> SUFFICES ASSUME Inv, ReadSome
               PROVE  Inv'
    OBVIOUS
  <1>1. /\ phase = "reading" /\ phase' = "processing" /\ cursor' = 0
        /\ UNCHANGED <<frames, stream, raw, announced, received>>
    BY DEF ReadSome
  <1>2. /\ stream \in Seq(Byte) /\ Len(stream) \in Nat /\ taken \in Nat /\ taken <= Len(stream)
        /\ Len(buffer) \in Nat
    BY DEF Inv, Typed
  <1>3. PICK n \in 1 .. MinOf(ReadBufferSize, Len(stream) - taken) :
          buffer' = SubSeq(stream, taken + 1, taken + n) /\ taken' = taken + n
    BY DEF ReadSome
  <1>4. n \in Nat /\ n > 0 /\ n <= ReadBufferSize /\ taken + n <= Len(stream)
    <2>1. ReadBufferSize \in Nat /\ Len(stream) - taken \in Nat
      BY <1>2, FramingAssumption
    <2>2. QED
      BY <1>2, <2>1 DEF MinOf
  <1>5. /\ buffer' \in Seq(Byte) /\ Len(buffer') = n
        /\ \A i \in 1 .. n : buffer'[i] = stream[taken + i]
    <2>1. stream \in Seq(Byte) /\ taken \in Nat /\ n \in Nat /\ taken + n <= Len(stream)
      BY <1>2, <1>4
    <2>2. /\ SubSeq(stream, taken + 1, taken + n) \in Seq(Byte)
          /\ Len(SubSeq(stream, taken + 1, taken + n)) = n
          /\ \A i \in 1 .. n : SubSeq(stream, taken + 1, taken + n)[i] = stream[taken + i]
      BY <2>1, PieceOf
    <2>3. QED
      BY <1>3, <2>2
  <1>6. taken' - Len(buffer') = taken
    BY <1>2, <1>3, <1>4, <1>5
  <1>7. Typed'
    <2>1. taken' \in 0 .. Len(stream) /\ n <= taken' /\ cursor' \in 0 .. n
      BY <1>1, <1>2, <1>3, <1>4
    <2>2. /\ frames \in Seq(Frame) /\ Len(frames) <= MaxFrames /\ raw \in Seq(Byte)
          /\ announced \in {NoHeader} \cup 0 .. MaxPayload /\ received \in Seq(Seq(Byte))
      BY DEF Inv, Typed
    <2>3. QED
      BY <1>1, <1>2, <1>4, <1>5, <2>1, <2>2 DEF Typed
  <1>8. Buffered'
    BY <1>1, <1>5, <1>6 DEF Buffered
  <1>9. Aligned'
    <2>1. SUFFICES ASSUME NEW f \in Nat, f = Following
                   PROVE  Assembling(f)'
      BY <1>1 DEF Aligned, Following
    <2>2. Assembling(f)
      BY <1>1, <2>1 DEF Inv, Aligned
    <2>3. Consumed' = Consumed
      <3>1. Consumed = (taken - Len(buffer)) + Len(buffer)
        BY <1>1, <2>2 DEF Assembling, Consumed
      <3>2. Consumed' = taken + 0
        BY <1>1, <1>6 DEF Consumed
      <3>3. QED
        BY <1>2, <3>1, <3>2
    <2>4. Start(f)' = Start(f) /\ Size(f)' = Size(f)
      BY <1>1, PeerStays
    <2>5. Begins(raw, f)'
      BY <1>1, <2>2 DEF Assembling, Begins
    <2>6. cursor' < Len(buffer')
      BY <1>1, <1>4, <1>5
    <2>7. /\ f <= Len(frames') + 1
          /\ Consumed' = Start(f)' + Len(raw')
          /\ Len(raw') > 0 => f <= Len(frames') /\ Len(raw') < Size(f)'
          /\ announced' = IF Len(raw') >= HeaderLength THEN frames'[f].length ELSE NoHeader
      BY <1>1, <2>2, <2>3, <2>4 DEF Assembling
    <2>8. QED
      BY <1>1, <2>5, <2>6, <2>7 DEF Assembling
  <1>10. RawFits'
    BY <1>1 DEF Inv, RawFits
  <1>11. QED
    BY <1>1, <1>7, <1>8, <1>9, <1>10, PeerStays DEF Inv

\* The content of a frame.
LEMMA ContentIs ==
  ASSUME NEW bytes \in Seq(Byte), NEW length \in Nat, Len(bytes) = HeaderLength + length
  PROVE  /\ Content(bytes) \in Seq(Byte)
         /\ Len(Content(bytes)) = length
  <1>1. HeaderLength \in Nat
    BY FramingAssumption
  <1>2. Content(bytes) = SubSeq(bytes, HeaderLength + 1, HeaderLength + length)
    BY DEF Content
  <1>3. QED
    BY <1>1, <1>2, PieceOf

LEMMA ProcessKeepsInv == Inv /\ Process => Inv'
  <1> SUFFICES ASSUME Inv, Process
               PROVE  Inv'
    OBVIOUS
  <1> DEFINE in == Insert(Len(buffer))
  <1>1. /\ phase = "processing" /\ cursor' = in.cursor
        /\ RefuseLength(in) \/ CompletePayload(in) \/ AwaitMore(in)
        /\ UNCHANGED <<frames, stream, taken, buffer>>
    BY DEF Process
  <1>2. PICK F \in Nat : F = Following
    BY DEF Inv, Typed, Following
  <1>3. /\ F \in 1 .. Len(frames)
        /\ in.bytes \in Seq(Byte)
        /\ Begins(in.bytes, F)
        /\ Len(in.bytes) <= Size(F)
        /\ in.cursor \in 0 .. Len(buffer)
        /\ (taken - Len(buffer)) + in.cursor = Start(F) + Len(in.bytes)
        /\ in.announced = IF Len(in.bytes) >= HeaderLength THEN frames[F].length ELSE NoHeader
        /\ in.announced <= MaxPayload =>
             \/ BytesLeft(in.bytes, in.announced) = 0 /\ Len(in.bytes) = Size(F)
             \/ /\ BytesLeft(in.bytes, in.announced) # 0
                /\ Len(in.bytes) < Size(F)
                /\ in.cursor = Len(buffer)
    BY <1>1, <1>2, InsertAssembles
  <1> HIDE DEF in
  <1>4. /\ Len(frames) \in Nat /\ Len(buffer) \in Nat /\ taken \in Nat /\ F = Len(received) + 1
        /\ received \in Seq(Seq(Byte)) /\ Len(received) \in Nat
        /\ HeaderLength \in Nat /\ HeaderLength > 0 /\ MaxPayload \in Nat
    BY <1>2, FramingAssumption DEF Inv, Typed, Following
  <1>5. Start(F) \in Nat /\ Size(F) \in Nat /\ Size(F) = HeaderLength + frames[F].length
        /\ frames[F].length \in Nat
    <2>1. frames[F] \in Frame
      BY <1>3, ElementOfSeq DEF Inv, Typed
    <2>2. frames[F].length \in Nat
      BY <2>1, FramingAssumption DEF Frame
    <2>3. QED
      BY <1>3, <2>2, PlaceIsNat DEF Inv, Size
  <1>6. /\ Laid'
        /\ \A f \in Nat : Start(f)' = Start(f) /\ Size(f)' = Size(f)
    BY <1>1, PeerStays
  <1>7. Buffered'
    BY <1>1 DEF Inv, Buffered
  <1>8. /\ frames' \in Seq(Frame) /\ Len(frames') <= MaxFrames /\ stream' \in Seq(Byte)
        /\ taken' \in 0 .. Len(stream') /\ buffer' \in Seq(Byte)
        /\ Len(buffer') <= ReadBufferSize /\ Len(buffer') <= taken'
        /\ cursor' \in 0 .. Len(buffer')
    BY <1>1, <1>3 DEF Inv, Typed
  <1>9. /\ <<>> \in Seq(Byte) /\ Len(<<>>) = 0 /\ NoHeader = -1
    BY EmptySeq DEF NoHeader
  <1>10. Consumed' = Start(F) + Len(in.bytes)
    BY <1>1, <1>3 DEF Consumed
  <1>11. CASE RefuseLength(in)
    <2>1. phase' = "closed" /\ raw' = <<>> /\ announced' = NoHeader /\ received' = received
      BY <1>11 DEF RefuseLength
    <2>2. Typed'
      BY <1>4, <1>8, <1>9, <2>1 DEF Typed
    <2>3. Aligned'
      BY <2>1 DEF Aligned
    <2>4. RawFits'
      BY <1>4, <1>9, <2>1 DEF RawFits, MaxOf
    <2>5. QED
      BY <1>6, <1>7, <2>2, <2>3, <2>4 DEF Inv
  <1>12. CASE CompletePayload(in)
    <2>1. /\ in.announced <= MaxPayload /\ BytesLeft(in.bytes, in.announced) = 0
          /\ received' = Append(received, Content(in.bytes))
          /\ raw' = <<>> /\ announced' = NoHeader
          /\ phase' = IF RangeSize(in.cursor) = 0 THEN "reading" ELSE "processing"
      BY <1>12 DEF CompletePayload
    <2>2. Len(in.bytes) = Size(F)
      BY <1>3, <2>1
    <2>3. Content(in.bytes) \in Seq(Byte)
      BY <1>3, <1>5, <2>2, ContentIs
    <2>4. received' \in Seq(Seq(Byte)) /\ Len(received') = Len(received) + 1
      BY <1>4, <2>1, <2>3, AppendProperties
    <2>5. phase' \in {"reading", "processing", "closed"}
      BY <2>1
    <2>6. Typed'
      BY <1>8, <1>9, <2>1, <2>4, <2>5 DEF Typed
    <2>7. Aligned'
      <3>1. SUFFICES ASSUME NEW f \in Nat, f = Following'
                     PROVE  Assembling(f)'
        BY DEF Aligned
      <3>2. f = F + 1
        BY <1>4, <2>4, <3>1 DEF Following
      <3>3. f <= Len(frames') + 1
        BY <1>1, <1>3, <1>4, <3>2
      <3>4. Consumed' = Start(f)' + Len(raw')
        <4>1. Start(F + 1) = Start(F) + Size(F)
          BY <1>3 DEF Inv, Laid
        <4>2. Start(f)' = Start(F) + Size(F)
          BY <1>6, <3>2, <4>1
        <4>3. QED
          BY <1>5, <1>9, <1>10, <2>1, <2>2, <4>2
      <3>5. Begins(raw, f)'
        BY <1>9, <2>1 DEF Begins
      <3>6. /\ Len(raw') > 0 => f <= Len(frames') /\ Len(raw') < Size(f)'
            /\ announced' = IF Len(raw') >= HeaderLength THEN frames'[f].length ELSE NoHeader
        BY <1>4, <1>9, <2>1
      <3>7. /\ phase' = "reading" => cursor' = Len(buffer')
            /\ phase' = "processing" => cursor' < Len(buffer')
        <4>1. in.cursor \in Nat /\ in.cursor <= Len(buffer)
          BY <1>3, <1>4
        <4>2. CASE RangeSize(in.cursor) = 0
          <5>1. in.cursor = Len(buffer)
            BY <1>4, <4>1, <4>2 DEF RangeSize
          <5>2. QED
            BY <1>1, <2>1, <4>2, <5>1
        <4>3. CASE RangeSize(in.cursor) # 0
          <5>1. in.cursor < Len(buffer)
            BY <1>4, <4>1, <4>3 DEF RangeSize
          <5>2. QED
            BY <1>1, <2>1, <4>3, <5>1
        <4>4. QED
          BY <4>2, <4>3
      <3>8. QED
        BY <3>3, <3>4, <3>5, <3>6, <3>7 DEF Assembling
    <2>8. RawFits'
      BY <1>4, <1>9, <2>1 DEF RawFits, MaxOf
    <2>9. QED
      BY <1>6, <1>7, <2>6, <2>7, <2>8 DEF Inv
  <1>13. CASE AwaitMore(in)
    <2>1. /\ in.announced <= MaxPayload /\ BytesLeft(in.bytes, in.announced) # 0
          /\ raw' = in.bytes /\ announced' = in.announced
          /\ phase' = "reading" /\ received' = received
      BY <1>13 DEF AwaitMore
    <2>2. Len(in.bytes) < Size(F) /\ in.cursor = Len(buffer)
      BY <1>3, <2>1
    <2>3. Len(in.bytes) \in Nat
      BY <1>3
    <2>4. announced' \in {NoHeader} \cup 0 .. MaxPayload
      BY <1>3, <1>4, <1>5, <2>1
    <2>5. Typed'
      BY <1>3, <1>4, <1>8, <2>1, <2>4 DEF Typed
    <2>6. Aligned'
      <3>1. SUFFICES ASSUME NEW f \in Nat, f = Following'
                     PROVE  Assembling(f)'
        BY DEF Aligned
      <3>2. f = F
        BY <1>2, <2>1, <3>1 DEF Following
      <3>3. f <= Len(frames') + 1 /\ f <= Len(frames')
        BY <1>1, <1>3, <1>4, <3>2
      <3>4. Consumed' = Start(f)' + Len(raw')
        BY <1>6, <1>10, <2>1, <3>2
      <3>5. Begins(raw, f)'
        BY <1>3, <2>1, <3>2 DEF Begins
      <3>6. Len(raw') < Size(f)'
        BY <1>6, <2>1, <2>2, <3>2
      <3>7. announced' = IF Len(raw') >= HeaderLength THEN frames'[f].length ELSE NoHeader
        BY <1>1, <1>3, <2>1, <3>2
      <3>8. phase' = "reading" /\ cursor' = Len(buffer')
        BY <1>1, <2>1, <2>2
      <3>9. QED
        BY <3>3, <3>4, <3>5, <3>6, <3>7, <3>8 DEF Assembling
    <2>7. RawFits'
      <3>1. CASE in.announced = NoHeader
        <4>1. Len(in.bytes) < HeaderLength
          BY <1>3, <1>4, <1>5, <1>9, <2>3, <3>1, SMTT(30)
        <4>2. MaxOf(in.announced, 0) = 0
          BY <1>9, <3>1 DEF MaxOf
        <4>3. QED
          BY <1>4, <2>1, <2>3, <4>1, <4>2 DEF RawFits
      <3>2. CASE in.announced # NoHeader
        <4>1. in.announced = frames[F].length
          BY <1>3, <3>2
        <4>2. MaxOf(in.announced, 0) = frames[F].length
          BY <1>5, <4>1 DEF MaxOf
        <4>3. QED
          BY <1>5, <2>1, <2>2, <2>3, <4>2 DEF RawFits
      <3>3. QED
        BY <3>1, <3>2
    <2>8. QED
      BY <1>6, <1>7, <2>5, <2>6, <2>7 DEF Inv
  <1>14. QED
    BY <1>1, <1>11, <1>12, <1>13

LEMMA InitInv == Init => Inv
  <1> SUFFICES ASSUME Init
               PROVE  Inv
    OBVIOUS
  <1>1. /\ frames = <<>> /\ stream = <<>> /\ taken = 0 /\ buffer = <<>> /\ cursor = 0
        /\ raw = <<>> /\ announced = NoHeader /\ phase = "reading" /\ received = <<>>
    BY DEF Init
  <1>2. HeaderLength \in Nat /\ HeaderLength > 0 /\ MaxFrames \in Nat /\ ReadBufferSize \in Nat
    BY FramingAssumption
  <1>3. Typed
    BY <1>1, <1>2 DEF Typed
  <1>4. Start(1) = 0
    BY <1>1 DEF Start
  <1>5. Laid
    BY <1>1, <1>4 DEF Laid
  <1>6. Buffered
    BY <1>1 DEF Buffered
  <1>7. Assembling(1)
    BY <1>1, <1>2, <1>4 DEF Assembling, Consumed, Begins
  <1>8. Aligned
    <2>1. Following = 1
      BY <1>1 DEF Following
    <2>2. QED
      BY <1>7, <2>1 DEF Aligned
  <1>9. RawFits
    BY <1>1, <1>2 DEF RawFits, MaxOf, NoHeader
  <1>10. QED
    BY <1>3, <1>5, <1>6, <1>8, <1>9 DEF Inv

LEMMA NextKeepsInv == Inv /\ [Next]_vars => Inv'
  <1> SUFFICES ASSUME Inv, [Next]_vars
               PROVE  Inv'
    OBVIOUS
  <1>1. CASE PeerSends
    BY <1>1, SendKeepsInv
  <1>2. CASE ReadSome
    BY <1>2, ReadKeepsInv
  <1>3. CASE Process
    BY <1>3, ProcessKeepsInv
  <1>4. CASE UNCHANGED vars
    <2>1. UNCHANGED <<frames, stream, taken, buffer, cursor, raw, announced, phase, received>>
      BY <1>4 DEF vars
    <2>2. Typed' /\ Buffered' /\ RawFits'
      BY <2>1 DEF Inv, Typed, Buffered, RawFits
    <2>3. Laid'
      BY <2>1 DEF Inv, Laid, Start, Size
    <2>4. \A f : Assembling(f)' <=> Assembling(f)
      BY <2>1 DEF Assembling, Begins, Consumed, Start, Size
    <2>5. Following' = Following
      BY <2>1 DEF Following
    <2>6. Aligned'
      BY <2>1, <2>4, <2>5 DEF Inv, Aligned
    <2>7. QED
      BY <2>2, <2>3, <2>6 DEF Inv
  <1>5. QED
    BY <1>1, <1>2, <1>3, <1>4 DEF Next, Receive

\* What has been consumed of the stream is whole frames and the beginning of
\* the one that follows, however the reads cut it.
THEOREM Invariance == Spec => []Inv
  <1>1. QED
    BY InitInv, NextKeepsInv, PTL DEF Spec

\* The receiver never assembles more than one allowed frame, and its range
\* stays inside the buffer.
THEOREM TypeCorrect == Spec => []TypeOK
  <1>1. Inv => TypeOK
    <2> SUFFICES ASSUME Inv
                 PROVE  TypeOK
      OBVIOUS
    <2>1. Len(buffer) \in 0 .. ReadBufferSize
      BY DEF Inv, Typed
    <2>2. QED
      BY <2>1 DEF Inv, Typed, RawFits, TypeOK, Frame
  <1>2. QED
    BY <1>1, Invariance, PTL

-----------------------------------------------------------------------------
(* The ordered channel.                                                    *)

\* The messages that frames carry.
MessagesOf(fr) == [f \in DOMAIN fr |-> Message(f, fr[f].length)]

LEMMA MessageIs ==
  ASSUME NEW f \in Nat, NEW length \in Nat
  PROVE  Message(f, length) \in Seq(Byte) /\ Len(Message(f, length)) = length
  BY FrameBytesAre, ContentIs DEF Message

LEMMA MessagesAre ==
  ASSUME NEW fr \in Seq(Frame), Len(fr) <= MaxFrames
  PROVE  /\ MessagesOf(fr) \in Seq(Messages)
         /\ Len(MessagesOf(fr)) = Len(fr)
         /\ \A f \in 1 .. Len(fr) :
              MessagesOf(fr)[f] = Message(f, fr[f].length) /\ fr[f].length \in 0 .. MaxAnnounced
  <1>1. Len(fr) \in Nat /\ DOMAIN fr = 1 .. Len(fr) /\ MaxFrames \in Nat
    BY FramingAssumption
  <1>2. ASSUME NEW f \in 1 .. Len(fr)
        PROVE  fr[f].length \in 0 .. MaxAnnounced /\ Message(f, fr[f].length) \in Messages
    <2>1. fr[f] \in Frame
      BY <1>1, ElementOfSeq
    <2>2. fr[f].length \in 0 .. MaxAnnounced
      BY <2>1 DEF Frame
    <2>3. f \in 1 .. MaxFrames
      BY <1>1
    <2>4. QED
      BY <2>2, <2>3 DEF Messages
  <1>3. MessagesOf(fr) \in [1 .. Len(fr) -> Messages]
    BY <1>1, <1>2 DEF MessagesOf
  <1>4. MessagesOf(fr) \in Seq(Messages) /\ Len(MessagesOf(fr)) = Len(fr)
    BY <1>1, <1>3, SeqDef
  <1>5. \A f \in 1 .. Len(fr) : MessagesOf(fr)[f] = Message(f, fr[f].length)
    BY <1>1 DEF MessagesOf
  <1>6. QED
    BY <1>2, <1>4, <1>5

\* A payload that is complete is the message of its frame.
LEMMA CompleteIsMessage ==
  ASSUME NEW f \in Nat, NEW bytes \in Seq(Byte), NEW length \in Nat,
         Len(bytes) = HeaderLength + length, Begins(bytes, f)
  PROVE  Content(bytes) = Message(f, length)
  <1>1. /\ FrameBytes(f, length) \in Seq(Byte)
        /\ Len(FrameBytes(f, length)) = Len(bytes)
        /\ \A p \in 1 .. Len(bytes) : bytes[p] = FrameBytes(f, length)[p]
    BY FrameBytesAre DEF Begins
  <1>2. bytes = FrameBytes(f, length)
    BY <1>1, SeqEqual
  <1>3. QED
    BY <1>2 DEF Message

LEMMA StepImplements == Inv /\ [Next]_vars => [Channel!Next]_Channel!vars
  <1> SUFFICES ASSUME Inv, [Next]_vars
               PROVE  [Channel!Next]_Channel!vars
    OBVIOUS
  <1> DEFINE sent == MessagesOf(frames)
             sent2 == MessagesOf(frames')
  <1>1. Inv'
    BY NextKeepsInv
  <1>2. /\ frames \in Seq(Frame) /\ Len(frames) \in Nat /\ Len(frames) <= MaxFrames
        /\ frames' \in Seq(Frame) /\ Len(frames') <= MaxFrames
        /\ received \in Seq(Seq(Byte)) /\ Len(received) \in Nat
    BY <1>1 DEF Inv, Typed
  <1>3. /\ sent \in Seq(Messages) /\ Len(sent) = Len(frames)
        /\ \A f \in 1 .. Len(frames) :
             sent[f] = Message(f, frames[f].length) /\ frames[f].length \in 0 .. MaxAnnounced
    BY <1>2, MessagesAre
  <1>4. /\ sent2 \in Seq(Messages) /\ Len(sent2) = Len(frames')
        /\ \A f \in 1 .. Len(frames') :
             sent2[f] = Message(f, frames'[f].length) /\ frames'[f].length \in 0 .. MaxAnnounced
    BY <1>2, MessagesAre
  <1> HIDE DEF sent, sent2
  <1>5. frames' = frames => sent2 = sent
    BY DEF sent, sent2
  <1>6. ASSUME UNCHANGED <<frames, received>>, (phase' # "closed") <=> (phase # "closed")
        PROVE  UNCHANGED Channel!vars
    BY <1>6 DEF Channel!vars
  \* A frame is sent: a message joins the others.
  <1>7. CASE PeerSends
    <2>1. PICK new \in Nat : new = Len(frames) + 1
      BY <1>2
    <2>2. /\ Len(frames') = new
          /\ \A f \in 1 .. Len(frames) : frames'[f] = frames[f]
      BY <1>7, <2>1, SendAppends
    <2> DEFINE m == sent2[new]
    <2>3. m \in Messages
      BY <1>2, <1>4, <2>1, <2>2, ElementOfSeq
    <2> HIDE DEF m
    <2>4. /\ Append(sent, m) \in Seq(Messages) /\ Len(Append(sent, m)) = new
          /\ \A f \in 1 .. Len(sent) : Append(sent, m)[f] = sent[f]
          /\ Append(sent, m)[Len(sent) + 1] = m
      BY <1>2, <1>3, <2>1, <2>3, AppendProperties
    <2>5. ASSUME NEW f \in 1 .. new
          PROVE  sent2[f] = Append(sent, m)[f]
      <3>1. CASE f = new
        BY <1>3, <2>1, <2>4, <3>1 DEF m
      <3>2. CASE f \in 1 .. Len(frames)
        <4>1. Append(sent, m)[f] = sent[f]
          BY <1>3, <2>4, <3>2
        <4>2. frames'[f] = frames[f] /\ f \in 1 .. Len(frames')
          BY <2>2, <3>2
        <4>3. sent2[f] = Message(f, frames[f].length) /\ sent[f] = Message(f, frames[f].length)
          BY <1>3, <1>4, <3>2, <4>2
        <4>4. QED
          BY <4>1, <4>3
      <3>3. f = new \/ f \in 1 .. Len(frames)
        BY <1>2, <2>1
      <3>4. QED
        BY <3>1, <3>2, <3>3
    <2>6. sent2 = Append(sent, m)
      BY <1>4, <2>2, <2>4, <2>5, SeqEqual
    <2>7. UNCHANGED <<received, phase>>
      BY <1>7 DEF PeerSends
    <2>8. UNCHANGED <<received, phase # "closed">>
      BY <2>7
    <2>9. Channel!Send
      BY <2>3, <2>6, <2>8 DEF Channel!Send, sent, sent2, MessagesOf
    <2>10. QED
      BY <2>9 DEF Channel!Next
  \* A read tells the application nothing.
  <1>8. CASE ReadSome
    BY <1>6, <1>8 DEF ReadSome
  <1>9. CASE Process
    <2> DEFINE in == Insert(Len(buffer))
    <2>1. /\ phase = "processing"
          /\ RefuseLength(in) \/ CompletePayload(in) \/ AwaitMore(in)
          /\ UNCHANGED frames
      BY <1>9 DEF Process
    <2>2. PICK F \in Nat : F = Following
      BY DEF Inv, Typed, Following
    <2>3. /\ F \in 1 .. Len(frames)
          /\ in.bytes \in Seq(Byte)
          /\ Begins(in.bytes, F)
          /\ in.announced = IF Len(in.bytes) >= HeaderLength THEN frames[F].length ELSE NoHeader
          /\ in.announced <= MaxPayload =>
               \/ BytesLeft(in.bytes, in.announced) = 0 /\ Len(in.bytes) = Size(F)
               \/ BytesLeft(in.bytes, in.announced) # 0
      BY <2>1, <2>2, InsertAssembles
    <2> HIDE DEF in
    <2> DEFINE length == frames[F].length
               upcoming == Message(F, length)
    <2>4. F = Len(received) + 1 /\ Len(received) < Len(sent) /\ sent[Len(received) + 1] = upcoming
      <3>1. F = Len(received) + 1
        BY <2>2 DEF Following
      <3>2. QED
        BY <1>2, <1>3, <2>3, <3>1
    <2>5. length \in 0 .. MaxAnnounced /\ length \in Nat
      BY <1>3, <2>3, FramingAssumption
    <2>6. upcoming \in Messages /\ Len(upcoming) = length
      <3>1. upcoming \in Messages
        <4>1. F \in 1 .. MaxFrames
          BY <1>2, <2>3, FramingAssumption
        <4>2. QED
          BY <2>5, <4>1 DEF Messages
      <3>2. QED
        BY <2>3, <2>5, <3>1, MessageIs
    <2>7. Channel!Waiting /\ Channel!Upcoming = upcoming
      BY <2>1, <2>4 DEF Channel!Waiting, Channel!Upcoming, sent, MessagesOf
    <2> HIDE DEF upcoming
    <2>8. UNCHANGED sent
      BY <2>1 DEF sent
    \* The length is refused: the channel breaks at this message.
    <2>9. CASE RefuseLength(in)
      <3>1. phase' = "closed" /\ received' = received /\ in.announced > MaxPayload
        BY <2>9 DEF RefuseLength
      <3>2. length > MaxPayload
        BY <2>3, <3>1, FramingAssumption DEF NoHeader
      <3>3. upcoming \notin {msg \in Messages : Len(msg) <= MaxPayload}
        BY <2>5, <2>6, <3>2, FramingAssumption
      <3>4. (phase' # "closed") = FALSE
        BY <3>1
      <3>5. Channel!Break
        BY <2>7, <2>8, <3>1, <3>3, <3>4 DEF Channel!Break, sent, MessagesOf
      <3>6. QED
        BY <3>5 DEF Channel!Next
    \* The payload is complete: it is the message to deliver.
    <2>10. CASE CompletePayload(in)
      <3>1. /\ in.announced <= MaxPayload /\ BytesLeft(in.bytes, in.announced) = 0
            /\ received' = Append(received, Content(in.bytes))
            /\ phase' = IF RangeSize(in.cursor) = 0 THEN "reading" ELSE "processing"
        BY <2>10 DEF CompletePayload
      <3>2. Len(in.bytes) = HeaderLength + length
        BY <2>3, <3>1 DEF Size
      <3>3. Content(in.bytes) = upcoming
        BY <2>3, <2>5, <3>2, CompleteIsMessage DEF upcoming
      <3>4. in.announced = length
        BY <2>3, <2>5, <3>2, FramingAssumption
      <3>5. upcoming \in {msg \in Messages : Len(msg) <= MaxPayload}
        BY <2>6, <3>1, <3>4
      <3>6. UNCHANGED (phase # "closed")
        BY <2>1, <3>1
      <3>7. Channel!Deliver
        BY <2>7, <2>8, <3>1, <3>3, <3>5, <3>6 DEF Channel!Deliver, sent, MessagesOf
      <3>8. QED
        BY <3>7 DEF Channel!Next
    <2>11. CASE AwaitMore(in)
      <3>1. phase' = "reading" /\ received' = received
        BY <2>11 DEF AwaitMore
      <3>2. QED
        BY <1>6, <2>1, <3>1
    <2>12. QED
      BY <2>1, <2>9, <2>10, <2>11
  <1>10. CASE UNCHANGED vars
    BY <1>6, <1>10 DEF vars
  <1>11. QED
    BY <1>7, <1>8, <1>9, <1>10 DEF Next, Receive

\* However the stream is cut into reads, the payloads dispatched are the frames
\* sent, whole and in order, up to the first one that announces too much.
THEOREM ImplementsOrderedChannel == Spec => DeliversFramesInOrder
  <1>1. Init => Channel!Init
    <2> SUFFICES ASSUME Init
                 PROVE  Channel!Init
      OBVIOUS
    <2>1. frames = <<>> /\ received = <<>> /\ phase = "reading"
      BY DEF Init
    <2>2. frames \in Seq(Frame) /\ Len(frames) = 0 /\ Len(frames) <= MaxFrames
      BY <2>1, FramingAssumption
    <2>3. MessagesOf(frames) \in Seq(Messages) /\ Len(MessagesOf(frames)) = 0
      BY <2>2, MessagesAre
    <2>4. MessagesOf(frames) = <<>>
      BY <2>3, EmptySeq
    <2>5. (phase # "closed") = TRUE
      BY <2>1
    <2>6. QED
      BY <2>1, <2>4, <2>5 DEF Channel!Init, MessagesOf
  <1>2. QED
    BY <1>1, StepImplements, Invariance, PTL DEF Spec, DeliversFramesInOrder, Channel!Spec
=============================================================================
