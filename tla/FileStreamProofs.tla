-------------------------- MODULE FileStreamProofs --------------------------
(***************************************************************************)
(* Theorems about FileStream, for any files and sizes, chunk size, bounds  *)
(* and number of connections, however the applications push their files.   *)
(*                                                                         *)
(* The sender and the receiver have each an invariant of their own, which  *)
(* the steps of the other leave alone: what is on the wire is read as      *)
(* bytes, whatever they are.  The receiver's (Lengths) relates the queue,  *)
(* the download in progress and how much the disk has gained; the sender's *)
(* (Writing, Sending) keeps every write within the shared buffer, and the  *)
(* file in progress at the front of the queue, also when it is started     *)
(* again while writes are under way.                                       *)
(***************************************************************************)
EXTENDS FileStream, SequenceTheorems, TLAPS

Write == [size : Nat, done : Nat]

\* The buffer holds all that the writes under way are to write.
Writing ==
    \A i \in 1 .. Len(writes) :
      writes[i].done <= writes[i].size /\ writes[i].size <= Len(buffer)

\* The file in progress is the front of the queue.
Transfer(f, n) == [file |-> f, size |-> Size[f] % SizeModulus, sent |-> n]

Sending ==
    current # NoTransfer =>
      /\ toSend # <<>>
      /\ current.sent \in Nat
      /\ current = Transfer(Head(toSend), current.sent)
      /\ current.sent = 0 \/ current.sent < Size[Head(toSend)] % SizeModulus

\* No second write is started, unless a file is while a write is under way.
Alone ==
    running /\ ~overlapped =>
      Len(writes) <= 1 /\ (Len(writes) # 0 => current # NoTransfer)

SInv ==
    /\ toSend \in Seq(Files)
    /\ buffer \in Seq(Byte)
    /\ writes \in Seq(Write)
    /\ sent \subseteq Files
    /\ running \in BOOLEAN /\ overlapped \in BOOLEAN
    /\ Writing
    /\ Sending
    /\ Alone

AInv ==
    /\ announced \in Seq(Files)
    /\ submitted \in Nat /\ submitted <= Len(announced)
    /\ up \in BOOLEAN
    /\ connections \in 1 .. MaxConnections

\* The bytes that a read of the receiver may return are bytes of files.
Incoming ==
    /\ wire \in Seq(Byte \cup {AuthCode})
    /\ \A i \in 1 .. Len(wire) :
         reading = "none" \/ (reading = "auth" /\ i = 1) \/ wire[i] \in Byte

Downloaded(f, n) == [file |-> f, size |-> Size[f], received |-> n]
Received == IF download = NoTransfer THEN 0 ELSE download.received

Download ==
    /\ reading \in {"any", "auth"} => download = NoTransfer
    /\ reading = "exact" => download # NoTransfer
    /\ download # NoTransfer =>
         /\ toReceive # <<>>
         /\ download.received \in 1 .. Size[Head(toReceive)] - 1
         /\ download = Downloaded(Head(toReceive), download.received)

\* What a complete file has taken from the stream.
Whole(f) == Got(f) \in Size[f] .. (IF Size[f] < ChunkSize THEN ChunkSize ELSE Size[f])

Lengths ==
    /\ \A i, j \in 1 .. Len(toReceive) : toReceive[i] = toReceive[j] => i = j
    /\ \A i \in 1 .. Len(toReceive) :
         /\ toReceive[i] \in ToSet(announced) \ completed
         /\ Got(toReceive[i]) = IF i = 1 THEN Received ELSE 0
    /\ \A f \in ToSet(announced) :
         \/ f \in completed /\ Whole(f)
         \/ \E i \in 1 .. Len(toReceive) : toReceive[i] = f
    /\ \A f \in Files \ ToSet(announced) : Got(f) = 0

RInv ==
    /\ toReceive \in Seq(Files)
    /\ reading \in {"none", "auth", "any", "exact"}
    /\ disk \in [Files -> Seq(Byte)] /\ leftover \in [Files -> Seq(Byte)]
    /\ completed \subseteq Files
    /\ Incoming
    /\ Download
    /\ Lengths

Inv == SInv /\ AInv /\ RInv

-----------------------------------------------------------------------------
(* Sequences, sizes and contents.                                          *)

LEMMA PieceOf ==
  ASSUME NEW S, NEW s \in Seq(S), NEW c \in Nat, NEW k \in Nat, c + k <= Len(s)
  PROVE  /\ SubSeq(s, c + 1, c + k) \in Seq(S)
         /\ Len(SubSeq(s, c + 1, c + k)) = k
         /\ \A i \in 1 .. k : SubSeq(s, c + 1, c + k)[i] = s[c + i]
  <1>1. Len(s) \in Nat /\ c + 1 \in Int /\ c + k \in Int
    OBVIOUS
  <1>2. ASSUME NEW i \in c + 1 .. c + k
        PROVE  s[i] \in S
    <2>1. i \in 1 .. Len(s)
      BY <1>1
    <2>2. QED
      BY <2>1, ElementOfSeq
  <1>3. /\ SubSeq(s, c + 1, c + k) \in Seq(S)
        /\ Len(SubSeq(s, c + 1, c + k)) = IF c + 1 <= c + k THEN (c + k) - (c + 1) + 1 ELSE 0
        /\ \A i \in 1 .. (c + k) - (c + 1) + 1 :
             SubSeq(s, c + 1, c + k)[i] = s[(c + 1) + i - 1]
    BY <1>1, <1>2, SubSeqProperties
  <1>4. Len(SubSeq(s, c + 1, c + k)) = k
    BY <1>3
  <1>5. ASSUME NEW i \in 1 .. k
        PROVE  SubSeq(s, c + 1, c + k)[i] = s[c + i]
    <2>1. i \in 1 .. (c + k) - (c + 1) + 1 /\ (c + 1) + i - 1 = c + i
      OBVIOUS
    <2>2. SubSeq(s, c + 1, c + k)[i] = s[(c + 1) + i - 1]
      BY <1>3, <2>1
    <2>3. QED
      BY <2>1, <2>2
  <1>6. QED
    BY <1>3, <1>4, <1>5

LEMMA IsByte ==
  ASSUME NEW f \in Files, NEW p \in 1 .. Size[f]
  PROVE  <<f, p>> \in Byte
  <1>1. <<f, p>> \in {f} \X (1 .. Size[f])
    OBVIOUS
  <1>2. QED
    BY <1>1 DEF Byte

LEMMA ContentIs ==
  ASSUME NEW f \in Files
  PROVE  /\ Content(f) \in Seq(Byte) /\ Len(Content(f)) = Size[f]
         /\ \A p \in 1 .. Size[f] : Content(f)[p] = <<f, p>>
  <1>1. Size[f] \in Nat
    BY FileStreamAssumption
  <1>2. Content(f) \in [1 .. Size[f] -> Byte]
    BY IsByte DEF Content
  <1>3. QED
    BY <1>1, <1>2, SeqDef DEF Content

\* What RemoveAt leaves of a sequence.
LEMMA Removed ==
  ASSUME NEW S, NEW s \in Seq(S), NEW i \in 1 .. Len(s)
  PROVE  /\ RemoveAt(s, i) \in Seq(S) /\ Len(RemoveAt(s, i)) = Len(s) - 1
         /\ \A j \in 1 .. Len(s) - 1 : \E k \in 1 .. Len(s) : RemoveAt(s, i)[j] = s[k]
  <1> DEFINE a == SubSeq(s, 1, i - 1)
             b == SubSeq(s, i + 1, Len(s))
             n == Len(s)
  <1>1. n \in Nat /\ i \in Nat /\ i >= 1 /\ i <= n
    OBVIOUS
  <1>2. a \in Seq(S) /\ Len(a) = i - 1 /\ \A j \in 1 .. i - 1 : a[j] = s[j]
    <2>1. /\ SubSeq(s, 0 + 1, 0 + (i - 1)) \in Seq(S)
          /\ Len(SubSeq(s, 0 + 1, 0 + (i - 1))) = i - 1
          /\ \A j \in 1 .. i - 1 : SubSeq(s, 0 + 1, 0 + (i - 1))[j] = s[0 + j]
      <3>1. 0 \in Nat /\ i - 1 \in Nat /\ 0 + (i - 1) <= Len(s)
        BY <1>1
      <3>2. QED
        BY <3>1, PieceOf
    <2>2. 0 + 1 = 1 /\ 0 + (i - 1) = i - 1 /\ \A j \in 1 .. i - 1 : 0 + j = j
      BY <1>1
    <2>3. QED
      BY <2>1, <2>2
  <1>3. b \in Seq(S) /\ Len(b) = n - i /\ \A j \in 1 .. n - i : b[j] = s[i + j]
    <2>1. /\ SubSeq(s, i + 1, i + (n - i)) \in Seq(S)
          /\ Len(SubSeq(s, i + 1, i + (n - i))) = n - i
          /\ \A j \in 1 .. n - i : SubSeq(s, i + 1, i + (n - i))[j] = s[i + j]
      <3>1. n - i \in Nat /\ i + (n - i) <= Len(s)
        BY <1>1
      <3>2. QED
        BY <1>1, <3>1, PieceOf
    <2>2. i + (n - i) = n
      BY <1>1
    <2>3. QED
      BY <2>1, <2>2
  <1> HIDE DEF a, b, n
  <1>4. RemoveAt(s, i) = a \o b
    BY DEF RemoveAt, a, b
  <1>5. /\ a \o b \in Seq(S) /\ Len(a \o b) = Len(a) + Len(b)
        /\ \A j \in 1 .. Len(a) + Len(b) :
             (a \o b)[j] = IF j <= Len(a) THEN a[j] ELSE b[j - Len(a)]
    BY <1>2, <1>3, ConcatProperties
  <1>6. Len(a) + Len(b) = n - 1
    BY <1>1, <1>2, <1>3
  <1>7. ASSUME NEW j \in 1 .. n - 1
        PROVE  \E k \in 1 .. n : (a \o b)[j] = s[k]
    <2>1. CASE j <= i - 1
      <3>1. (a \o b)[j] = s[j] /\ j \in 1 .. n
        BY <1>1, <1>2, <1>5, <1>6, <2>1
      <3>2. QED
        BY <3>1
    <2>2. CASE ~(j <= i - 1)
      <3>1. j - (i - 1) \in 1 .. n - i /\ i + (j - (i - 1)) = j + 1 /\ j + 1 \in 1 .. n
        BY <1>1, <2>2
      <3>2. (a \o b)[j] = b[j - (i - 1)]
        BY <1>2, <1>5, <1>6, <2>2
      <3>3. (a \o b)[j] = s[j + 1]
        BY <1>3, <3>1, <3>2
      <3>4. QED
        BY <3>1, <3>3
    <2>3. QED
      BY <2>1, <2>2
  <1>8. QED
    BY <1>4, <1>5, <1>6, <1>7 DEF n

LEMMA SizesFit ==
  ASSUME NEW f \in Files
  PROVE  /\ Size[f] \in Nat /\ Size[f] > 0
         /\ Size[f] % SizeModulus \in Nat /\ Size[f] % SizeModulus <= Size[f]
  <1>1. Size[f] \in Nat \ {0} /\ SizeModulus \in Nat \ {0}
    BY FileStreamAssumption
  <1>2. \A a \in Nat, m \in Nat \ {0} : a % m \in Nat /\ a % m <= a
    <2>1. ASSUME NEW a \in Nat, NEW m \in Nat \ {0}
          PROVE  a % m \in Nat /\ a % m <= a
      <3>1. a % m \in 0 .. m - 1
        OBVIOUS
      <3>2. CASE a < m
        BY <3>2
      <3>3. CASE ~(a < m)
        BY <3>1, <3>3
      <3>4. QED
        BY <3>2, <3>3
    <2>2. QED
      BY <2>1
  <1>3. QED
    BY <1>1, <1>2

\* The first element of a sequence and the others.
LEMMA Others ==
  ASSUME NEW S, NEW s \in Seq(S), s # <<>>
  PROVE  /\ Len(s) \in Nat /\ Len(s) >= 1
         /\ Head(s) \in S /\ Head(s) = s[1]
         /\ Tail(s) \in Seq(S) /\ Len(Tail(s)) = Len(s) - 1
         /\ \A i \in 1 .. Len(s) - 1 : Tail(s)[i] = s[i + 1]
  <1>1. Len(s) \in Nat /\ Len(s) # 0
    BY EmptySeq
  <1>2. /\ Head(s) \in S /\ Tail(s) \in Seq(S) /\ Len(Tail(s)) = Len(s) - 1
        /\ \A i \in 1 .. Len(Tail(s)) : Tail(s)[i] = s[i + 1]
    BY HeadTailProperties
  <1>3. QED
    BY <1>1, <1>2

-----------------------------------------------------------------------------
(* The sender.                                                             *)

\* Writes that a buffer holds once k bytes are put at its beginning.
Fits(pending, k) ==
    \A i \in 1 .. Len(pending) :
      /\ pending[i].done <= pending[i].size
      /\ pending[i].size <= Len(buffer) \/ pending[i].size <= k

\* SendChunk starts a write of k bytes that the buffer holds, and the buffer still
\* holds the writes that were under way.
LEMMA SendChunkStarts ==
  ASSUME buffer \in Seq(Byte), NEW f \in Files, NEW n \in Nat, NEW z \in Nat,
         z <= Size[f], n <= z,
         NEW k, k = Smaller(ChunkSize, z - n),
         NEW pending \in Seq(Write), Fits(pending, k),
         SendChunk([file |-> f, size |-> z, sent |-> n], pending)
  PROVE  /\ current' = [file |-> f, size |-> z, sent |-> n]
         /\ buffer' \in Seq(Byte)
         /\ writes' \in Seq(Write) /\ Len(writes') = Len(pending) + 1
         /\ Writing'
  <1> DEFINE transfer == [file |-> f, size |-> z, sent |-> n]
             chunk == SubSeq(Content(f), n + 1, n + k)
             rest == SubSeq(buffer, k + 1, Len(buffer))
             w == [size |-> k, done |-> 0]
  <1>1. Size[f] \in Nat /\ ChunkSize \in Nat
    BY FileStreamAssumption
  <1>2. k \in Nat /\ n + k <= Size[f]
    BY <1>1 DEF Smaller
  <1>3. transfer.size = z /\ transfer.sent = n /\ transfer.file = f
    OBVIOUS
  <1>4. current' = transfer /\ buffer' = chunk \o rest /\ writes' = Append(pending, w)
    BY <1>3 DEF SendChunk
  <1>5. w \in Write /\ w.size = k /\ w.done = 0
    BY <1>2 DEF Write
  <1>6. chunk \in Seq(Byte) /\ Len(chunk) = k
    <2>1. Content(f) \in Seq(Byte) /\ Len(Content(f)) = Size[f]
      BY ContentIs
    <2>2. n + k <= Len(Content(f)) /\ n \in Nat /\ k \in Nat
      BY <1>2, <2>1
    <2>3. QED
      BY <2>1, <2>2, PieceOf
  <1>7. rest \in Seq(Byte) /\ Len(rest) \in Nat /\ k + Len(rest) >= Len(buffer)
    <2>1. Len(buffer) \in Nat
      OBVIOUS
    <2>2. ASSUME NEW i \in k + 1 .. Len(buffer)
          PROVE  buffer[i] \in Byte
      <3>1. i \in 1 .. Len(buffer)
        BY <1>2, <2>1
      <3>2. QED
        BY <3>1, ElementOfSeq
    <2>3. /\ rest \in Seq(Byte)
          /\ Len(rest) = IF k + 1 <= Len(buffer) THEN Len(buffer) - (k + 1) + 1 ELSE 0
      BY <1>2, <2>1, <2>2, SubSeqProperties
    <2>4. QED
      BY <1>2, <2>1, <2>3
  <1> HIDE DEF transfer, chunk, rest, w
  <1>8. /\ buffer' \in Seq(Byte) /\ Len(buffer') \in Nat
        /\ k <= Len(buffer') /\ Len(buffer) <= Len(buffer')
    <2>1. chunk \o rest \in Seq(Byte) /\ Len(chunk \o rest) = k + Len(rest)
      BY <1>6, <1>7, ConcatProperties
    <2>2. QED
      BY <1>2, <1>4, <1>7, <2>1
  <1>9. /\ writes' \in Seq(Write) /\ Len(writes') = Len(pending) + 1
        /\ \A i \in 1 .. Len(pending) : writes'[i] = pending[i]
        /\ writes'[Len(pending) + 1] = w
    BY <1>4, <1>5, AppendProperties
  <1>10. ASSUME NEW i \in 1 .. Len(writes')
         PROVE  writes'[i].done <= writes'[i].size /\ writes'[i].size <= Len(buffer')
    <2>1. CASE i = Len(pending) + 1
      BY <1>2, <1>5, <1>8, <1>9, <2>1
    <2>2. CASE i # Len(pending) + 1
      <3>1. i \in 1 .. Len(pending)
        BY <1>9, <2>2
      <3>2. writes'[i] = pending[i] /\ pending[i] \in Write
        BY <1>9, <3>1, ElementOfSeq
      <3>3. pending[i].size \in Nat /\ Len(buffer) \in Nat
        BY <3>2 DEF Write
      <3>4. /\ pending[i].done <= pending[i].size
            /\ pending[i].size <= Len(buffer) \/ pending[i].size <= k
        BY <3>1 DEF Fits
      <3>5. pending[i].size <= Len(buffer')
        BY <1>2, <1>8, <3>3, <3>4
      <3>6. QED
        BY <3>2, <3>4, <3>5
    <2>3. QED
      BY <2>1, <2>2
  <1>11. Writing'
    BY <1>10 DEF Writing
  <1>12. QED
    BY <1>4, <1>8, <1>9, <1>11 DEF transfer

\* SendFile starts the front of the queue from its beginning.
LEMMA SendFileStarts ==
  ASSUME buffer \in Seq(Byte), toSend' \in Seq(Files), toSend' # <<>>,
         NEW f, f = Head(toSend'),
         NEW pending \in Seq(Write),
         Fits(pending, Smaller(ChunkSize, Size[f] % SizeModulus)),
         SendFile(f, pending)
  PROVE  /\ buffer' \in Seq(Byte)
         /\ writes' \in Seq(Write) /\ Len(writes') = Len(pending) + 1
         /\ Writing' /\ Sending' /\ current' # NoTransfer
  <1>1. f \in Files
    BY Others
  <1> DEFINE z == Size[f] % SizeModulus
  <1>2. z \in Nat /\ z <= Size[f]
    BY <1>1, SizesFit
  <1>3. SendChunk([file |-> f, size |-> z, sent |-> 0], pending)
    BY DEF SendFile
  <1>4. Fits(pending, Smaller(ChunkSize, z))
    OBVIOUS
  <1> HIDE DEF z
  <1>5. z - 0 = z /\ 0 <= z
    BY <1>2
  <1>6. /\ current' = [file |-> f, size |-> z, sent |-> 0]
        /\ buffer' \in Seq(Byte)
        /\ writes' \in Seq(Write) /\ Len(writes') = Len(pending) + 1
        /\ Writing'
    BY <1>1, <1>2, <1>3, <1>4, <1>5, SendChunkStarts
  <1>7. current'.sent = 0 /\ current' # NoTransfer
    BY <1>6 DEF NoTransfer
  <1>8. current' = Transfer(f, 0)
    BY <1>6 DEF Transfer, z
  <1>9. Sending'
    <2>1. current' = Transfer(Head(toSend'), current'.sent)
      BY <1>7, <1>8
    <2>2. current'.sent \in Nat
      BY <1>7
    <2>3. QED
      BY <1>7, <2>1, <2>2 DEF Sending, Transfer
  <1>10. QED
    BY <1>6, <1>7, <1>9

\* The writes under way fit whatever is put at the beginning of the buffer.
LEMMA WritesFit ==
  ASSUME SInv, NEW k
  PROVE  Fits(writes, k) /\ \A i \in 1 .. Len(writes) : Fits(RemoveAt(writes, i), k)
  <1>1. Fits(writes, k)
    BY DEF SInv, Writing, Fits
  <1>2. ASSUME NEW i \in 1 .. Len(writes)
        PROVE  Fits(RemoveAt(writes, i), k)
    <2>1. writes \in Seq(Write)
      BY DEF SInv
    <2>2. /\ Len(RemoveAt(writes, i)) = Len(writes) - 1
          /\ \A j \in 1 .. Len(writes) - 1 :
               \E l \in 1 .. Len(writes) : RemoveAt(writes, i)[j] = writes[l]
      BY <2>1, Removed
    <2>3. QED
      BY <1>1, <2>2 DEF Fits
  <1>3. QED
    BY <1>1, <1>2

LEMMA PushFileToSendKeeps ==
  ASSUME Inv, PushFileToSend
  PROVE  SInv' /\ AInv'
  <1>1. /\ running /\ submitted < Len(announced)
        /\ submitted' = submitted + 1
        /\ toSend' = Append(toSend, announced[submitted + 1])
        /\ SendFile(Head(toSend'), writes)
        /\ overlapped' = (overlapped \/ writes # <<>>)
        /\ sent' = sent /\ running' = running
        /\ UNCHANGED <<announced, up, connections>>
    BY DEF PushFileToSend, network
  <1>2. /\ announced \in Seq(Files) /\ Len(announced) \in Nat /\ submitted \in Nat
        /\ toSend \in Seq(Files) /\ buffer \in Seq(Byte) /\ writes \in Seq(Write)
        /\ Len(writes) \in Nat
    BY DEF Inv, AInv, SInv
  <1>3. announced[submitted + 1] \in Files
    <2>1. submitted + 1 \in 1 .. Len(announced)
      BY <1>1, <1>2
    <2>2. QED
      BY <1>2, <2>1, ElementOfSeq
  <1>4. toSend' \in Seq(Files) /\ toSend' # <<>>
    <2>1. toSend' \in Seq(Files) /\ Len(toSend') = Len(toSend) + 1
      BY <1>1, <1>2, <1>3, AppendProperties
    <2>2. Len(toSend) \in Nat /\ Len(toSend') # 0
      BY <1>2, <2>1
    <2>3. QED
      BY <2>1, <2>2, EmptySeq
  <1>5. /\ buffer' \in Seq(Byte)
        /\ writes' \in Seq(Write) /\ Len(writes') = Len(writes) + 1
        /\ Writing' /\ Sending' /\ current' # NoTransfer
    <2>1. Fits(writes, Smaller(ChunkSize, Size[Head(toSend')] % SizeModulus))
      BY WritesFit DEF Inv
    <2>2. QED
      BY <1>1, <1>2, <1>4, <2>1, SendFileStarts
  <1>6. Alone'
    <2>1. ASSUME running', ~overlapped'
          PROVE  Len(writes') = 1
      <3>1. writes = <<>>
        BY <1>1, <2>1
      <3>2. Len(writes) = 0
        BY <3>1, EmptySeq
      <3>3. QED
        BY <1>5, <3>2
    <2>2. QED
      BY <1>5, <2>1 DEF Alone
  <1>7. AInv'
    BY <1>1, <1>2 DEF Inv, AInv
  <1>8. overlapped' \in BOOLEAN
    BY <1>1
  <1>9. QED
    BY <1>1, <1>4, <1>5, <1>6, <1>7, <1>8 DEF Inv, SInv

LEMMA TransmitKeeps ==
  ASSUME Inv, Transmit
  PROVE  SInv' /\ AInv' /\ Incoming'
  <1>1. /\ UNCHANGED <<toSend, current, buffer, sent, running, overlapped>>
        /\ UNCHANGED <<announced, submitted, up, connections, reading>>
    BY DEF Transmit, application, network, receiver
  <1>2. PICK i \in DOMAIN writes :
          /\ writes[i].done < writes[i].size
          /\ wire' = Append(wire, buffer[writes[i].done + 1])
          /\ writes' = [writes EXCEPT ![i].done = @ + 1]
    BY DEF Transmit
  <1>3. /\ writes \in Seq(Write) /\ Len(writes) \in Nat /\ buffer \in Seq(Byte)
        /\ Len(buffer) \in Nat /\ Writing
    BY DEF Inv, SInv
  <1>4. i \in 1 .. Len(writes) /\ writes[i] \in Write
    <2>1. i \in 1 .. Len(writes)
      BY <1>3, LenProperties
    <2>2. QED
      BY <1>3, <2>1, ElementOfSeq
  <1> DEFINE d == writes[i].done
             z == writes[i].size
             w == [writes[i] EXCEPT !.done = d + 1]
  <1>5. d \in Nat /\ z \in Nat /\ d < z /\ z <= Len(buffer)
    BY <1>2, <1>3, <1>4 DEF Write, Writing
  <1>6. w \in Write /\ w.done = d + 1 /\ w.size = z
    BY <1>4, <1>5 DEF Write
  <1>7. writes' = [writes EXCEPT ![i] = w]
    BY <1>2
  <1>8. buffer[d + 1] \in Byte
    <2>1. d + 1 \in 1 .. Len(buffer)
      BY <1>3, <1>5
    <2>2. QED
      BY <1>3, <2>1, ElementOfSeq
  <1>9. wire' = Append(wire, buffer[d + 1])
    BY <1>2
  <1> HIDE DEF d, z, w
  <1>10. /\ writes' \in Seq(Write) /\ Len(writes') = Len(writes)
         /\ writes'[i] = w
         /\ \A j \in 1 .. Len(writes) : j # i => writes'[j] = writes[j]
    BY <1>3, <1>4, <1>6, <1>7, ExceptSeq
  <1>11. Writing'
    <2>1. ASSUME NEW j \in 1 .. Len(writes)
          PROVE  writes'[j].done <= writes'[j].size /\ writes'[j].size <= Len(buffer')
      <3>1. CASE j = i
        BY <1>1, <1>5, <1>6, <1>10, <3>1
      <3>2. CASE j # i
        BY <1>1, <1>3, <1>10, <3>2 DEF Writing
      <3>3. QED
        BY <3>1, <3>2
    <2>2. QED
      BY <1>10, <2>1 DEF Writing
  <1>12. Sending' /\ Alone'
    BY <1>1, <1>10 DEF Inv, SInv, Sending, Alone
  <1>13. AInv'
    BY <1>1 DEF Inv, AInv
  <1>14. Incoming'
    <2>1. wire \in Seq(Byte \cup {AuthCode}) /\ Len(wire) \in Nat
      BY DEF Inv, RInv, Incoming
    <2>2. /\ wire' \in Seq(Byte \cup {AuthCode}) /\ Len(wire') = Len(wire) + 1
          /\ \A j \in 1 .. Len(wire) : wire'[j] = wire[j]
          /\ wire'[Len(wire) + 1] = buffer[d + 1]
      <3>1. buffer[d + 1] \in Byte \cup {AuthCode}
        BY <1>8
      <3>2. QED
        BY <1>9, <2>1, <3>1, AppendProperties
    <2>3. ASSUME NEW j \in 1 .. Len(wire) + 1
          PROVE  reading = "none" \/ (reading = "auth" /\ j = 1) \/ wire'[j] \in Byte
      <3>1. CASE j \in 1 .. Len(wire)
        BY <2>2, <3>1 DEF Inv, RInv, Incoming
      <3>2. CASE j \notin 1 .. Len(wire)
        <4>1. j = Len(wire) + 1
          BY <2>1, <3>2
        <4>2. QED
          BY <1>8, <2>2, <4>1
      <3>3. QED
        BY <3>1, <3>2
    <2>4. QED
      BY <1>1, <2>2, <2>3 DEF Incoming
  <1>15. QED
    BY <1>1, <1>10, <1>11, <1>12, <1>13, <1>14 DEF Inv, SInv

\* What the end of a write leaves: the other writes.
LEMMA OtherWrites ==
  ASSUME SInv, NEW i \in DOMAIN writes
  PROVE  /\ i \in 1 .. Len(writes) /\ writes[i] \in Write
         /\ RemoveAt(writes, i) \in Seq(Write)
         /\ Len(RemoveAt(writes, i)) = Len(writes) - 1 /\ Len(writes) \in Nat
  <1>1. writes \in Seq(Write) /\ Len(writes) \in Nat
    BY DEF SInv
  <1>2. i \in 1 .. Len(writes)
    BY <1>1, LenProperties
  <1>3. QED
    BY <1>1, <1>2, ElementOfSeq, Removed

\* The end of a file.  The callback may push another one, which is started then
\* and again after it.
LEMMA FileSentKeeps ==
  ASSUME Inv, running, current # NoTransfer, NEW i \in DOMAIN writes,
         FileSent(RemoveAt(writes, i)),
         UNCHANGED <<running, up, connections>>
  PROVE  SInv' /\ AInv'
  <1> DEFINE pending == RemoveAt(writes, i)
  <1>1. /\ pending \in Seq(Write)
        /\ Len(pending) = Len(writes) - 1 /\ Len(writes) \in Nat
        /\ \A k : Fits(pending, k)
    BY OtherWrites, WritesFit DEF Inv
  <1>2. /\ toSend \in Seq(Files) /\ toSend # <<>> /\ buffer \in Seq(Byte)
        /\ announced \in Seq(Files) /\ Len(announced) \in Nat /\ submitted \in Nat
    BY DEF Inv, SInv, Sending, AInv
  <1>3. Head(toSend) \in Files /\ Tail(toSend) \in Seq(Files)
    BY <1>2, Others
  <1>4. sent' = sent \cup {Head(toSend)} /\ announced' = announced
    BY DEF FileSent
  <1>5. EndFile(pending) \/ EndFileAndPush(pending)
    BY DEF FileSent
  <1> HIDE DEF pending
  <1>6. sent' \subseteq Files
    BY <1>3, <1>4 DEF Inv, SInv
  <1>7. CASE EndFile(pending)
    <2>1. toSend' = Tail(toSend) /\ submitted' = submitted /\ overlapped' = overlapped
      BY <1>7 DEF EndFile
    <2>2. toSend' \in Seq(Files)
      BY <1>3, <2>1
    <2>3. running /\ ~overlapped => Len(writes) <= 1
      BY DEF Inv, SInv, Alone
    <2>4. AInv'
      BY <1>4, <2>1 DEF Inv, AInv
    <2>5. CASE toSend' # <<>>
      <3>1. SendFile(Head(toSend'), pending)
        BY <1>7, <2>5 DEF EndFile
      <3>2. /\ buffer' \in Seq(Byte)
            /\ writes' \in Seq(Write) /\ Len(writes') = Len(pending) + 1
            /\ Writing' /\ Sending' /\ current' # NoTransfer
        <4>1. Fits(pending, Smaller(ChunkSize, Size[Head(toSend')] % SizeModulus))
          BY <1>1
        <4>2. QED
          BY <1>1, <1>2, <2>2, <2>5, <3>1, <4>1, SendFileStarts
      <3>3. Alone'
        BY <1>1, <2>1, <2>3, <3>2 DEF Alone
      <3>4. QED
        BY <1>6, <2>1, <2>2, <2>4, <3>2, <3>3 DEF Inv, SInv
    <2>6. CASE toSend' = <<>>
      <3>1. current' = NoTransfer /\ writes' = pending /\ buffer' = buffer
        BY <1>7, <2>6 DEF EndFile
      <3>2. Sending'
        BY <3>1 DEF Sending
      <3>3. Writing'
        <4>1. Fits(pending, 0)
          BY <1>1
        <4>2. \A j \in 1 .. Len(pending) : pending[j] \in Write
          BY <1>1, ElementOfSeq
        <4>3. \A j \in 1 .. Len(pending) : pending[j].size \in Nat
          BY <4>2 DEF Write
        <4>4. Len(buffer) \in Nat
          BY <1>2
        <4>5. QED
          BY <3>1, <4>1, <4>3, <4>4 DEF Fits, Writing
      <3>4. Alone'
        <4>1. running' /\ ~overlapped' => Len(writes') = 0
          BY <1>1, <2>1, <2>3, <3>1, OtherWrites DEF Inv
        <4>2. QED
          BY <4>1 DEF Alone
      <3>5. QED
        BY <1>1, <1>2, <1>6, <2>1, <2>2, <2>4, <3>1, <3>2, <3>3, <3>4 DEF Inv, SInv
    <2>7. QED
      BY <2>5, <2>6
  <1>8. CASE EndFileAndPush(pending)
    <2> DEFINE h == Head(toSend')
               w == FirstWrite(h)
    <2>1. /\ submitted < Len(announced) /\ submitted' = submitted + 1
          /\ toSend' = Append(Tail(toSend), announced[submitted + 1])
          /\ SendFile(h, Append(pending, w))
          /\ overlapped' = TRUE
      BY <1>8 DEF EndFileAndPush
    <2>2. announced[submitted + 1] \in Files
      <3>1. submitted + 1 \in 1 .. Len(announced)
        BY <1>2, <2>1
      <3>2. QED
        BY <1>2, <3>1, ElementOfSeq
    <2>3. toSend' \in Seq(Files) /\ toSend' # <<>>
      <3>1. toSend' \in Seq(Files) /\ Len(toSend') = Len(Tail(toSend)) + 1
        BY <1>3, <2>1, <2>2, AppendProperties
      <3>2. Len(Tail(toSend)) \in Nat /\ Len(toSend') # 0
        BY <1>3, <3>1
      <3>3. QED
        BY <3>1, <3>2, EmptySeq
    <2>4. h \in Files
      BY <2>3, Others
    <2> DEFINE k == Smaller(ChunkSize, Size[h] % SizeModulus)
    <2>5. k \in Nat
      <3>1. Size[h] % SizeModulus \in Nat /\ ChunkSize \in Nat
        BY <2>4, SizesFit, FileStreamAssumption
      <3>2. QED
        BY <3>1 DEF Smaller
    <2>6. w \in Write /\ w.size = k /\ w.done = 0
      BY <2>5 DEF FirstWrite, Write
    <2> HIDE DEF h, w, k
    <2>7. /\ Append(pending, w) \in Seq(Write) /\ Len(Append(pending, w)) = Len(pending) + 1
          /\ \A j \in 1 .. Len(pending) : Append(pending, w)[j] = pending[j]
          /\ Append(pending, w)[Len(pending) + 1] = w
      BY <1>1, <2>6, AppendProperties
    <2>8. Fits(Append(pending, w), k)
      <3>1. Fits(pending, k)
        BY <1>1
      <3>2. ASSUME NEW j \in 1 .. Len(pending) + 1
            PROVE  /\ Append(pending, w)[j].done <= Append(pending, w)[j].size
                   /\ \/ Append(pending, w)[j].size <= Len(buffer)
                      \/ Append(pending, w)[j].size <= k
        <4>1. CASE j \in 1 .. Len(pending)
          BY <2>7, <3>1, <4>1 DEF Fits
        <4>2. CASE j \notin 1 .. Len(pending)
          <5>1. j = Len(pending) + 1
            BY <1>1, <4>2
          <5>2. QED
            BY <2>5, <2>6, <2>7, <5>1
        <4>3. QED
          BY <4>1, <4>2
      <3>3. QED
        BY <2>7, <3>2 DEF Fits
    <2>9. /\ buffer' \in Seq(Byte)
          /\ writes' \in Seq(Write) /\ Writing' /\ Sending' /\ current' # NoTransfer
      <3>1. h = Head(toSend') /\ Fits(Append(pending, w), Smaller(ChunkSize, Size[h] % SizeModulus))
        BY <2>8 DEF h, k
      <3>2. QED
        BY <1>2, <2>1, <2>3, <2>7, <3>1, SendFileStarts
    <2>10. Alone'
      BY <2>1 DEF Alone
    <2>11. AInv'
      BY <1>2, <1>4, <2>1 DEF Inv, AInv
    <2>12. QED
      BY <1>6, <2>1, <2>3, <2>9, <2>10, <2>11 DEF Inv, SInv
  <1>9. QED
    BY <1>5, <1>7, <1>8

LEMMA HandleFileWriteKeeps ==
  ASSUME Inv, HandleFileWrite
  PROVE  SInv' /\ AInv'
  <1>1. running /\ UNCHANGED <<running, up, connections>>
    BY DEF HandleFileWrite, network
  <1>2. PICK i \in DOMAIN writes :
          LET transfer == [current EXCEPT !.sent = @ + writes[i].size]
              pending == RemoveAt(writes, i)
          IN  /\ current # NoTransfer
              /\ \/ transfer.sent >= transfer.size /\ FileSent(pending)
                 \/ /\ transfer.sent < transfer.size
                    /\ SendChunk(transfer, pending)
                    /\ UNCHANGED <<toSend, sent, overlapped, application>>
    BY DEF HandleFileWrite
  <1> DEFINE transfer == [current EXCEPT !.sent = @ + writes[i].size]
             pending == RemoveAt(writes, i)
  <1>3. current # NoTransfer
    BY <1>2
  <1>4. CASE FileSent(pending)
    BY <1>1, <1>3, <1>4, FileSentKeeps
  <1>5. CASE /\ transfer.sent < transfer.size
             /\ SendChunk(transfer, pending)
             /\ UNCHANGED <<toSend, sent, overlapped, application>>
    <2>1. /\ toSend \in Seq(Files) /\ toSend # <<>> /\ buffer \in Seq(Byte)
          /\ current.sent \in Nat /\ current = Transfer(Head(toSend), current.sent)
      BY <1>3 DEF Inv, SInv, Sending
    <2>2. /\ pending \in Seq(Write) /\ Len(writes) \in Nat
          /\ Len(pending) = Len(writes) - 1 /\ writes[i] \in Write
      BY OtherWrites DEF Inv
    <2> DEFINE f == Head(toSend)
               z == Size[f] % SizeModulus
               n == current.sent + writes[i].size
    <2>3. f \in Files /\ z \in Nat /\ z <= Size[f]
      BY <2>1, Others, SizesFit
    <2>4. n \in Nat
      BY <2>1, <2>2 DEF Write
    <2>5. transfer = [file |-> f, size |-> z, sent |-> n]
      <3>1. PICK c : c = current.sent
        OBVIOUS
      <3>2. current = [file |-> f, size |-> z, sent |-> c]
        BY <2>1, <3>1 DEF Transfer
      <3>3. [current EXCEPT !.sent = @ + writes[i].size]
              = [file |-> f, size |-> z, sent |-> c + writes[i].size]
        BY <3>2
      <3>4. QED
        BY <3>1, <3>3
    <2> DEFINE k == Smaller(ChunkSize, z - n)
    <2>6. n < z
      BY <1>5, <2>5
    <2>7. SendChunk([file |-> f, size |-> z, sent |-> n], pending)
      BY <1>5, <2>5
    <2>8. Fits(pending, k)
      BY OtherWrites, WritesFit DEF Inv
    <2> HIDE DEF f, z, n, k, pending, transfer
    <2>9. n <= z
      BY <2>3, <2>4, <2>6
    <2>10. /\ current' = [file |-> f, size |-> z, sent |-> n]
           /\ buffer' \in Seq(Byte)
           /\ writes' \in Seq(Write) /\ Len(writes') = Len(pending) + 1
           /\ Writing'
      BY <2>1, <2>2, <2>3, <2>4, <2>7, <2>8, <2>9, SendChunkStarts DEF k
    <2>11. current'.sent = n /\ current' # NoTransfer /\ current' = Transfer(f, n)
      BY <2>10 DEF NoTransfer, Transfer, z
    <2>12. toSend' = toSend /\ sent' = sent /\ overlapped' = overlapped
           /\ announced' = announced /\ submitted' = submitted
      BY <1>5 DEF application
    <2>13. Sending'
      BY <2>1, <2>4, <2>6, <2>11, <2>12 DEF Sending, f, z
    <2>14. Alone'
      BY <1>1, <2>2, <2>10, <2>11, <2>12 DEF Inv, SInv, Alone
    <2>15. AInv'
      BY <1>1, <2>12 DEF Inv, AInv
    <2>16. QED
      BY <1>1, <2>10, <2>12, <2>13, <2>14, <2>15 DEF Inv, SInv
  <1>6. QED
    BY <1>2, <1>4, <1>5

LEMMA HandleFileWriteErrorKeeps ==
  ASSUME Inv, HandleFileWriteError
  PROVE  SInv' /\ AInv'
  <1>1. /\ current # NoTransfer
        /\ UNCHANGED <<toSend, current, buffer, sent, running, overlapped>>
        /\ UNCHANGED <<announced, submitted, up, connections>>
    BY DEF HandleFileWriteError, application, network
  <1>2. PICK i \in DOMAIN writes : writes' = RemoveAt(writes, i)
    BY DEF HandleFileWriteError
  <1>3. /\ writes' \in Seq(Write) /\ Len(writes) \in Nat
        /\ Len(writes') = Len(writes) - 1 /\ i \in 1 .. Len(writes)
    BY <1>2, OtherWrites DEF Inv
  <1>4. Writing'
    <2>1. Fits(writes', 0)
      BY <1>2, <1>3, WritesFit DEF Inv
    <2>2. \A j \in 1 .. Len(writes') : writes'[j] \in Write
      BY <1>3, ElementOfSeq
    <2>3. \A j \in 1 .. Len(writes') : writes'[j].size \in Nat
      BY <2>2 DEF Write
    <2>4. Len(buffer) \in Nat
      BY DEF Inv, SInv
    <2>5. QED
      BY <1>1, <2>1, <2>3, <2>4 DEF Fits, Writing
  <1>5. Sending' /\ Alone'
    BY <1>1, <1>3 DEF Inv, SInv, Sending, Alone
  <1>6. AInv'
    BY <1>1 DEF Inv, AInv
  <1>7. QED
    BY <1>1, <1>3, <1>4, <1>5, <1>6 DEF Inv, SInv

LEMMA HandleFileWriteAssertKeeps ==
  ASSUME Inv, HandleFileWriteAssert
  PROVE  SInv' /\ AInv'
  <1>1. /\ UNCHANGED <<toSend, current, buffer, writes, sent, overlapped>>
        /\ UNCHANGED <<announced, submitted, connections>>
        /\ running' = FALSE /\ up' = FALSE
    BY DEF HandleFileWriteAssert, application
  <1>2. Writing' /\ Sending' /\ Alone'
    BY <1>1 DEF Inv, SInv, Writing, Sending, Alone
  <1>3. QED
    BY <1>1, <1>2 DEF Inv, SInv, AInv

\* A step that leaves the receiver alone.
LEMMA ReceiverStays ==
  ASSUME RInv, UNCHANGED <<receiver, announced, leftover>>, Incoming'
  PROVE  RInv'
  <1>1. UNCHANGED <<toReceive, download, reading, disk, completed, announced, leftover>>
    BY DEF receiver
  <1>2. Download'
    BY <1>1 DEF RInv, Download
  <1>3. Lengths'
    BY <1>1 DEF RInv, Lengths, Whole, Got, Received
  <1>4. QED
    BY <1>1, <1>2, <1>3 DEF RInv

LEMMA WireStays ==
  ASSUME RInv, UNCHANGED <<receiver, announced, leftover, wire>>
  PROVE  RInv'
  <1>1. Incoming'
    BY DEF RInv, Incoming, receiver
  <1>2. QED
    BY <1>1, ReceiverStays

LEMMA SenderKeepsInv ==
  ASSUME Inv, PushFileToSend \/ Transmit \/ HandleWrite
  PROVE  Inv'
  <1>1. CASE PushFileToSend
    <2>1. UNCHANGED <<receiver, announced, leftover, wire>>
      BY <1>1 DEF PushFileToSend, network
    <2>2. QED
      BY <1>1, <2>1, PushFileToSendKeeps, WireStays DEF Inv
  <1>2. CASE Transmit
    <2>1. UNCHANGED <<receiver, announced, leftover>>
      BY <1>2 DEF Transmit, network, application
    <2>2. QED
      BY <1>2, <2>1, TransmitKeeps, ReceiverStays DEF Inv
  <1>3. CASE HandleFileWrite
    <2>1. UNCHANGED <<receiver, leftover, wire>>
      BY <1>3 DEF HandleFileWrite, network
    <2>2. announced' = announced
      BY <1>3 DEF HandleFileWrite, FileSent, application
    <2>3. QED
      BY <1>3, <2>1, <2>2, HandleFileWriteKeeps, WireStays DEF Inv
  <1>4. CASE HandleFileWriteError
    <2>1. UNCHANGED <<receiver, announced, leftover, wire>>
      BY <1>4 DEF HandleFileWriteError, network, application
    <2>2. QED
      BY <1>4, <2>1, HandleFileWriteErrorKeeps, WireStays DEF Inv
  <1>5. CASE HandleFileWriteAssert
    <2>1. UNCHANGED <<receiver, announced, leftover, wire>>
      BY <1>5 DEF HandleFileWriteAssert, application
    <2>2. QED
      BY <1>5, <2>1, HandleFileWriteAssertKeeps, WireStays DEF Inv
  <1>6. QED
    BY <1>1, <1>2, <1>3, <1>4, <1>5 DEF HandleWrite

-----------------------------------------------------------------------------
(* The receiver.                                                           *)

LEMMA SenderStays ==
  ASSUME SInv, UNCHANGED sender
  PROVE  SInv'
  <1>1. UNCHANGED <<toSend, current, buffer, writes, sent, running, overlapped>>
    BY DEF sender
  <1>2. Writing' /\ Sending' /\ Alone'
    BY <1>1 DEF SInv, Writing, Sending, Alone
  <1>3. QED
    BY <1>1, <1>2 DEF SInv

LEMMA SetOfAppended ==
  ASSUME NEW S, NEW s \in Seq(S), NEW e \in S
  PROVE  ToSet(Append(s, e)) = ToSet(s) \cup {e}
  <1>1. /\ Append(s, e) \in Seq(S) /\ Len(Append(s, e)) = Len(s) + 1 /\ Len(s) \in Nat
        /\ \A i \in 1 .. Len(s) : Append(s, e)[i] = s[i]
        /\ Append(s, e)[Len(s) + 1] = e
    BY AppendProperties
  <1>2. DOMAIN s = 1 .. Len(s) /\ DOMAIN Append(s, e) = 1 .. Len(s) + 1
    BY <1>1, LenProperties
  <1>3. ASSUME NEW x \in ToSet(Append(s, e))
        PROVE  x \in ToSet(s) \cup {e}
    <2>1. PICK i \in 1 .. Len(s) + 1 : x = Append(s, e)[i]
      BY <1>2 DEF ToSet
    <2>2. i \in 1 .. Len(s) \/ i = Len(s) + 1
      BY <1>1
    <2>3. QED
      BY <1>1, <1>2, <2>1, <2>2 DEF ToSet
  <1>4. ASSUME NEW x \in ToSet(s) \cup {e}
        PROVE  x \in ToSet(Append(s, e))
    <2>1. CASE x = e
      <3>1. Len(s) + 1 \in 1 .. Len(s) + 1
        BY <1>1
      <3>2. QED
        BY <1>1, <1>2, <2>1, <3>1 DEF ToSet
    <2>2. CASE x \in ToSet(s)
      <3>1. PICK i \in 1 .. Len(s) : x = s[i]
        BY <1>2, <2>2 DEF ToSet
      <3>2. i \in 1 .. Len(s) + 1
        BY <1>1
      <3>3. x = Append(s, e)[i]
        BY <1>1, <3>1
      <3>4. QED
        BY <1>2, <3>2, <3>3 DEF ToSet
    <2>3. QED
      BY <2>1, <2>2
  <1>5. QED
    BY <1>3, <1>4

LEMMA PushFileToReceiveKeepsInv ==
  ASSUME Inv, NEW f \in Files, PushFileToReceive(f)
  PROVE  Inv'
  <1>1. /\ f \notin completed \cup ToSet(announced)
        /\ toReceive' = Append(toReceive, f)
        /\ announced' = Append(announced, f)
        /\ UNCHANGED <<sender, download, reading, disk, completed, submitted, up, connections,
                       leftover, wire>>
    BY DEF PushFileToReceive, network
  <1>2. /\ announced \in Seq(Files) /\ Len(announced) \in Nat
        /\ submitted \in Nat /\ submitted <= Len(announced)
        /\ toReceive \in Seq(Files) /\ Len(toReceive) \in Nat
    BY DEF Inv, AInv, RInv
  <1> DEFINE n == Len(toReceive)
  <1>3. announced' \in Seq(Files) /\ Len(announced') = Len(announced) + 1
    BY <1>1, <1>2, AppendProperties
  <1>4. /\ toReceive' \in Seq(Files) /\ Len(toReceive') = n + 1
        /\ \A i \in 1 .. n : toReceive'[i] = toReceive[i]
        /\ toReceive'[n + 1] = f
    BY <1>1, <1>2, AppendProperties
  <1>5. ToSet(announced') = ToSet(announced) \cup {f}
    BY <1>1, <1>2, SetOfAppended
  <1>6. \A g : Got(g)' = Got(g) /\ (Whole(g)' <=> Whole(g))
    BY <1>1 DEF Got, Whole
  <1>7. Received' = Received
    BY <1>1 DEF Received
  <1>8. \A i \in 1 .. n + 1 : i \in 1 .. n \/ i = n + 1
    BY <1>2
  <1>9. \A i \in 1 .. n : toReceive[i] \in ToSet(announced) \ completed
    BY DEF Inv, RInv, Lengths
  <1>10. ASSUME NEW i \in 1 .. n + 1, NEW j \in 1 .. n + 1, toReceive'[i] = toReceive'[j]
         PROVE  i = j
    <2>1. CASE i \in 1 .. n /\ j \in 1 .. n
      BY <1>4, <1>10, <2>1 DEF Inv, RInv, Lengths
    <2>2. CASE i \in 1 .. n /\ j = n + 1
      BY <1>1, <1>4, <1>9, <1>10, <2>2
    <2>3. CASE i = n + 1 /\ j \in 1 .. n
      BY <1>1, <1>4, <1>9, <1>10, <2>3
    <2>4. QED
      BY <1>8, <2>1, <2>2, <2>3
  <1>11. Download'
    <2>1. CASE download = NoTransfer
      BY <1>1, <2>1 DEF Inv, RInv, Download
    <2>2. CASE download # NoTransfer
      <3>1. toReceive # <<>>
        BY <2>2 DEF Inv, RInv, Download
      <3>2. toReceive' # <<>>
        BY <1>2, <1>4, EmptySeq
      <3>3. 1 \in 1 .. n
        BY <1>2, <3>1, Others
      <3>4. Head(toReceive') = Head(toReceive)
        BY <1>2, <1>4, <3>1, <3>2, <3>3, Others
      <3>5. QED
        BY <1>1, <3>2, <3>4 DEF Inv, RInv, Download
    <2>3. QED
      BY <2>1, <2>2
  <1>12. ASSUME NEW i \in 1 .. n + 1
         PROVE  /\ toReceive'[i] \in ToSet(announced') \ completed'
                /\ Got(toReceive'[i]) = IF i = 1 THEN Received ELSE 0
    <2>1. CASE i \in 1 .. n
      BY <1>1, <1>4, <1>5, <2>1 DEF Inv, RInv, Lengths
    <2>2. CASE i = n + 1
      <3>1. Got(f) = 0
        BY <1>1 DEF Inv, RInv, Lengths
      <3>2. i = 1 => Received = 0
        <4>1. ASSUME n = 0
              PROVE  Received = 0
          <5>1. toReceive = <<>>
            BY <1>2, <4>1, EmptySeq
          <5>2. QED
            BY <5>1 DEF Inv, RInv, Download, Received
        <4>2. QED
          BY <1>2, <2>2, <4>1
      <3>3. QED
        BY <1>1, <1>4, <1>5, <2>2, <3>1, <3>2
    <2>3. QED
      BY <1>8, <2>1, <2>2
  <1>13. ASSUME NEW g \in ToSet(announced')
         PROVE  \/ g \in completed' /\ Whole(g)'
                \/ \E i \in 1 .. n + 1 : toReceive'[i] = g
    <2>1. CASE g = f
      <3>1. n + 1 \in 1 .. n + 1
        BY <1>2
      <3>2. QED
        BY <1>4, <2>1, <3>1
    <2>2. CASE g \in ToSet(announced)
      <3>1. \/ g \in completed /\ Whole(g)
            \/ \E i \in 1 .. n : toReceive[i] = g
        BY <2>2 DEF Inv, RInv, Lengths
      <3>2. \A i \in 1 .. n : i \in 1 .. n + 1
        BY <1>2
      <3>3. QED
        BY <1>1, <1>4, <1>6, <3>1, <3>2
    <2>3. QED
      BY <1>5, <2>1, <2>2
  <1>14. \A g \in Files \ ToSet(announced') : Got(g)' = 0
    BY <1>5, <1>6 DEF Inv, RInv, Lengths
  <1>15. Lengths'
    <2>1. ASSUME NEW i \in 1 .. n + 1
          PROVE  (Got(toReceive[i]))' = IF i = 1 THEN Received' ELSE 0
      BY <1>1, <1>7, <1>12 DEF Got
    <2>2. QED
      BY <1>4, <1>10, <1>12, <1>13, <1>14, <2>1 DEF Lengths
  <1>16. RInv'
    BY <1>1, <1>4, <1>11, <1>15 DEF Inv, RInv, Incoming
  <1>17. AInv'
    BY <1>1, <1>2, <1>3 DEF Inv, AInv
  <1>18. QED
    BY <1>1, <1>16, <1>17, SenderStays DEF Inv

LEMMA OnReceiveAuthCodeKeepsInv ==
  ASSUME Inv, OnReceiveAuthCode
  PROVE  Inv'
  <1>1. /\ reading = "auth" /\ wire # <<>> /\ wire' = Tail(wire) /\ reading' = "any"
        /\ UNCHANGED <<sender, toReceive, download, disk, completed, announced, submitted, up,
                       connections, leftover>>
    BY DEF OnReceiveAuthCode, application, network
  <1>2. wire \in Seq(Byte \cup {AuthCode})
    BY DEF Inv, RInv, Incoming
  <1>3. /\ Len(wire) \in Nat
        /\ wire' \in Seq(Byte \cup {AuthCode}) /\ Len(wire') = Len(wire) - 1
        /\ \A i \in 1 .. Len(wire) - 1 : wire'[i] = wire[i + 1]
    BY <1>1, <1>2, Others
  <1>4. Incoming'
    <2>1. ASSUME NEW i \in 1 .. Len(wire) - 1
          PROVE  wire'[i] \in Byte
      <3>1. i + 1 \in 1 .. Len(wire) /\ i + 1 # 1
        BY <1>3
      <3>2. QED
        BY <1>1, <1>3, <3>1 DEF Inv, RInv, Incoming
    <2>2. QED
      BY <1>3, <2>1 DEF Incoming
  <1>5. Download'
    BY <1>1 DEF Inv, RInv, Download
  <1>6. Lengths'
    BY <1>1 DEF Inv, RInv, Lengths, Whole, Got, Received
  <1>7. RInv' /\ AInv'
    BY <1>1, <1>4, <1>5, <1>6 DEF Inv, RInv, AInv
  <1>8. QED
    BY <1>1, <1>7, SenderStays DEF Inv

LEMMA OnReceiveErrorKeepsInv ==
  ASSUME Inv, OnReceiveError
  PROVE  Inv'
  <1>1. /\ reading' = "none"
        /\ UNCHANGED <<sender, toReceive, download, disk, completed, announced, submitted, up,
                       connections, leftover, wire>>
    BY DEF OnReceiveError, application, network
  <1>2. Incoming' /\ Download'
    BY <1>1 DEF Inv, RInv, Incoming, Download
  <1>3. Lengths'
    BY <1>1 DEF Inv, RInv, Lengths, Whole, Got, Received
  <1>4. RInv' /\ AInv'
    BY <1>1, <1>2, <1>3 DEF Inv, RInv, AInv
  <1>5. QED
    BY <1>1, <1>4, SenderStays DEF Inv

LEMMA Prefix ==
  ASSUME NEW S, NEW T, NEW s \in Seq(T), NEW n \in 1 .. Len(s), \A i \in 1 .. Len(s) : s[i] \in S
  PROVE  SubSeq(s, 1, n) \in Seq(S) /\ Len(SubSeq(s, 1, n)) = n
  <1>1. Len(s) \in Nat /\ n \in Int /\ 1 <= n
    OBVIOUS
  <1>2. \A i \in 1 .. n : s[i] \in S
    BY <1>1
  <1>3. /\ SubSeq(s, 1, n) \in Seq(S)
        /\ Len(SubSeq(s, 1, n)) = IF 1 <= n THEN n - 1 + 1 ELSE 0
    BY <1>1, <1>2, SubSeqProperties
  <1>4. QED
    BY <1>1, <1>3

\* The file that a read is for, and what it had received.
LEMMA ReadFor ==
  ASSUME RInv, StartReceiveFile # NoTransfer
  PROVE  /\ toReceive # <<>> /\ Head(toReceive) \in Files
         /\ Size[Head(toReceive)] \in Nat
         /\ Received \in Nat /\ Received < Size[Head(toReceive)]
         /\ StartReceiveFile = Downloaded(Head(toReceive), Received)
  <1>1. toReceive # <<>>
    BY DEF RInv, Download, StartReceiveFile
  <1>2. Head(toReceive) \in Files
    BY <1>1, Others DEF RInv
  <1>3. Size[Head(toReceive)] \in Nat /\ Size[Head(toReceive)] > 0
    BY <1>2, SizesFit
  <1>4. CASE download = NoTransfer
    BY <1>1, <1>2, <1>3, <1>4 DEF StartReceiveFile, Downloaded, Received
  <1>5. CASE download # NoTransfer
    <2>1. /\ download.received \in 1 .. Size[Head(toReceive)] - 1
          /\ download = Downloaded(Head(toReceive), download.received)
      BY <1>5 DEF RInv, Download
    <2>2. Received = download.received /\ StartReceiveFile = download
      BY <1>5 DEF Received, StartReceiveFile
    <2>3. QED
      BY <1>1, <1>2, <1>3, <2>1, <2>2
  <1>6. QED
    BY <1>4, <1>5

\* What a read returns: bytes of files, no more than a chunk, and no more than the
\* file lacks once it has received something.
LEMMA ReadReturns ==
  ASSUME RInv, reading \in {"any", "exact"}, NEW n \in Readable
  PROVE  /\ n \in 1 .. Len(wire)
         /\ SubSeq(wire, 1, n) \in Seq(Byte) /\ Len(SubSeq(wire, 1, n)) = n
         /\ StartReceiveFile # NoTransfer =>
              (Received = 0 /\ n <= ChunkSize) \/ Received + n <= Size[Head(toReceive)]
  <1>1. /\ wire \in Seq(Byte \cup {AuthCode}) /\ Len(wire) \in Nat /\ ChunkSize \in Nat
        /\ \A i \in 1 .. Len(wire) : wire[i] \in Byte
    BY FileStreamAssumption DEF RInv, Incoming
  <1>2. CASE reading = "any"
    <2>1. n \in 1 .. Smaller(ChunkSize, Len(wire))
      BY <1>2 DEF Readable
    <2>2. n \in 1 .. Len(wire) /\ n <= ChunkSize
      BY <1>1, <2>1 DEF Smaller
    <2>3. Received = 0
      BY <1>2 DEF RInv, Download, Received
    <2>4. QED
      BY <1>1, <2>2, <2>3, Prefix
  <1>3. CASE reading = "exact"
    <2>1. n = Smaller(ChunkSize, download.size - download.received) /\ n \in 1 .. Len(wire)
      BY <1>3 DEF Readable
    <2>2. /\ download # NoTransfer
          /\ download.received \in 1 .. Size[Head(toReceive)] - 1
          /\ download = Downloaded(Head(toReceive), download.received)
          /\ toReceive # <<>>
      BY <1>3 DEF RInv, Download
    <2>3. Size[Head(toReceive)] \in Nat
      BY <2>2, Others, SizesFit DEF RInv
    <2>4. download.size = Size[Head(toReceive)] /\ Received = download.received
      BY <2>2 DEF Downloaded, Received
    <2>5. Received + n <= Size[Head(toReceive)]
      BY <1>1, <2>1, <2>2, <2>3, <2>4 DEF Smaller
    <2>6. QED
      BY <1>1, <2>1, <2>5, Prefix
  <1>4. QED
    BY <1>2, <1>3

\* What is on the wire once the bytes of a read are gone.
LEMMA WireAfterRead ==
  ASSUME RInv, reading \in {"any", "exact"}, NEW n \in 1 .. Len(wire),
         wire' = SubSeq(wire, n + 1, Len(wire))
  PROVE  Incoming'
  <1> DEFINE r == Len(wire) - n
  <1>1. wire \in Seq(Byte \cup {AuthCode}) /\ Len(wire) \in Nat
    BY DEF RInv, Incoming
  <1>2. n \in Nat /\ r \in Nat /\ n + r = Len(wire) /\ n + r <= Len(wire)
    BY <1>1
  <1> HIDE DEF r
  <1>3. /\ SubSeq(wire, n + 1, n + r) \in Seq(Byte \cup {AuthCode})
        /\ Len(SubSeq(wire, n + 1, n + r)) = r
        /\ \A j \in 1 .. r : SubSeq(wire, n + 1, n + r)[j] = wire[n + j]
    BY <1>1, <1>2, PieceOf
  <1>4. wire' = SubSeq(wire, n + 1, n + r)
    BY <1>2
  <1>5. ASSUME NEW j \in 1 .. r
        PROVE  wire'[j] \in Byte
    <2>1. n + j \in 1 .. Len(wire)
      BY <1>2
    <2>2. wire[n + j] \in Byte
      BY <2>1 DEF RInv, Incoming
    <2>3. QED
      BY <1>3, <1>4, <2>2
  <1>6. QED
    BY <1>3, <1>4, <1>5 DEF Incoming

LEMMA OnReceiveDataKeepsInv ==
  ASSUME Inv, OnReceiveData
  PROVE  Inv'
  <1>1. /\ reading \in {"any", "exact"}
        /\ UNCHANGED <<sender, announced, submitted, connections, leftover>>
    BY DEF OnReceiveData, application
  <1>2. PICK n \in Readable :
          /\ wire' = SubSeq(wire, n + 1, Len(wire))
          /\ \/ /\ StartReceiveFile # NoTransfer
                /\ ReadChunk(SubSeq(wire, 1, n))
                /\ UNCHANGED up
             \/ /\ StartReceiveFile = NoTransfer
                /\ reading' = "none"
                /\ up' = FALSE
                /\ UNCHANGED <<disk, completed, toReceive, download>>
    BY DEF OnReceiveData
  <1>3. n \in 1 .. Len(wire)
    BY <1>1, ReadReturns DEF Inv
  <1>4. Incoming'
    BY <1>1, <1>2, <1>3, WireAfterRead DEF Inv
  <1>5. SInv'
    BY <1>1, SenderStays DEF Inv
  <1>6. AInv'
    BY <1>1, <1>2 DEF Inv, AInv
  <1>7. CASE StartReceiveFile = NoTransfer
    <2>1. reading' = "none" /\ UNCHANGED <<disk, completed, toReceive, download>>
      BY <1>2, <1>7
    <2>2. Download'
      BY <2>1 DEF Inv, RInv, Download
    <2>3. Lengths'
      BY <1>1, <2>1 DEF Inv, RInv, Lengths, Whole, Got, Received
    <2>4. QED
      BY <1>1, <1>4, <1>5, <1>6, <2>1, <2>2, <2>3 DEF Inv, RInv
  <1>8. CASE StartReceiveFile # NoTransfer
    <2>1. PICK f \in Files :
            /\ f = Head(toReceive)
            /\ toReceive # <<>> /\ Size[f] \in Nat
            /\ Received \in Nat /\ Received < Size[f]
            /\ StartReceiveFile = Downloaded(f, Received)
      BY <1>8, ReadFor DEF Inv
    <2>0. PICK m : m = Received + n
      OBVIOUS
    <2> DEFINE data == SubSeq(wire, 1, n)
               done == m >= Size[f]
    <2>2. /\ data \in Seq(Byte) /\ Len(data) = n
          /\ (Received = 0 /\ n <= ChunkSize) \/ m <= Size[f]
      BY <1>1, <1>8, <2>0, <2>1, ReadReturns DEF Inv
    <2>3. /\ toReceive \in Seq(Files) /\ Len(toReceive) \in Nat /\ Len(toReceive) >= 1
          /\ f = toReceive[1]
          /\ Tail(toReceive) \in Seq(Files) /\ Len(Tail(toReceive)) = Len(toReceive) - 1
          /\ \A i \in 1 .. Len(toReceive) - 1 : Tail(toReceive)[i] = toReceive[i + 1]
      BY <2>1, Others DEF Inv, RInv
    <2>4. n \in Nat /\ n >= 1 /\ m \in Nat /\ m >= 1 /\ ChunkSize \in Nat
      <3>1. Len(wire) \in Nat
        BY DEF Inv, RInv, Incoming
      <3>2. QED
        BY <1>3, <2>0, <2>1, <3>1, FileStreamAssumption
    <2>5. ReadChunk(data)
      BY <1>2, <1>8
    <2>6. [StartReceiveFile EXCEPT !.received = @ + Len(data)] = Downloaded(f, m)
      <3>1. PICK c : c = Received
        OBVIOUS
      <3>2. StartReceiveFile = [file |-> f, size |-> Size[f], received |-> c]
        BY <2>1, <3>1 DEF Downloaded
      <3>3. [StartReceiveFile EXCEPT !.received = @ + Len(data)]
              = [file |-> f, size |-> Size[f], received |-> c + n]
        BY <2>2, <3>2
      <3>4. QED
        BY <2>0, <3>1, <3>3 DEF Downloaded
    <2>7. /\ Downloaded(f, m).file = f /\ Downloaded(f, m).size = Size[f]
          /\ Downloaded(f, m).received = m /\ Downloaded(f, m) # NoTransfer
      BY DEF Downloaded, NoTransfer
    <2> HIDE DEF data
    <2>8. /\ disk' = [disk EXCEPT ![f] = @ \o data]
          /\ completed' = IF done THEN completed \cup {f} ELSE completed
          /\ toReceive' = IF done THEN Tail(toReceive) ELSE toReceive
          /\ download' = IF done THEN NoTransfer ELSE Downloaded(f, m)
          /\ reading' = IF done THEN "any" ELSE "exact"
      BY <2>1, <2>5, <2>6, <2>7 DEF ReadChunk
    <2>9. /\ disk' \in [Files -> Seq(Byte)]
          /\ Got(f)' = Got(f) + n
          /\ \A g \in Files \ {f} : Got(g)' = Got(g) /\ (Whole(g)' <=> Whole(g))
      <3>1. /\ disk \in [Files -> Seq(Byte)] /\ disk[f] \in Seq(Byte) /\ Len(disk[f]) \in Nat
            /\ leftover' = leftover /\ leftover[f] \in Seq(Byte) /\ Len(leftover[f]) \in Nat
        BY <1>1, <2>1 DEF Inv, RInv
      <3>2. disk[f] \o data \in Seq(Byte) /\ Len(disk[f] \o data) = Len(disk[f]) + n
        BY <2>2, <3>1, ConcatProperties
      <3>3. /\ disk' \in [Files -> Seq(Byte)] /\ disk'[f] = disk[f] \o data
            /\ \A g \in Files \ {f} : disk'[g] = disk[g]
        BY <2>1, <2>8, <3>1, <3>2
      <3>4. Got(f)' = Got(f) + n
        BY <2>4, <3>1, <3>2, <3>3 DEF Got
      <3>5. QED
        BY <3>1, <3>3, <3>4 DEF Got, Whole
    <2>10. 1 \in 1 .. Len(toReceive)
      BY <2>3
    <2>11. Got(f) = Received /\ f \in ToSet(announced) /\ f \notin completed
      BY <2>3, <2>10 DEF Inv, RInv, Lengths
    <2>12. Got(f)' = m
      BY <2>0, <2>9, <2>11
    <2>13. \A i \in 1 .. Len(toReceive) : i # 1 => toReceive[i] \in Files \ {f}
      <3>1. ASSUME NEW i \in 1 .. Len(toReceive), i # 1
            PROVE  toReceive[i] \in Files \ {f}
        <4>1. toReceive[i] \in Files
          BY <2>3, ElementOfSeq
        <4>2. toReceive[i] # toReceive[1]
          BY <2>10, <3>1 DEF Inv, RInv, Lengths
        <4>3. QED
          BY <2>3, <4>1, <4>2
      <3>2. QED
        BY <3>1
    <2>14. completed' \subseteq Files
      BY <2>1, <2>8 DEF Inv, RInv
    <2>15. \A g \in Files \ ToSet(announced') : Got(g)' = 0
      BY <1>1, <2>9, <2>11 DEF Inv, RInv, Lengths
    <2>16. announced \in Seq(Files) /\ \A g \in ToSet(announced) : g \in Files
      <3>1. announced \in Seq(Files)
        BY DEF Inv, AInv
      <3>2. DOMAIN announced = 1 .. Len(announced)
        BY <3>1, LenProperties
      <3>3. QED
        BY <3>1, <3>2, ElementOfSeq DEF ToSet
    <2>17. CASE done
      <3>1. /\ completed' = completed \cup {f} /\ toReceive' = Tail(toReceive)
            /\ download' = NoTransfer /\ reading' = "any"
        BY <2>8, <2>17
      <3>2. Download' /\ Received' = 0
        BY <3>1 DEF Download, Received
      <3>3. Whole(f)'
        BY <2>0, <2>1, <2>2, <2>4, <2>12, <2>17 DEF Whole
      <3>4. \A i \in 1 .. Len(toReceive) - 1 :
              i + 1 \in 1 .. Len(toReceive) /\ i + 1 # 1 /\ toReceive'[i] = toReceive[i + 1]
        BY <2>3, <3>1
      <3>5. ASSUME NEW i \in 1 .. Len(toReceive) - 1, NEW j \in 1 .. Len(toReceive) - 1,
                   toReceive'[i] = toReceive'[j]
            PROVE  i = j
        <4>1. i + 1 = j + 1
          BY <3>4, <3>5 DEF Inv, RInv, Lengths
        <4>2. QED
          BY <2>3, <4>1
      <3>6. ASSUME NEW i \in 1 .. Len(toReceive) - 1
            PROVE  /\ toReceive'[i] \in ToSet(announced) \ completed'
                   /\ (Got(toReceive[i]))' = 0
        <4>1. toReceive'[i] = toReceive[i + 1] /\ toReceive[i + 1] \in Files \ {f}
          BY <2>13, <3>4
        <4>2. toReceive[i + 1] \in ToSet(announced) \ completed /\ Got(toReceive[i + 1]) = 0
          BY <3>4 DEF Inv, RInv, Lengths
        <4>3. PICK g \in Files \ {f} : g = toReceive[i + 1]
          BY <4>1
        <4>4. Got(g)' = 0
          BY <2>9, <4>2, <4>3
        <4>5. QED
          BY <3>1, <4>1, <4>2, <4>3, <4>4 DEF Got
      <3>7. ASSUME NEW g \in ToSet(announced)
            PROVE  \/ g \in completed' /\ Whole(g)'
                   \/ \E i \in 1 .. Len(toReceive) - 1 : toReceive'[i] = g
        <4>1. CASE g = f
          BY <3>1, <3>3, <4>1
        <4>2. CASE g # f
          <5>1. \/ g \in completed /\ Whole(g)
                \/ \E i \in 1 .. Len(toReceive) : toReceive[i] = g
            BY DEF Inv, RInv, Lengths
          <5>2. CASE g \in completed /\ Whole(g)
            BY <2>9, <2>16, <3>1, <4>2, <5>2
          <5>3. CASE \E i \in 1 .. Len(toReceive) : toReceive[i] = g
            <6>1. PICK i \in 1 .. Len(toReceive) : toReceive[i] = g
              BY <5>3
            <6>2. i # 1
              BY <2>3, <4>2, <6>1
            <6>3. i - 1 \in 1 .. Len(toReceive) - 1 /\ (i - 1) + 1 = i
              BY <2>3, <6>2
            <6>4. toReceive'[i - 1] = g
              BY <3>4, <6>1, <6>3
            <6>5. QED
              BY <6>3, <6>4
          <5>4. QED
            BY <5>1, <5>2, <5>3
        <4>3. QED
          BY <4>1, <4>2
      <3>8. Lengths'
        BY <1>1, <2>3, <2>15, <3>1, <3>2, <3>5, <3>6, <3>7 DEF Lengths
      <3>9. QED
        BY <1>1, <1>4, <1>5, <1>6, <2>3, <2>9, <2>14, <3>1, <3>2, <3>8 DEF Inv, RInv
    <2>18. CASE ~done
      <3>1. /\ completed' = completed /\ toReceive' = toReceive
            /\ download' = Downloaded(f, m) /\ reading' = "exact"
        BY <2>8, <2>18
      <3>2. download' # NoTransfer /\ download'.received = m /\ Received' = m
        BY <2>7, <3>1 DEF Received
      <3>3. m \in 1 .. Size[f] - 1
        BY <2>1, <2>4, <2>18
      <3>4. Download'
        BY <2>1, <3>1, <3>2, <3>3 DEF Download, Downloaded
      <3>5. ASSUME NEW i \in 1 .. Len(toReceive)
            PROVE  (Got(toReceive[i]))' = IF i = 1 THEN m ELSE 0
        <4>1. CASE i = 1
          BY <2>3, <2>12, <3>1, <4>1 DEF Got
        <4>2. CASE i # 1
          <5>1. PICK g \in Files \ {f} : g = toReceive[i]
            BY <2>13, <4>2
          <5>2. Got(g) = 0
            BY <4>2, <5>1 DEF Inv, RInv, Lengths
          <5>3. Got(g)' = 0
            BY <2>9, <5>2
          <5>4. QED
            BY <3>1, <4>2, <5>1, <5>3 DEF Got
        <4>3. QED
          BY <4>1, <4>2
      <3>6. ASSUME NEW g \in ToSet(announced)
            PROVE  \/ g \in completed' /\ Whole(g)'
                   \/ \E i \in 1 .. Len(toReceive) : toReceive'[i] = g
        <4>1. \/ g \in completed /\ Whole(g)
              \/ \E i \in 1 .. Len(toReceive) : toReceive[i] = g
          BY DEF Inv, RInv, Lengths
        <4>2. QED
          BY <2>9, <2>11, <2>16, <3>1, <4>1
      <3>7. Lengths'
        BY <1>1, <2>15, <3>1, <3>2, <3>5, <3>6 DEF Inv, RInv, Lengths
      <3>8. QED
        BY <1>1, <1>4, <1>5, <1>6, <2>9, <2>14, <3>1, <3>4, <3>7 DEF Inv, RInv
    <2>19. QED
      BY <2>17, <2>18
  <1>9. QED
    BY <1>7, <1>8

-----------------------------------------------------------------------------
(* The transport, new connections and the invariant.                       *)

LEMMA LoseKeepsInv ==
  ASSUME Inv, Lose
  PROVE  Inv'
  <1>1. /\ UNCHANGED <<sender, receiver, announced, submitted, connections, leftover, wire>>
        /\ up' = FALSE
    BY DEF Lose, application
  <1>2. RInv'
    <2>1. UNCHANGED <<receiver, announced, leftover, wire>>
      BY <1>1
    <2>2. QED
      BY <2>1, WireStays DEF Inv
  <1>3. SInv'
    BY <1>1, SenderStays DEF Inv
  <1>4. AInv'
    BY <1>1 DEF Inv, AInv
  <1>5. QED
    BY <1>2, <1>3, <1>4 DEF Inv

\* A new connection.
Fresh ==
    /\ toSend = <<>> /\ current = NoTransfer /\ buffer = <<>> /\ writes = <<>>
    /\ toReceive = <<>> /\ download = NoTransfer
    /\ reading \in {"any", "auth"}
    /\ wire \in {<<>>, <<AuthCode>>}
    /\ Connected(reading, wire)
    /\ disk \in [Files -> Seq(Byte)]
    /\ announced = <<>> /\ submitted = 0
    /\ sent = {} /\ running = TRUE /\ overlapped = FALSE
    /\ completed \subseteq Files
    /\ leftover = disk
    /\ up = TRUE
    /\ connections \in 1 .. MaxConnections

LEMMA FreshInv == Fresh => Inv
  <1> SUFFICES ASSUME Fresh
               PROVE  Inv
    OBVIOUS
  <1>1. \A S : <<>> \in Seq(S) /\ Len(<<>>) = 0
    BY EmptySeq
  <1>2. Writing /\ Sending /\ Alone
    BY <1>1 DEF Fresh, Writing, Sending, Alone
  <1>3. SInv
    BY <1>1, <1>2 DEF Fresh, SInv
  <1>4. AInv
    BY <1>1 DEF Fresh, AInv
  <1>5. Incoming
    <2>1. CASE wire = <<>>
      BY <1>1, <2>1 DEF Fresh, Incoming
    <2>2. CASE wire = <<AuthCode>>
      <3>1. reading = "auth"
        <4>1. wire # <<>>
          BY <2>2
        <4>2. QED
          BY <4>1 DEF Fresh, Connected
      <3>2. wire \in Seq(Byte \cup {AuthCode}) /\ Len(wire) = 1
        BY <2>2
      <3>3. QED
        BY <3>1, <3>2 DEF Incoming
    <2>3. QED
      BY <2>1, <2>2 DEF Fresh
  <1>6. Download
    BY DEF Fresh, Download
  <1>7. Lengths
    <2>1. \A f \in Files : Got(f) = 0
      <3>1. \A f \in Files : disk[f] \in Seq(Byte) /\ leftover[f] = disk[f]
        BY DEF Fresh
      <3>2. \A f \in Files : Len(disk[f]) \in Nat
        BY <3>1
      <3>3. QED
        BY <3>1, <3>2 DEF Got
    <2>2. ToSet(announced) = {}
      BY DEF Fresh, ToSet
    <2>3. Len(toReceive) = 0
      BY <1>1 DEF Fresh
    <2>4. QED
      BY <2>1, <2>2, <2>3 DEF Lengths
  <1>8. RInv
    BY <1>1, <1>5, <1>6, <1>7 DEF Fresh, RInv
  <1>9. QED
    BY <1>3, <1>4, <1>8 DEF Inv

LEMMA InitInv == Init => Inv
  <1> SUFFICES ASSUME Init
               PROVE  Inv
    OBVIOUS
  <1>1. disk \in [Files -> Seq(Byte)]
    <2>1. <<>> \in Seq(Byte)
      BY EmptySeq
    <2>2. QED
      BY <2>1 DEF Init
  <1>2. connections \in 1 .. MaxConnections
    BY FileStreamAssumption DEF Init
  <1>3. Fresh
    BY <1>1, <1>2 DEF Init, Fresh
  <1>4. QED
    BY <1>3, FreshInv

LEMMA ReconnectKeepsInv ==
  ASSUME Inv, Reconnect
  PROVE  Inv'
  <1>1. /\ UNCHANGED <<disk, completed>>
        /\ connections < MaxConnections /\ connections' = connections + 1
    BY DEF Reconnect
  <1>2. connections' \in 1 .. MaxConnections
    BY <1>1, FileStreamAssumption DEF Inv, AInv
  <1>3. disk' \in [Files -> Seq(Byte)] /\ completed' \subseteq Files
    BY <1>1 DEF Inv, RInv
  <1>4. Fresh'
    BY <1>1, <1>2, <1>3 DEF Reconnect, Fresh, Connected
  <1>5. QED
    BY <1>4, FreshInv, PTL

LEMMA StutterKeepsInv ==
  ASSUME Inv, UNCHANGED vars
  PROVE  Inv'
  <1>1. UNCHANGED <<sender, receiver, announced, submitted, up, connections, leftover, wire>>
    BY DEF vars, application, network
  <1>2. RInv'
    BY <1>1, WireStays DEF Inv
  <1>3. QED
    BY <1>1, <1>2, SenderStays DEF Inv, AInv

LEMMA StepKeepsInv == Inv /\ [Next]_vars => Inv'
  <1> SUFFICES ASSUME Inv, [Next]_vars
               PROVE  Inv'
    OBVIOUS
  <1>1. CASE PushFileToSend \/ Transmit \/ HandleWrite
    BY <1>1, SenderKeepsInv
  <1>2. CASE \E f \in Files : PushFileToReceive(f)
    BY <1>2, PushFileToReceiveKeepsInv
  <1>3. CASE Receive
    BY <1>3, OnReceiveAuthCodeKeepsInv, OnReceiveDataKeepsInv, OnReceiveErrorKeepsInv DEF Receive
  <1>4. CASE Lose
    BY <1>4, LoseKeepsInv
  <1>5. CASE Reconnect
    BY <1>5, ReconnectKeepsInv
  <1>6. CASE UNCHANGED vars
    BY <1>6, StutterKeepsInv
  <1>7. QED
    BY <1>1, <1>2, <1>3, <1>4, <1>5, <1>6 DEF Next, Push

LEMMA InvHolds == Spec => []Inv
  <1>1. QED
    BY InitInv, StepKeepsInv, PTL DEF Spec

\* The elements of a sequence.
LEMMA SetOf ==
  ASSUME NEW S, NEW s \in Seq(S)
  PROVE  ToSet(s) \subseteq S /\ \A x \in ToSet(s) : \E i \in 1 .. Len(s) : x = s[i]
  <1>1. DOMAIN s = 1 .. Len(s)
    BY LenProperties
  <1>2. QED
    BY <1>1, ElementOfSeq DEF ToSet

LEMMA InvTyped == Inv => TypeOK
  <1> SUFFICES ASSUME Inv
               PROVE  TypeOK
    OBVIOUS
  <1>1. ToSet(toSend) \cup ToSet(toReceive) \cup ToSet(announced) \subseteq Files
    BY SetOf DEF Inv, SInv, AInv, RInv
  <1>2. ASSUME current # NoTransfer
        PROVE  /\ current.sent \in {0} \cup 0 .. current.size - 1
               /\ toSend # <<>> /\ current.file = Head(toSend)
    <2>1. /\ toSend # <<>> /\ current.sent \in Nat
          /\ current = Transfer(Head(toSend), current.sent)
          /\ current.sent = 0 \/ current.sent < Size[Head(toSend)] % SizeModulus
      BY <1>2 DEF Inv, SInv, Sending
    <2>2. Size[Head(toSend)] % SizeModulus \in Nat
      BY <2>1, Others, SizesFit DEF Inv, SInv
    <2>3. current.size = Size[Head(toSend)] % SizeModulus /\ current.file = Head(toSend)
      BY <2>1 DEF Transfer
    <2>4. QED
      BY <2>1, <2>2, <2>3
  <1>3. ASSUME download # NoTransfer
        PROVE  download.received \in 1 .. download.size - 1
    <2>1. /\ download.received \in 1 .. Size[Head(toReceive)] - 1
          /\ download = Downloaded(Head(toReceive), download.received)
      BY <1>3 DEF Inv, RInv, Download
    <2>2. download.size = Size[Head(toReceive)]
      BY <2>1 DEF Downloaded
    <2>3. QED
      BY <2>1, <2>2
  <1>4. ToSet(buffer) \subseteq Byte /\ ToSet(wire) \subseteq Byte \cup {AuthCode}
    BY SetOf DEF Inv, SInv, RInv, Incoming
  <1>5. ASSUME NEW i \in DOMAIN writes
        PROVE  writes[i].done \in 0 .. writes[i].size
    <2>1. i \in 1 .. Len(writes) /\ writes[i] \in Write
      BY OtherWrites DEF Inv
    <2>2. writes[i].done <= writes[i].size
      BY <2>1 DEF Inv, SInv, Writing
    <2>3. QED
      BY <2>1, <2>2 DEF Write
  <1>6. submitted \in 0 .. Len(announced)
    BY DEF Inv, AInv
  <1>7. QED
    BY <1>1, <1>2, <1>3, <1>4, <1>5, <1>6 DEF TypeOK, Inv, SInv, AInv, RInv

LEMMA InvLengths == Inv => CompletedLength
  <1> SUFFICES ASSUME Inv, NEW f \in ToSet(announced)
               PROVE  IF f \in completed THEN Whole(f) ELSE Got(f) < Size[f]
    BY DEF CompletedLength, Whole
  <1>1. f \in Files
    BY SetOf DEF Inv, AInv
  <1>2. Size[f] \in Nat /\ Size[f] > 0
    BY <1>1, SizesFit
  <1>3. \/ f \in completed /\ Whole(f)
        \/ \E i \in 1 .. Len(toReceive) : toReceive[i] = f
    BY DEF Inv, RInv, Lengths
  <1>4. CASE f \in completed /\ Whole(f)
    BY <1>4
  <1>5. CASE \E i \in 1 .. Len(toReceive) : toReceive[i] = f
    <2>1. PICK i \in 1 .. Len(toReceive) : toReceive[i] = f
      BY <1>5
    <2>2. f \notin completed /\ Got(f) = IF i = 1 THEN Received ELSE 0
      BY <2>1 DEF Inv, RInv, Lengths
    <2>3. i = 1 => Received < Size[f]
      <3>1. ASSUME i = 1, download # NoTransfer
            PROVE  download.received < Size[f]
        <4>1. toReceive # <<>> /\ download.received \in 1 .. Size[Head(toReceive)] - 1
          BY <3>1 DEF Inv, RInv, Download
        <4>2. Head(toReceive) = f
          BY <2>1, <3>1, <4>1, Others DEF Inv, RInv
        <4>3. QED
          BY <1>2, <4>1, <4>2
      <3>2. QED
        BY <1>2, <3>1 DEF Received
    <2>4. QED
      BY <1>2, <2>2, <2>3
  <1>6. QED
    BY <1>3, <1>4, <1>5

LEMMA InvAlone == Inv => WriteHasTransfer
  <1> SUFFICES ASSUME Inv, running, ~overlapped, NEW i \in DOMAIN writes
               PROVE  current # NoTransfer
    BY DEF WriteHasTransfer
  <1>1. i \in 1 .. Len(writes) /\ Len(writes) \in Nat
    BY OtherWrites DEF Inv
  <1>2. Len(writes) # 0
    BY <1>1
  <1>3. QED
    BY <1>2 DEF Inv, SInv, Alone

\* Every behaviour keeps its types: no chunk is taken past the end of a file and no
\* write past the end of the shared buffer, also when the front of the queue is
\* started again while writes are under way, and no download runs past its size.
THEOREM TypeCorrect == Spec => []TypeOK
  <1>1. QED
    BY InvHolds, InvTyped, PTL

\* ReadChunk: however many files follow one another on the stream, and whatever the
\* sender puts there, a file of the size of the read buffer or more is completed by
\* exactly its size, a smaller one by no more than a buffer, and none by less.
THEOREM FilesEndInPlace == Spec => []CompletedLength
  <1>1. QED
    BY InvHolds, InvLengths, PTL

\* ASSERT(IsSendingFile()) of HandleFileWriteAsync holds as long as no file is
\* started while a write is under way: by PushFileToSend during a transfer, or from
\* the callback at the end of one.
THEOREM AssertionHoldsAlone == Spec => []WriteHasTransfer
  <1>1. QED
    BY InvHolds, InvAlone, PTL
=============================================================================
