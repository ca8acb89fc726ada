----------------------------- MODULE FileStream -----------------------------
(***************************************************************************)
(* FileStreamConnection.cpp: files sent as raw bytes on a connection of    *)
(* their own, a chunk at a time, with no header between them.  The module  *)
(* composes the uploading end and the downloading end of one direction.    *)
(*                                                                         *)
(* A byte is a file and a position in it.  The applications that queue the *)
(* files are not part of the repository: they announce a file to the       *)
(* receiver before they send it, and may send it at any time after that,   *)
(* from the callback at the end of another one too.                        *)
(***************************************************************************)
EXTENDS Integers, Sequences, SequencesExt, FiniteSets

CONSTANTS
    Files,           \* files to send
    Size,            \* Size[f] is the number of bytes of file f
    ChunkSize,       \* FILE_STREAM_BUFFER_SIZE
    SizeModulus,     \* 2^32, for (UInt32)size
    MaxConnections,  \* bound on the connections made
    MaxAnnounced,    \* MaxAnnounced[n] bounds the files announced on the n-th
    WireCapacity,    \* bytes that the sockets and the network hold
    AuthCode         \* username and authentication code of a client

ASSUME FileStreamAssumption ==
    /\ Size \in [Files -> Nat \ {0}]
    /\ ChunkSize \in Nat \ {0}
    /\ SizeModulus \in Nat \ {0}
    /\ MaxConnections \in Nat \ {0}
    /\ MaxAnnounced \in [1 .. MaxConnections -> Nat]
    /\ WireCapacity \in Nat
    /\ AuthCode \notin Files

VARIABLES
    toSend,      \* m_filesToSendQueue of the sender
    current,     \* m_currentFileSend and the file its stream reads
    buffer,      \* m_writeBuffer
    writes,      \* async_writes under way: bytes to write, bytes written
    wire,        \* bytes in transit
    toReceive,   \* m_filesToReceiveQueue of the receiver
    download,    \* m_currentFileDownload and the file its stream appends to
    reading,     \* the pending read: "none", "auth", "any" or "exact"
    disk,        \* file -> what the receiver's disk holds of it
    announced,   \* files announced on this connection, in order (application)
    submitted,   \* how many of them were given to the sender (application)
    sent,        \* files of OnFileSentSuccessfully on this connection
    running,     \* no assertion has ended the sender's program
    overlapped,  \* a file was started while a write was under way (history)
    completed,   \* files of OnFileDownloadCompleted
    leftover,    \* disk when the connection was made (history)
    up,          \* the transport works
    connections  \* connections made

sender == <<toSend, current, buffer, writes, sent, running, overlapped>>
receiver == <<toReceive, download, reading, disk, completed>>
application == <<announced, submitted>>
network == <<up, connections, leftover>>
vars == <<sender, receiver, application, network, wire>>

NoTransfer == [size |-> 0]
Smaller(a, b) == IF a < b THEN a ELSE b

Content(f) == [i \in 1 .. Size[f] |-> <<f, i>>]

-----------------------------------------------------------------------------
(* The sender.  File operations of one handler run in one step.            *)

\* Mutation: a file is over when its last chunk is started.
SendChunkAndEnd(transfer, pending) ==
    LET n == Smaller(ChunkSize, transfer.size - transfer.sent)
        chunk == SubSeq(Content(transfer.file), transfer.sent + 1, transfer.sent + n)
    IN  /\ current' = IF transfer.sent + n >= transfer.size THEN NoTransfer ELSE transfer
        /\ buffer' = chunk \o SubSeq(buffer, n + 1, Len(buffer))
        /\ writes' = Append(pending, [size |-> n, done |-> 0])

\* Mutation: the file is read from its beginning for every chunk.
SendChunkFromStart(transfer, pending) ==
    LET n == Smaller(ChunkSize, transfer.size - transfer.sent)
    IN  /\ current' = transfer
        /\ buffer' = SubSeq(Content(transfer.file), 1, n) \o SubSeq(buffer, n + 1, Len(buffer))
        /\ writes' = Append(pending, [size |-> n, done |-> 0])

\* SendChunk: the chunk replaces the beginning of the write buffer.
SendChunk(transfer, pending) ==
    LET n == Smaller(ChunkSize, transfer.size - transfer.sent)
        chunk == SubSeq(Content(transfer.file), transfer.sent + 1, transfer.sent + n)
    IN  /\ current' = transfer
        /\ buffer' = chunk \o SubSeq(buffer, n + 1, Len(buffer))
        /\ writes' = Append(pending, [size |-> n, done |-> 0])

\* SendFileFromQueue, SendFileInternal
SendFile(f, pending) ==
    SendChunk([file |-> f, size |-> Size[f] % SizeModulus, sent |-> 0], pending)

\* The write that SendFile starts.
FirstWrite(f) == [size |-> Smaller(ChunkSize, Size[f] % SizeModulus), done |-> 0]

\* PushFileToSend, called by the application for the next announced file: it
\* starts the front of the queue, whatever is being sent.
PushFileToSend ==
    /\ running
    /\ submitted < Len(announced)
    /\ submitted' = submitted + 1
    /\ toSend' = Append(toSend, announced[submitted + 1])
    /\ SendFile(Head(toSend'), writes)
    /\ overlapped' = (overlapped \/ writes # <<>>)
    /\ UNCHANGED <<sent, running, receiver, announced, network, wire>>

\* The transport takes a byte of a write from the buffer as it is by then.
Transmit ==
    /\ running /\ up
    /\ Len(wire) < WireCapacity
    /\ \E i \in DOMAIN writes :
         /\ writes[i].done < writes[i].size
         /\ wire' = Append(wire, buffer[writes[i].done + 1])
         /\ writes' = [writes EXCEPT ![i].done = @ + 1]
    /\ UNCHANGED <<toSend, current, buffer, sent, running, overlapped,
                   receiver, application, network>>

\* OnFileSentInternal when the callback pushes no file.
EndFile(pending) ==
    /\ toSend' = Tail(toSend)
    /\ IF toSend' # <<>>
         THEN SendFile(Head(toSend'), pending)
         ELSE /\ current' = NoTransfer
              /\ writes' = pending
              /\ UNCHANGED buffer
    /\ UNCHANGED <<submitted, overlapped>>

\* OnFileSentInternal when the callback calls PushFileToSend: the front of the
\* queue is started by it and again once it returns.
EndFileAndPush(pending) ==
    /\ submitted < Len(announced)
    /\ submitted' = submitted + 1
    /\ toSend' = Append(Tail(toSend), announced[submitted + 1])
    /\ SendFile(Head(toSend'), Append(pending, FirstWrite(Head(toSend'))))
    /\ overlapped' = TRUE

\* OnFileSentInternal, with OnFileSentSuccessfully of the application.
FileSent(pending) ==
    /\ sent' = sent \cup {Head(toSend)}
    /\ EndFile(pending) \/ EndFileAndPush(pending)
    /\ UNCHANGED announced

\* Mutation: the last chunk is not noticed when the sizes are equal.
HandleFileWriteStrict ==
    /\ running
    /\ \E i \in DOMAIN writes :
         LET transfer == [current EXCEPT !.sent = @ + writes[i].size]
             pending == RemoveAt(writes, i)
         IN  /\ writes[i].done = writes[i].size
             /\ current # NoTransfer
             /\ \/ transfer.sent > transfer.size /\ FileSent(pending)
                \/ /\ transfer.sent <= transfer.size
                   /\ SendChunk(transfer, pending)
                   /\ UNCHANGED <<toSend, sent, overlapped, application>>
    /\ UNCHANGED <<running, receiver, network, wire>>

\* Mutation: only the first chunk of a file is started.
HandleFileWriteOnce ==
    /\ running
    /\ \E i \in DOMAIN writes :
         LET transfer == [current EXCEPT !.sent = @ + writes[i].size]
             pending == RemoveAt(writes, i)
         IN  /\ writes[i].done = writes[i].size
             /\ current # NoTransfer
             /\ \/ transfer.sent >= transfer.size /\ FileSent(pending)
                \/ /\ transfer.sent < transfer.size
                   /\ current' = transfer
                   /\ writes' = pending
                   /\ UNCHANGED <<buffer, toSend, sent, overlapped, application>>
    /\ UNCHANGED <<running, receiver, network, wire>>

\* HandleFileWriteAsync without an error.
HandleFileWrite ==
    /\ running
    /\ \E i \in DOMAIN writes :
         LET transfer == [current EXCEPT !.sent = @ + writes[i].size]
             pending == RemoveAt(writes, i)
         IN  /\ writes[i].done = writes[i].size
             /\ current # NoTransfer
             /\ \/ transfer.sent >= transfer.size /\ FileSent(pending)
                \/ /\ transfer.sent < transfer.size
                   /\ SendChunk(transfer, pending)
                   /\ UNCHANGED <<toSend, sent, overlapped, application>>
    /\ UNCHANGED <<running, receiver, network, wire>>

\* HandleFileWriteAsync with an error: m_currentFileSend stays.
HandleFileWriteError ==
    /\ running /\ ~up
    /\ current # NoTransfer
    /\ \E i \in DOMAIN writes : writes' = RemoveAt(writes, i)
    /\ UNCHANGED <<toSend, current, buffer, sent, running, overlapped,
                   receiver, application, network, wire>>

\* ASSERT(IsSendingFile()) of HandleFileWriteAsync, which ends the program.
HandleFileWriteAssert ==
    /\ running
    /\ current = NoTransfer
    /\ \E i \in DOMAIN writes : writes[i].done = writes[i].size \/ ~up
    /\ running' = FALSE
    /\ up' = FALSE
    /\ UNCHANGED <<toSend, current, buffer, writes, sent, overlapped,
                   receiver, application, connections, leftover, wire>>

-----------------------------------------------------------------------------
(* The receiver.                                                           *)

\* PushFileToReceive, called by the application.
PushFileToReceive(f) ==
    /\ up
    /\ f \notin completed \cup ToSet(announced)
    /\ Len(announced) < MaxAnnounced[connections]
    /\ toReceive' = Append(toReceive, f)
    /\ announced' = Append(announced, f)
    /\ UNCHANGED <<sender, download, reading, disk, completed, submitted, network, wire>>

\* OnReceiveAuthCode, on a server: it listens for data whatever it received.
OnReceiveAuthCode ==
    /\ reading = "auth"
    /\ wire # <<>>
    /\ wire' = Tail(wire)
    /\ reading' = "any"
    /\ UNCHANGED <<sender, toReceive, download, disk, completed, application, network>>

\* StartReceiveFile, unless a download is in progress.
StartReceiveFile ==
    IF download = NoTransfer /\ toReceive # <<>>
      THEN [file |-> Head(toReceive), size |-> Size[Head(toReceive)], received |-> 0]
      ELSE download

\* Mutation: nothing is listened for after the end of a file.
ReadChunkThenStop(data) ==
    LET transfer == [StartReceiveFile EXCEPT !.received = @ + Len(data)]
        done == transfer.received >= transfer.size
    IN  /\ disk' = [disk EXCEPT ![transfer.file] = @ \o data]
        /\ completed' = IF done THEN completed \cup {Head(toReceive)} ELSE completed
        /\ toReceive' = IF done THEN Tail(toReceive) ELSE toReceive
        /\ download' = IF done THEN NoTransfer ELSE transfer
        /\ reading' = IF done THEN "none" ELSE "exact"

\* Mutation: the rest of a file is read like its beginning.
ReadChunkAny(data) ==
    LET transfer == [StartReceiveFile EXCEPT !.received = @ + Len(data)]
        done == transfer.received >= transfer.size
    IN  /\ disk' = [disk EXCEPT ![transfer.file] = @ \o data]
        /\ completed' = IF done THEN completed \cup {Head(toReceive)} ELSE completed
        /\ toReceive' = IF done THEN Tail(toReceive) ELSE toReceive
        /\ download' = IF done THEN NoTransfer ELSE transfer
        /\ reading' = "any"

\* ReadChunk with a download in progress: everything read goes to its file, then
\* ListenForNewData or ListenExactly.
ReadChunk(data) ==
    LET transfer == [StartReceiveFile EXCEPT !.received = @ + Len(data)]
        done == transfer.received >= transfer.size
    IN  /\ disk' = [disk EXCEPT ![transfer.file] = @ \o data]
        /\ completed' = IF done THEN completed \cup {Head(toReceive)} ELSE completed
        /\ toReceive' = IF done THEN Tail(toReceive) ELSE toReceive
        /\ download' = IF done THEN NoTransfer ELSE transfer
        /\ reading' = IF done THEN "any" ELSE "exact"

\* How many bytes the pending read may return: what there is, up to the size of
\* the buffer, or exactly what the file lacks, up to the size of the buffer.
Readable ==
    IF reading = "any"
      THEN 1 .. Smaller(ChunkSize, Len(wire))
      ELSE {Smaller(ChunkSize, download.size - download.received)} \cap (1 .. Len(wire))

\* OnReceiveData: bytes that no download is waiting for close the connection.
OnReceiveData ==
    /\ reading \in {"any", "exact"}
    /\ \E n \in Readable :
         /\ wire' = SubSeq(wire, n + 1, Len(wire))
         /\ \/ /\ StartReceiveFile # NoTransfer
               /\ ReadChunk(SubSeq(wire, 1, n))
               /\ UNCHANGED up
            \/ /\ StartReceiveFile = NoTransfer
               /\ reading' = "none"
               /\ up' = FALSE
               /\ UNCHANGED <<disk, completed, toReceive, download>>
    /\ UNCHANGED <<sender, application, connections, leftover>>

\* A read that ends with an error is not started again.
OnReceiveError ==
    /\ ~up
    /\ reading # "none"
    /\ reading' = "none"
    /\ UNCHANGED <<sender, toReceive, download, disk, completed, application, network, wire>>

-----------------------------------------------------------------------------
(* The transport, and the applications that connect again.                 *)

\* OnSocketConnectedInternal: a client listens for data, a server first for the
\* authentication message that its client has sent.
Connected(read, bytes) ==
    \/ read = "any" /\ bytes = <<>>
    \/ read = "auth" /\ bytes = <<AuthCode>>

Init ==
    /\ toSend = <<>> /\ current = NoTransfer /\ buffer = <<>> /\ writes = <<>>
    /\ toReceive = <<>> /\ download = NoTransfer
    /\ reading \in {"any", "auth"}
    /\ wire \in {<<>>, <<AuthCode>>}
    /\ Connected(reading, wire)
    /\ disk = [f \in Files |-> <<>>]
    /\ announced = <<>> /\ submitted = 0
    /\ sent = {} /\ completed = {}
    /\ running = TRUE /\ overlapped = FALSE
    /\ leftover = disk
    /\ up = TRUE
    /\ connections = 1

\* The transport breaks; bytes in transit may still arrive.
Lose ==
    /\ up
    /\ up' = FALSE
    /\ UNCHANGED <<sender, receiver, application, connections, leftover, wire>>

\* New connection objects on both ends: the disk remains, and what is complete.
Reconnect ==
    /\ ~up
    /\ connections < MaxConnections
    /\ connections' = connections + 1
    /\ up' = TRUE
    /\ toSend' = <<>> /\ current' = NoTransfer /\ buffer' = <<>> /\ writes' = <<>>
    /\ toReceive' = <<>> /\ download' = NoTransfer
    /\ reading' \in {"any", "auth"}
    /\ wire' \in {<<>>, <<AuthCode>>}
    /\ Connected(reading', wire')
    /\ announced' = <<>> /\ submitted' = 0
    /\ sent' = {} /\ running' = TRUE /\ overlapped' = FALSE
    /\ leftover' = disk
    /\ UNCHANGED <<disk, completed>>

Push == PushFileToSend \/ \E f \in Files : PushFileToReceive(f)

HandleWrite == HandleFileWrite \/ HandleFileWriteError \/ HandleFileWriteAssert

Receive == OnReceiveAuthCode \/ OnReceiveData \/ OnReceiveError

Next ==
    \/ Push
    \/ Transmit
    \/ HandleWrite
    \/ Receive
    \/ Lose
    \/ Reconnect

Spec == Init /\ [][Next]_vars

\* The io_context runs the handlers that are ready and the transport moves bytes;
\* no application has to push a file.
FairSpec ==
    Spec /\ WF_vars(Transmit) /\ WF_vars(HandleWrite) /\ WF_vars(Receive)

-----------------------------------------------------------------------------
(* Properties.                                                             *)

Byte == UNION {{f} \X (1 .. Size[f]) : f \in Files}

TypeOK ==
    /\ ToSet(toSend) \cup ToSet(toReceive) \cup ToSet(announced) \subseteq Files
    /\ current # NoTransfer => current.sent \in {0} \cup 0 .. current.size - 1
                               /\ toSend # <<>> /\ current.file = Head(toSend)
    /\ download # NoTransfer => download.received \in 1 .. download.size - 1
    /\ ToSet(buffer) \subseteq Byte
    /\ ToSet(wire) \subseteq Byte \cup {AuthCode}
    /\ \A i \in DOMAIN writes : writes[i].done \in 0 .. writes[i].size
    /\ reading \in {"none", "auth", "any", "exact"}
    /\ disk \in [Files -> Seq(Byte)]
    /\ submitted \in 0 .. Len(announced)
    /\ sent \subseteq Files /\ completed \subseteq Files
    /\ running \in BOOLEAN /\ overlapped \in BOOLEAN
    /\ connections \in 1 .. MaxConnections

\* What this connection has appended to a file, and how much.
Appended(f) == SubSeq(disk[f], Len(leftover[f]) + 1, Len(disk[f]))
Got(f) == Len(disk[f]) - Len(leftover[f])

Stored == FlattenSeq([i \in DOMAIN announced |-> Appended(announced[i])])
InTransit == SelectSeq(wire, LAMBDA b : b # AuthCode)

\* The sizes of FileSend are of 32 bits: so much of each file is to be sent.
ToBeSent ==
    FlattenSeq([i \in 1 .. submitted |->
        SubSeq(Content(announced[i]), 1, Size[announced[i]] % SizeModulus)])

\* The files are one stream of bytes, with no header between them: what the
\* receiver has put on disk, file after file, and what is in transit are the
\* beginning of the files pushed, one after the other, and all of them once the
\* queue is empty.  Unless a file is started while a write is under way, as
\* PushFileToSend does.
StreamIsFiles ==
    (up /\ ~overlapped) =>
        /\ IsPrefix(Stored \o InTransit, ToBeSent)
        /\ toSend = <<>> => Stored \o InTransit = ToBeSent

\* ReadChunk gives a file everything that is read while it is downloaded.  Whatever
\* the sender does, and however many files follow one another on the stream, only
\* the first read of a file may go past its end: a file of the size of the buffer
\* or more takes exactly its size from the stream, a smaller one at most a buffer.
CompletedLength ==
    \A f \in ToSet(announced) :
        IF f \in completed
          THEN Got(f) \in Size[f] .. (IF Size[f] < ChunkSize THEN ChunkSize ELSE Size[f])
          ELSE Got(f) < Size[f]

\* A file that was pushed is reported as sent, unless the connection is lost.
EveryFileIsSent ==
    \A f \in Files :
        (f \in ToSet(SubSeq(announced, 1, submitted))) ~> (f \in sent \/ ~up)

\* The bytes of the file at the front of the receiver's queue that were received
\* or are in transit.
AtFront ==
    Len(InTransit) + (IF download = NoTransfer THEN 0 ELSE download.received)

\* The file at the front of the receiver's queue is completed once enough bytes
\* were put on the stream, over any number of reads, unless the connection is lost.
DownloadEnds ==
    \A f \in Files :
        (toReceive # <<>> /\ Head(toReceive) = f /\ AtFront >= Size[f])
            ~> (f \in completed \/ ~up)

\* FileStreamConnection.cpp:275, ASSERT(IsSendingFile()): a write that ends finds
\* the file that it belongs to still being sent.  It may not when a file was started
\* while a write was under way: PushFileToSend does so during a transfer, and from
\* the callback of line 251, which has the front of the queue started twice.
WriteHasTransfer ==
    (running /\ ~overlapped /\ \E i \in DOMAIN writes : writes[i].done = writes[i].size)
        => current # NoTransfer
=============================================================================
