----------------------------- MODULE Connection -----------------------------
(***************************************************************************)
(* One TLS connection: TCPConnection.cpp, GenericConnection.cpp, and the   *)
(* command pipeline that its read handlers run (CommandsManagerV2.cpp,     *)
(* ApoapseError.cpp).                                                      *)
(*                                                                         *)
(* One thread runs the io_service, so handlers run one after the other;    *)
(* what interleaves is the order of the handlers, the transport below and  *)
(* the application, which is called back and calls Send and Close.  The    *)
(* dispatch of the payloads of one read is a handler of several steps,     *)
(* during which no other handler runs (`busy').  How bytes become payloads *)
(* is module Framing: here a read completes with whole payloads.           *)
(***************************************************************************)
EXTENDS Integers, Sequences, FiniteSets

CONSTANTS
    MaxPeer,     \* bound on the payloads the peer sends
    MaxSends     \* bound on the messages the application sends by itself

ASSUME ConnectionAssumption ==
    /\ MaxPeer \in Nat
    /\ MaxSends \in Nat

\* What happens to a payload that is received.
\*   unknown:   no command has its short name
\*   malformed: CreateCommand throws while reading its content
\*   rejected:  OnReceivedCommandPre returns false
\*   throws:    the command's processing throws
\*   closes, asks: the command's processing calls Close() or RequestClose()
\*   answers:   the command's processing sends a message
\*   plain:     none of these
Payloads == {"unknown", "malformed", "rejected", "throws", "closes", "asks",
             "answers", "plain"}

VARIABLES
    isServer,        \* global->isServer: set at start-up, never changed
    link,            \* "new", "connecting", "handshaking", "up", or "lost"
    sock,            \* "open", "broken" (peer gone or error), "closed"
    connected,       \* m_isConnected
    closeRequested,  \* m_closeRequested
    closePosts,      \* bodies of Close() posted to the strand and not run
    queue,           \* m_sendQueue: messages, numbered in the order of Send
    write,           \* the pending async_write_some (a message and its result), or None
    reads,           \* pending async_read_some operations
    fromPeer,        \* how many payloads are on their way from the peer
    batch,           \* how many of the read being handled are not yet dispatched
    busy,            \* a read handler is being executed
    sent,            \* messages accepted by Send (history)
    wire,            \* what the transport has taken of the messages (history)
    offered,         \* payloads the peer has sent (bounds fromPeer)
    closeCalled,     \* Close() has been called (history)
    dispatched       \* payloads passed to OnReceivedPayload (history)

sendVars == <<queue, write, sent, wire>>
closeVars == <<connected, closePosts, closeCalled>>
readVars == <<reads, batch, busy, dispatched>>
vars == <<isServer, link, sock, closeRequested, fromPeer, offered, sendVars, closeVars,
          readVars>>

None == [msg |-> 0, result |-> "none"]

\* The messages the application may still send are numbered; a message is
\* large when it does not fit in one TLS record, which is all that
\* async_write_some of a TLS stream transfers.
Sizes == {"small", "large"}

Init ==
    /\ isServer \in BOOLEAN
    /\ link = "new"
    /\ sock = "open"
    /\ connected = FALSE
    /\ closeRequested = FALSE
    /\ closePosts = 0
    /\ queue = <<>>
    /\ write = None
    /\ reads = 0
    /\ fromPeer = 0
    /\ batch = 0
    /\ busy = FALSE
    /\ sent = <<>>
    /\ wire = <<>>
    /\ offered = 0
    /\ closeCalled = FALSE
    /\ dispatched = 0

-----------------------------------------------------------------------------
(* TCPConnection: effects shared by several handlers.                      *)

\* Close(): the flag at once, the socket later, on the strand.
Close ==
    /\ connected' = FALSE
    /\ closePosts' = closePosts + 1
    /\ closeCalled' = TRUE

\* InternalSend: a write of the front of the queue is pending.
PendingWrite(m) == [msg |-> m, result |-> "pending"]

\* Send: the message is queued, and written when the queue was empty, which
\* stands for `no write is in progress'.
Send(size) ==
    LET m == Len(sent) + 1 IN
      /\ sent' = Append(sent, size)
      /\ queue' = Append(queue, m)
      /\ write' = IF queue = <<>> THEN PendingWrite(m) ELSE write

\* OnReceivedErrorInternal: GenericConnection::OnReceivedError returns true, so
\* that Close() is not called.
OnReceivedErrorInternal == UNCHANGED closeVars

-----------------------------------------------------------------------------
(* Connecting.                                                             *)

\* Connect, or the acceptance of a connection by the server.
Connect ==
    /\ link = "new"
    /\ link' = "connecting"
    /\ UNCHANGED <<isServer, sock, closeRequested, fromPeer, offered, sendVars, closeVars,
                   readVars>>

\* HandleConnectAsync (HandleAcceptedAsync): an error leaves the connection
\* there for good.
HandleConnect ==
    /\ link = "connecting"
    /\ \/ /\ sock = "open"
          /\ link' = "handshaking"
          /\ UNCHANGED <<sock, closeVars>>
       \/ /\ link' = "lost"
          /\ sock' = "broken"
          /\ OnReceivedErrorInternal
    /\ UNCHANGED <<isServer, closeRequested, fromPeer, offered, sendVars, readVars>>

\* HandleHandshake: after a failure too, reading starts (OnSocketConnectedInternal),
\* the application is told (OnConnectedToServer: it may do nothing, send a
\* message or close) and m_isConnected becomes true.
HandleHandshake ==
    /\ link = "handshaking"
    /\ link' = "up"
    /\ reads' = reads + 1
    /\ connected' = TRUE
    /\ \E failed, closes, sends \in BOOLEAN :
         /\ sock' = IF failed THEN "broken" ELSE sock
         /\ ~(closes /\ sends)
         /\ closeCalled' = (failed \/ closes)
         /\ closePosts' = closePosts + (IF failed THEN 1 ELSE 0)
                                     + (IF closes THEN 1 ELSE 0)
         /\ IF sends /\ MaxSends > 0
              THEN /\ \E size \in Sizes : Send(size)
                   /\ UNCHANGED wire
              ELSE UNCHANGED sendVars
    /\ UNCHANGED <<isServer, closeRequested, fromPeer, offered, batch, busy, dispatched>>

-----------------------------------------------------------------------------
(* The transport and the peer.                                             *)

\* The transport takes the message of the pending write, all of it or one TLS
\* record, or fails.
Transmit ==
    /\ write.result = "pending"
    /\ \/ /\ sock = "open"
          /\ LET whole == sent[write.msg] = "small" IN
               /\ wire' = Append(wire, [msg |-> write.msg, whole |-> whole])
               /\ write' = [write EXCEPT !.result = IF whole THEN "whole" ELSE "part"]
       \/ /\ sock # "open"
          /\ write' = [write EXCEPT !.result = "error"]
          /\ UNCHANGED wire
    /\ UNCHANGED <<isServer, link, sock, closeRequested, fromPeer, offered, queue, sent,
                   closeVars, readVars>>

PeerSends ==
    /\ link = "up"
    /\ sock = "open"
    /\ offered < MaxPeer
    /\ offered' = offered + 1
    /\ fromPeer' = fromPeer + 1
    /\ UNCHANGED <<isServer, link, sock, closeRequested, sendVars, closeVars, readVars>>

Disconnect ==
    /\ link = "up"
    /\ sock = "open"
    /\ sock' = "broken"
    /\ UNCHANGED <<isServer, link, closeRequested, fromPeer, offered, sendVars, closeVars,
                   readVars>>

\* The body of Close() on the strand: shutdown() throws on a socket that is no
\* longer connected, and close() is then skipped.
RunClose ==
    /\ ~busy
    /\ closePosts > 0
    /\ closePosts' = closePosts - 1
    /\ sock' \in IF sock = "open" THEN {"closed"} ELSE {sock, "closed"}
    /\ UNCHANGED <<isServer, link, closeRequested, fromPeer, offered, sendVars, connected,
                   closeCalled, readVars>>

-----------------------------------------------------------------------------
(* Sending.                                                                *)

\* The application sends from a handler of its own: a timer, another connection.
AppSends ==
    /\ link = "up"
    /\ ~busy
    /\ Len(sent) < MaxSends
    /\ \E size \in Sizes : Send(size)
    /\ UNCHANGED <<isServer, link, sock, closeRequested, fromPeer, offered, wire, closeVars,
                   readVars>>

AppCloses ==
    /\ link = "up"
    /\ ~busy
    /\ ~closeCalled
    /\ Close
    /\ UNCHANGED <<isServer, link, sock, closeRequested, fromPeer, offered, sendVars, readVars>>

\* Mutation: the next message is not started.
PopOnly ==
    /\ queue' = Tail(queue)
    /\ write' = None

\* Mutation: the written message is left at the front of the queue.
ContinueWithoutPop ==
    /\ UNCHANGED queue
    /\ write' = PendingWrite(Head(queue))

\* The handler ran: the front is popped and the next message written.
PopAndContinue ==
    /\ queue' = Tail(queue)
    /\ write' = IF Tail(queue) = <<>> THEN None ELSE PendingWrite(Head(Tail(queue)))

\* HandleWriteAsync
HandleWrite ==
    /\ ~busy
    /\ write.result \in {"whole", "part", "error"}
    /\ \/ /\ ~connected               \* the message stays at the front
          /\ write' = None
          /\ UNCHANGED <<queue, closeVars>>
       \/ /\ connected
          /\ PopAndContinue
          /\ \/ /\ write.result = "whole"
                /\ UNCHANGED closeVars
             \/ /\ write.result = "part"
                /\ Close
             \/ /\ write.result = "error"
                /\ OnReceivedErrorInternal
    /\ UNCHANGED <<isServer, link, sock, closeRequested, fromPeer, offered, sent, wire, readVars>>

-----------------------------------------------------------------------------
(* Receiving.                                                              *)

\* Mutation: the next read is started before the payloads are dispatched.
HandleReadEarly ==
    /\ ~busy
    /\ reads > 0
    /\ sock = "open"
    /\ fromPeer > 0
    /\ \E n \in 1 .. fromPeer :
         /\ fromPeer' = fromPeer - n
         /\ IF connected
              THEN /\ batch' = n
                   /\ busy' = TRUE
              ELSE UNCHANGED <<batch, busy>>
    /\ UNCHANGED <<isServer, link, sock, closeRequested, offered, sendVars, closeVars,
                   reads, dispatched>>

\* HandleReadInternal of a read that completed with data: the payloads that have
\* arrived whole, if any, are about to be dispatched.
HandleRead ==
    /\ ~busy
    /\ reads > 0
    /\ sock = "open"
    /\ fromPeer > 0
    /\ reads' = reads - 1
    /\ \E n \in 1 .. fromPeer :
         /\ fromPeer' = fromPeer - n
         /\ IF connected
              THEN /\ batch' = n
                   /\ busy' = TRUE
              ELSE UNCHANGED <<batch, busy>>
    /\ UNCHANGED <<isServer, link, sock, closeRequested, offered, sendVars, closeVars, dispatched>>

\* HandleReadInternal of a read that failed: there is no next one, and
\* m_isConnected is left alone.
HandleReadError ==
    /\ ~busy
    /\ reads > 0
    /\ sock # "open"
    /\ reads' = reads - 1
    /\ connected => OnReceivedErrorInternal
    /\ UNCHANGED <<isServer, link, sock, closeRequested, fromPeer, offered, sendVars, closeVars,
                   batch, busy, dispatched>>

\* ApoapseError: the server sends the error and asks for the connection to be closed.
SendError ==
    IF isServer
      THEN /\ closeRequested' = TRUE
           /\ Send("small")
      ELSE UNCHANGED <<closeRequested, queue, write, sent>>

\* The end of OnReceivedCmdInternal: if (CloseRequested()) Close().
CloseIfRequested ==
    IF closeRequested' THEN Close ELSE UNCHANGED closeVars

\* OnReceivedCmdInternal when the command has not been rejected.  A command
\* closed by its own processing returns before the last step.
RunCommand(p) ==
    \/ /\ p = "plain"
       /\ UNCHANGED <<closeRequested, queue, write, sent>>
       /\ IF connected THEN CloseIfRequested ELSE UNCHANGED closeVars
    \/ /\ p = "answers"
       /\ UNCHANGED closeRequested
       /\ Send("small")
       /\ IF connected THEN CloseIfRequested ELSE UNCHANGED closeVars
    \/ /\ p = "asks"
       /\ closeRequested' = TRUE
       /\ UNCHANGED <<queue, write, sent>>
       /\ IF connected THEN CloseIfRequested ELSE UNCHANGED closeVars
    \/ /\ p = "closes"
       /\ UNCHANGED <<closeRequested, queue, write, sent>>
       /\ Close

\* ... and when OnReceivedCommandPre rejects it.
RejectCommand ==
    /\ IF closeRequested THEN UNCHANGED <<closeRequested, queue, write, sent>>
                         ELSE SendError
    /\ CloseIfRequested

\* OnReceivedPayload of the next payload of the batch.
Dispatch ==
    /\ busy
    /\ batch > 0
    /\ dispatched' = dispatched + 1
    /\ \E p \in Payloads :
         /\ \/ p = "unknown" /\ SendError /\ UNCHANGED closeVars
            \/ p = "rejected" /\ RejectCommand
            \/ RunCommand(p)
            \/ /\ p \in {"malformed", "throws"}    \* an exception is caught
               /\ Close
               /\ UNCHANGED <<closeRequested, queue, write, sent>>
         \* CreateCommand's is caught in ProcessDataGeneric, which ends.
         /\ batch' = IF p = "malformed" THEN 0 ELSE batch - 1
         /\ busy' = (p # "malformed")
    /\ UNCHANGED <<isServer, link, sock, fromPeer, offered, wire, reads>>

\* Mutation: the last payload of a read ends the reading.
StopReading ==
    /\ busy
    /\ batch = 0
    /\ busy' = FALSE
    /\ UNCHANGED <<isServer, link, sock, closeRequested, fromPeer, offered, sendVars,
                   closeVars, batch, dispatched, reads>>

\* The end of ProcessDataGeneric: StartReading, or ReadPayloadData when the last
\* payload is incomplete.
StartReading ==
    /\ busy
    /\ batch = 0
    /\ busy' = FALSE
    /\ reads' = reads + 1
    /\ UNCHANGED <<isServer, link, sock, closeRequested, fromPeer, offered, sendVars, closeVars,
                   batch, dispatched>>

IoThread ==
    \/ HandleConnect
    \/ HandleHandshake
    \/ RunClose
    \/ HandleWrite
    \/ HandleRead
    \/ HandleReadError
    \/ Dispatch
    \/ StartReading

Application == Connect \/ AppSends \/ AppCloses

Environment == Transmit \/ PeerSends \/ Disconnect

Next == IoThread \/ Application \/ Environment

Spec == Init /\ [][Next]_vars

\* The io thread runs every handler that is ready, and the transport completes
\* the operations started on it.
FairSpec ==
    /\ Spec
    /\ WF_vars(HandleConnect) /\ WF_vars(HandleHandshake)
    /\ WF_vars(RunClose) /\ WF_vars(HandleWrite)
    /\ WF_vars(HandleRead) /\ WF_vars(HandleReadError)
    /\ WF_vars(Dispatch) /\ WF_vars(StartReading)
    /\ WF_vars(Transmit)

-----------------------------------------------------------------------------
(* Properties.                                                             *)

TypeOK ==
    /\ isServer \in BOOLEAN
    /\ link \in {"new", "connecting", "handshaking", "up", "lost"}
    /\ sock \in {"open", "broken", "closed"}
    /\ connected \in BOOLEAN
    /\ closeRequested \in BOOLEAN
    /\ closePosts \in Nat
    /\ queue \in Seq(1 .. Len(sent))
    /\ write = None \/ write.msg \in 1 .. Len(sent)
    /\ write.result \in {"none", "pending", "whole", "part", "error"}
    /\ reads \in {0, 1}
    /\ fromPeer \in 0 .. MaxPeer
    /\ batch \in 0 .. MaxPeer
    /\ busy \in BOOLEAN
    /\ sent \in Seq(Sizes)
    /\ wire \in Seq([msg : 1 .. Len(sent), whole : BOOLEAN])
    /\ offered \in 0 .. MaxPeer
    /\ closeCalled \in BOOLEAN
    /\ dispatched \in 0 .. MaxPeer

\* The transport sees the messages in the order of the calls to Send, each at
\* most once and none skipped.
WireInSendOrder ==
    \A i \in DOMAIN wire : wire[i].msg = i

\* One read at a time fills m_readBuffer, and a connection that is up and whose
\* socket works never stops reading: nothing else would bring its next payload.
NeverDeaf ==
    /\ reads + (IF busy THEN 1 ELSE 0) <= 1
    /\ (connected /\ link = "up" /\ sock = "open") => reads = 1 \/ busy

\* A message accepted while the connection is up is handed to the transport,
\* unless the connection is closed or lost.
SentIsTransmitted ==
    \A m \in 1 .. MaxSends + MaxPeer :
      (m \in 1 .. Len(sent) /\ connected) ~>
        (Len(wire) >= m \/ closeCalled \/ sock # "open")

\* NetworkPayload.h allows payloads of 8 MB: whatever its size, what reaches the
\* peer of a message is followed by the next message only if it is whole.
TruncatedIsLast ==
    \A i \in DOMAIN wire : ~wire[i].whole => i = Len(wire)
=============================================================================
