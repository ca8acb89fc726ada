---------------------------- MODULE PlainServer ----------------------------
(***************************************************************************)
(* A server of plain sockets: the accept loop of TCPServerNoTLS (whose     *)
(* text is that of TCPServer) and its connections, TCPConnectionNoTLS.     *)
(*                                                                         *)
(* The second copy of the connection differs from the one of module        *)
(* Connection where it matters: Close() closes the socket at once and may  *)
(* throw, out of the handler that called it; OnReceivedError belongs to    *)
(* the application; and a write takes whatever part of a message the       *)
(* socket has room for.  The class that derives from TCPConnectionNoTLS is *)
(* the application's: its callbacks may send, close, or do nothing.        *)
(* One thread runs the io_service, and runs it again after an exception.   *)
(***************************************************************************)
EXTENDS Naturals, Sequences

CONSTANTS
    MaxConnections,  \* bound on the clients that arrive and the connections made to others
    MaxSends,        \* bound on the messages sent on one connection
    MaxFailures      \* bound on the accepts that fail while the acceptor is open

ASSUME PlainServerAssumption ==
    /\ MaxConnections \in Nat
    /\ MaxSends \in Nat
    /\ MaxFailures \in Nat

VARIABLES
    acceptor,   \* m_acceptor: "none", "listening", "closed", or "failed" to open
    accepting,  \* which connection the pending async_accept waits for, or 0
    conns,      \* the connections, in the order they were made
    waiting,    \* clients in the acceptor's backlog
    arrived,    \* clients and outgoing connections so far (bounds the run)
    failures    \* accepts that have failed while the acceptor was open

vars == <<acceptor, accepting, conns, waiting, arrived, failures>>

\* sock: "new", "connecting" (async_connect), "open", "broken" (peer gone),
\*   "closed", or "aborted" (closed while connecting)
\* write: a pending or completed async_write_some of the front of the queue
\* closeCalled: the last Close(), which came "before" the socket was connected
\*   or with the socket "up" (history)
Writes == {"none", "pending", "whole", "part", "error"}

Fresh ==
    [sock |-> "new", connected |-> FALSE, queue |-> <<>>, write |-> "none", sent |-> 0,
     wire |-> <<>>, reading |-> FALSE, closeCalled |-> "never"]

Init ==
    /\ acceptor = "none"
    /\ accepting = 0
    /\ conns = <<>>
    /\ waiting = 0
    /\ arrived = 0
    /\ failures = 0

-----------------------------------------------------------------------------
(* TCPConnectionNoTLS.  An operator gives the outcomes of a call: what     *)
(* becomes of the connection, and whether an exception leaves the call.    *)

Returns(c) == {[conn |-> c, threw |-> FALSE]}

\* Close: the flag, then shutdown(), which throws on a socket that was never
\* opened or is closed already, and may when there is no peer; then close().
Closing(c) ==
    LET asked == [c EXCEPT !.connected = FALSE,
                           !.closeCalled = IF c.sock \in {"new", "connecting", "aborted"}
                                             THEN "before" ELSE "up"]
        after == IF c.sock = "connecting" THEN "aborted" ELSE "closed" IN
      (IF c.sock \in {"open", "broken", "connecting"}
         THEN Returns([asked EXCEPT !.sock = after]) ELSE {})
      \cup (IF c.sock # "open" THEN {[conn |-> asked, threw |-> TRUE]} ELSE {})

\* InternalSend: a write of the front of the queue, also on a closed socket.
InternalSend(c) == [c EXCEPT !.write = "pending"]

\* Send: an empty queue stands for `no write is in progress'.
Sending(c) ==
    LET queued == [c EXCEPT !.sent = @ + 1, !.queue = Append(@, c.sent + 1)] IN
      IF c.queue = <<>> THEN InternalSend(queued) ELSE queued

\* What the application does when it is called back.
Callback(c) ==
    Returns(c) \cup Closing(c) \cup (IF c.sent < MaxSends THEN Returns(Sending(c)) ELSE {})

\* OnReceivedErrorInternal: the application says whether to close.
OnReceivedErrorInternal(c) == Returns(c) \cup Closing(c)

\* Mutation: m_isConnected is set after the application was told, as the TLS
\* connection does.
ConnectedLate(c, error) ==
    IF error
      THEN OnReceivedErrorInternal(c)
      ELSE {[o EXCEPT !.conn.connected = TRUE] : o \in Callback([c EXCEPT !.reading = TRUE])}

\* HandleConnectAsync, and OnSocketConnectedInternal, which starts to read.
HandleConnectAsync(c, error) ==
    IF error
      THEN OnReceivedErrorInternal(c)
      ELSE Callback([c EXCEPT !.connected = TRUE, !.reading = TRUE])

\* Mutation: the queue is not looked at before the next write is started.
StartWithoutLooking(c) == InternalSend([c EXCEPT !.queue = Tail(@)])

\* The end of HandleWriteAsync: the front is popped, the next message started.
PopAndContinue(c) ==
    LET popped == [c EXCEPT !.queue = Tail(@), !.write = "none"] IN
      IF popped.queue = <<>> THEN popped ELSE InternalSend(popped)

\* Mutation: the size that was written is not compared with the message's.
WrittenIsSent(c) ==
    IF ~c.connected
      THEN Returns([c EXCEPT !.write = "none"])
      ELSE UNION {IF o.threw THEN {[o EXCEPT !.conn.write = "none"]}
                             ELSE Returns(PopAndContinue(o.conn)) :
                    o \in IF c.write = "error" THEN OnReceivedErrorInternal(c) ELSE Callback(c)}

\* HandleWriteAsync.  An exception leaves the message at the front; a Close()
\* that returns lets the next message be written to the closed socket.
Written(c) ==
    IF ~c.connected
      THEN Returns([c EXCEPT !.write = "none"])
      ELSE UNION {IF o.threw THEN {[o EXCEPT !.conn.write = "none"]}
                             ELSE Returns(PopAndContinue(o.conn)) :
                    o \in CASE c.write = "whole" -> Callback(c)
                            [] c.write = "part"  -> Closing(c)
                            [] c.write = "error" -> OnReceivedErrorInternal(c)}

\* HandleReadInternal: the application's handler reads again.
Read(c) ==
    LET done == [c EXCEPT !.reading = FALSE] IN
      CASE ~c.connected -> Returns(done)
        [] c.connected /\ c.sock = "open" -> Callback(c)
        [] OTHER -> OnReceivedErrorInternal(done)

-----------------------------------------------------------------------------
(* TCPServerNoTLS.                                                         *)

\* The constructor, which opens, binds and listens, or throws; and the call of
\* StartAccept that the application makes: a connection waits for a client.
Listen ==
    /\ acceptor = "none"
    /\ \/ /\ acceptor' = "listening"
          /\ conns' = Append(conns, Fresh)
          /\ accepting' = Len(conns) + 1
       \/ /\ acceptor' = "failed"
          /\ UNCHANGED <<conns, accepting>>
    /\ UNCHANGED <<waiting, arrived, failures>>

CloseAcceptor ==
    /\ acceptor = "listening"
    /\ acceptor' = "closed"
    /\ UNCHANGED <<accepting, conns, waiting, arrived, failures>>

\* Mutation: only a successful accept starts the next one.
RefusedAndOver(o) ==
    /\ conns' = [conns EXCEPT ![accepting] = o.conn]
    /\ accepting' = 0

\* The end of HandleAcceptAsync after HandleAcceptedAsync(error): the next
\* StartAccept.  The connection of the failed accept dies; the new one takes
\* its place.  An exception skips StartAccept.
AcceptedNone(o) ==
    /\ conns' = [conns EXCEPT ![accepting] = IF o.threw THEN o.conn ELSE Fresh]
    /\ accepting' = IF o.threw THEN 0 ELSE accepting

\* The same after HandleAcceptedAsync without an error.
AcceptedOne(o) ==
    LET accepted == [conns EXCEPT ![accepting] = o.conn] IN
      IF o.threw
        THEN conns' = accepted /\ accepting' = 0
        ELSE conns' = Append(accepted, Fresh) /\ accepting' = Len(conns) + 1

\* HandleAcceptAsync of a client, who may be gone again.
HandleAccept ==
    /\ accepting # 0
    /\ acceptor = "listening"
    /\ waiting > 0
    /\ waiting' = waiting - 1
    /\ \E sock \in {"open", "broken"} :
         \E o \in HandleConnectAsync([conns[accepting] EXCEPT !.sock = sock], FALSE) :
           AcceptedOne(o)
    /\ UNCHANGED <<acceptor, arrived, failures>>

\* HandleAcceptAsync of an error: a passing one, or the acceptor is closed.
HandleAcceptError ==
    /\ accepting # 0
    /\ \/ /\ acceptor = "listening"
          /\ failures < MaxFailures
          /\ failures' = failures + 1
       \/ /\ acceptor = "closed"
          /\ UNCHANGED failures
    /\ \E o \in HandleConnectAsync(conns[accepting], TRUE) : AcceptedNone(o)
    /\ UNCHANGED <<acceptor, waiting, arrived>>

-----------------------------------------------------------------------------
(* The handlers of the connections, the application and the network.       *)

Becomes(i, c) ==
    /\ conns' = [conns EXCEPT ![i] = c]
    /\ UNCHANGED <<acceptor, accepting, waiting, failures>>

\* A handler that throws ends with the io_service's run(), which is called again.
Handles(i, outcomes) ==
    /\ \E o \in outcomes : Becomes(i, o.conn)
    /\ UNCHANGED arrived

\* Connect, of a connection that the application makes.
Connect ==
    /\ arrived < MaxConnections
    /\ arrived' = arrived + 1
    /\ conns' = Append(conns, [Fresh EXCEPT !.sock = "connecting"])
    /\ UNCHANGED <<acceptor, accepting, waiting, failures>>

\* The completion of Connect, which may have been on its way when the socket
\* was closed.
HandleConnect(i) ==
    /\ conns[i].sock \in {"connecting", "aborted"}
    /\ \E failed \in BOOLEAN :
         LET sock == IF conns[i].sock = "aborted" THEN "closed"
                     ELSE IF failed THEN "broken" ELSE "open" IN
           Handles(i, HandleConnectAsync([conns[i] EXCEPT !.sock = sock], failed))

HandleWrite(i) ==
    /\ conns[i].write \notin {"none", "pending"}
    /\ Handles(i, Written(conns[i]))

\* The completion of a read: with data, or because the socket is of no use.
HandleRead(i) ==
    /\ conns[i].reading
    /\ Handles(i, Read(conns[i]))

\* The application, from a handler of its own; it catches the exception.
AppSends(i) ==
    /\ conns[i].connected
    /\ conns[i].sent < MaxSends
    /\ Handles(i, Returns(Sending(conns[i])))

AppCloses(i) ==
    /\ conns[i].sock # "new"
    /\ conns[i].closeCalled = "never"
    /\ Handles(i, Closing(conns[i]))

\* The socket takes the front of the queue, or a part of it, or fails.
Transmit(i) ==
    LET c == conns[i] IN
      /\ c.write = "pending"
      /\ \E result \in IF c.sock = "open" THEN {"whole", "part"} ELSE {"error"} :
           Becomes(i, [c EXCEPT !.write = result,
                                !.wire = IF result = "error" THEN @
                                         ELSE Append(@, [msg |-> Head(c.queue),
                                                         whole |-> result = "whole"])])
      /\ UNCHANGED arrived

Break(i) ==
    /\ conns[i].sock = "open"
    /\ Becomes(i, [conns[i] EXCEPT !.sock = "broken"])
    /\ UNCHANGED arrived

Arrive ==
    /\ acceptor = "listening"
    /\ arrived < MaxConnections
    /\ arrived' = arrived + 1
    /\ waiting' = waiting + 1
    /\ UNCHANGED <<acceptor, accepting, conns, failures>>

Server == Listen \/ CloseAcceptor \/ HandleAccept \/ HandleAcceptError

Handler(i) == HandleConnect(i) \/ HandleWrite(i) \/ HandleRead(i)

Next ==
    \/ Server
    \/ Connect
    \/ Arrive
    \/ \E i \in DOMAIN conns :
         \/ Handler(i)
         \/ AppSends(i)
         \/ AppCloses(i)
         \/ Transmit(i)
         \/ Break(i)

Spec == Init /\ [][Next]_vars

\* The io_service runs the handler of an accept that has completed.
FairSpec == Spec /\ WF_vars(HandleAccept)

-----------------------------------------------------------------------------
(* Properties.                                                             *)

\* The types of the variables; only sent messages are queued, and a write is
\* always one of a message that is still in the queue.
TypeOK ==
    /\ acceptor \in {"none", "listening", "closed", "failed"}
    /\ accepting \in 0 .. Len(conns)
    /\ waiting \in 0 .. MaxConnections
    /\ arrived \in 0 .. MaxConnections
    /\ failures \in 0 .. MaxFailures
    /\ \A i \in DOMAIN conns : LET c == conns[i] IN
         /\ c.sock \in {"new", "connecting", "open", "broken", "closed", "aborted"}
         /\ c.connected \in BOOLEAN /\ c.reading \in BOOLEAN
         /\ c.closeCalled \in {"never", "before", "up"}
         /\ c.sent \in 0 .. MaxSends
         /\ c.queue \in Seq(1 .. c.sent)
         /\ c.write \in Writes
         /\ c.write # "none" => c.queue # <<>>
         /\ c.wire \in Seq([msg : 1 .. c.sent, whole : BOOLEAN])

\* The peer parses a stream of frames: a message of which the socket took only
\* a part is the last thing it gets, and the messages before it came in the
\* order of Send, none skipped (HandleWriteAsync closes the connection before
\* it starts the next write).
TruncatedIsLast ==
    \A i \in DOMAIN conns : \A j \in DOMAIN conns[i].wire :
      /\ conns[i].wire[j].msg = j
      /\ ~conns[i].wire[j].whole => j = Len(conns[i].wire)

\* INetworkSender.h says of Close that it closes the connection immediately:
\* a connection that has come up does not count as connected from then on, whatever
\* completes later.  (One that is closed while it connects may still come up.)
ClosedStaysClosed ==
    \A i \in DOMAIN conns : conns[i].closeCalled = "up" => ~conns[i].connected

\* The loop of HandleAcceptAsync goes on: while the acceptor is open a client
\* in its backlog is accepted, whatever became of the accepts and connections
\* before, unless the handling of one of those threw out of Close().
EveryClientIsAccepted ==
    waiting > 0 ~>
      \/ waiting = 0
      \/ acceptor = "closed"
      \/ \E i \in DOMAIN conns : conns[i].closeCalled # "never" /\ conns[i].sock # "closed"
=============================================================================
