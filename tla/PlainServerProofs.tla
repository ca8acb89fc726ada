------------------------- MODULE PlainServerProofs -------------------------
(***************************************************************************)
(* Theorems about PlainServer, for any number of connections and messages. *)
(*                                                                         *)
(* A connection is a record that the outcomes of a call are computed from, *)
(* so that most lemmas are about records: what Close(), Send and the end   *)
(* of HandleWriteAsync keep true of any connection.  A truncated message   *)
(* is the last because the write of the next one is only started on a      *)
(* socket that is closed, or not at all; a closed connection stays closed  *)
(* because m_isConnected is set once, as the socket comes up.              *)
(***************************************************************************)
EXTENDS PlainServer, SequenceTheorems, TLAPS

Sent == [msg : Nat, whole : BOOLEAN]

Connection ==
    [sock : {"new", "connecting", "open", "broken", "closed", "aborted"},
     connected : BOOLEAN, queue : Seq(Nat), write : Writes, sent : 0 .. MaxSends,
     wire : Seq(Sent), reading : BOOLEAN, closeCalled : {"never", "before", "up"}]

\* The socket has not come up, or was closed before it did.
Down(c) == c.sock \in {"new", "connecting", "aborted"}

\* A connection that is down has not been used.
Unused(c) == Down(c) => ~c.connected /\ ~c.reading /\ c.sent = 0 /\ c.closeCalled # "up"

\* The queue holds the last messages of those sent.
QueueIsTail(c) ==
    /\ Len(c.queue) <= c.sent
    /\ \A k \in DOMAIN c.queue : c.queue[k] = (c.sent - Len(c.queue)) + k

WriteIsQueued(c) == c.write # "none" => c.queue # <<>>

InOrder(c) ==
    /\ Len(c.wire) <= c.sent
    /\ \A j \in DOMAIN c.wire :
         c.wire[j].msg = j /\ (~c.wire[j].whole => j = Len(c.wire))

AllWhole(c) == \A j \in DOMAIN c.wire : c.wire[j].whole

\* How much of what was sent is on the wire of a socket that works.
WireFollowsWrite(c) ==
    c.sock = "open" =>
      /\ c.write # "error"
      /\ c.write = "pending" => Len(c.wire) = c.sent - Len(c.queue) /\ AllWhole(c)
      /\ c.write = "whole" => Len(c.wire) = (c.sent - Len(c.queue)) + 1 /\ AllWhole(c)
      /\ c.queue = <<>> => Len(c.wire) = c.sent /\ AllWhole(c)

Closed(c) == c.closeCalled = "up" => ~c.connected

Good(c) ==
    /\ c \in Connection
    /\ Unused(c)
    /\ QueueIsTail(c)
    /\ WriteIsQueued(c)
    /\ InOrder(c)
    /\ WireFollowsWrite(c)
    /\ Closed(c)

ServerTyped ==
    /\ acceptor \in {"none", "listening", "closed", "failed"}
    /\ waiting \in Nat
    /\ arrived \in 0 .. MaxConnections
    /\ waiting <= arrived
    /\ failures \in 0 .. MaxFailures

\* The connection that waits for a client is a new one.
AcceptingIsFresh ==
    /\ accepting \in 0 .. Len(conns)
    /\ accepting # 0 => conns[accepting] = Fresh

Inv ==
    /\ ServerTyped
    /\ conns \in Seq(Connection)
    /\ \A i \in DOMAIN conns : Good(conns[i])
    /\ AcceptingIsFresh

-----------------------------------------------------------------------------
(* What the calls do to a connection.                                      *)

Uses(c, d) == d.queue = c.queue /\ d.write = c.write /\ d.sent = c.sent /\ d.wire = c.wire

\* Nothing that Good says of the messages depends on more than these.
LEMMA SameMessages ==
  ASSUME NEW c, NEW d, Good(c), Uses(c, d), d.sock = "open" => c.sock = "open",
         d \in Connection, Unused(d), Closed(d)
  PROVE  Good(d)
  BY DEF Good, Uses, QueueIsTail, WriteIsQueued, InOrder, WireFollowsWrite, AllWhole

\* The outcomes of Close(): what was to be sent stays, and unless it throws the
\* socket does not work any more.
LEMMA ClosingGood ==
  ASSUME NEW c, Good(c), NEW o \in Closing(c)
  PROVE  /\ Good(o.conn) /\ Uses(c, o.conn)
         /\ ~o.threw => o.conn.sock # "open"
         /\ o.threw => o.conn.sock = c.sock
  <1> DEFINE asked == [c EXCEPT !.connected = FALSE,
                                !.closeCalled = IF Down(c) THEN "before" ELSE "up"]
             closed == [asked EXCEPT !.sock = IF c.sock = "connecting" THEN "aborted" ELSE "closed"]
  <1>1. /\ asked \in Connection /\ closed \in Connection
        /\ Uses(c, asked) /\ Uses(c, closed)
        /\ asked.sock = c.sock /\ closed.sock # "open"
    BY DEF Good, Connection, Uses
  <1>2. Unused(asked) /\ Unused(closed) /\ Closed(asked) /\ Closed(closed)
    BY DEF Good, Connection, Unused, Down, Closed
  <1>3. Good(asked) /\ Good(closed)
    <2> HIDE DEF asked, closed
    <2>1. Good(asked)
      BY <1>1, <1>2, SameMessages
    <2>2. Good(closed)
      BY <1>1, <1>2, SameMessages
    <2>3. QED
      BY <2>1, <2>2
  <1>4. o = [conn |-> closed, threw |-> FALSE] \/ (c.sock # "open" /\ o = [conn |-> asked, threw |-> TRUE])
    BY DEF Closing, Returns, Down
  <1> HIDE DEF asked, closed
  <1>5. CASE o = [conn |-> closed, threw |-> FALSE]
    BY <1>1, <1>3, <1>5
  <1>6. CASE c.sock # "open" /\ o = [conn |-> asked, threw |-> TRUE]
    BY <1>1, <1>3, <1>6
  <1>7. QED
    BY <1>4, <1>5, <1>6

\* Send on a connection that has come up.
LEMMA SendingGood ==
  ASSUME NEW c, Good(c), ~Down(c), c.sent < MaxSends
  PROVE  /\ Good(Sending(c)) /\ Sending(c).sock = c.sock
         /\ c.queue # <<>> => Sending(c).write = c.write
         /\ Sending(c).queue # <<>>
  <1> DEFINE d == Sending(c)
  <1> USE DEF Good, Connection
  <1>1. /\ c.sent \in Nat /\ MaxSends \in Nat /\ c.queue \in Seq(Nat) /\ c.wire \in Seq(Sent)
        /\ c.sent + 1 \in 0 .. MaxSends
    BY PlainServerAssumption
  <1>2. /\ d.queue \in Seq(Nat) /\ Len(d.queue) = Len(c.queue) + 1
        /\ \A k \in 1 .. Len(c.queue) : d.queue[k] = c.queue[k]
        /\ d.queue[Len(c.queue) + 1] = c.sent + 1
    <2>1. d.queue = Append(c.queue, c.sent + 1)
      BY DEF Sending, InternalSend
    <2>2. QED
      BY <1>1, <2>1, AppendProperties
  <1>3. /\ d.sent = c.sent + 1 /\ d.wire = c.wire /\ d.sock = c.sock
        /\ d.connected = c.connected /\ d.reading = c.reading /\ d.closeCalled = c.closeCalled
        /\ d.write = IF c.queue = <<>> THEN "pending" ELSE c.write
    BY DEF Sending, InternalSend
  <1>4. d \in Connection
    <2>1. d.write \in Writes
      BY <1>3 DEF Writes
    <2>2. d = [sock |-> d.sock, connected |-> d.connected, queue |-> d.queue, write |-> d.write,
               sent |-> d.sent, wire |-> d.wire, reading |-> d.reading,
               closeCalled |-> d.closeCalled]
      BY DEF Sending, InternalSend
    <2>3. QED
      BY <1>1, <1>2, <1>3, <2>1, <2>2
  <1>5. d.queue # <<>>
    BY <1>1, <1>2
  <1>6. QueueIsTail(d)
    <2>1. DOMAIN d.queue = 1 .. Len(c.queue) + 1 /\ DOMAIN c.queue = 1 .. Len(c.queue)
          /\ Len(c.queue) \in Nat
      BY <1>1, <1>2
    <2>2. ASSUME NEW k \in 1 .. Len(c.queue) + 1
          PROVE  d.queue[k] = (c.sent + 1 - (Len(c.queue) + 1)) + k
      <3>1. CASE k = Len(c.queue) + 1
        BY <1>1, <1>2, <2>1, <3>1
      <3>2. CASE k \in 1 .. Len(c.queue)
        <4>1. c.queue[k] = (c.sent - Len(c.queue)) + k
          BY <2>1, <3>2 DEF QueueIsTail
        <4>2. QED
          BY <1>1, <1>2, <2>1, <3>2, <4>1
      <3>3. QED
        BY <2>1, <3>1, <3>2
    <2>3. Len(d.queue) <= d.sent
      BY <1>1, <1>2, <1>3 DEF QueueIsTail
    <2>4. /\ DOMAIN d.queue = 1 .. Len(c.queue) + 1
          /\ d.sent - Len(d.queue) = c.sent + 1 - (Len(c.queue) + 1)
      BY <1>1, <1>2, <1>3, <2>1
    <2> HIDE DEF d
    <2>5. QED
      BY <2>2, <2>3, <2>4 DEF QueueIsTail
  <1>7. InOrder(d)
    BY <1>1, <1>3 DEF InOrder
  <1>8. WireFollowsWrite(d)
    <2>1. CASE c.queue = <<>>
      <3>1. Len(c.queue) = 0
        BY <2>1
      <3>2. QED
        BY <1>1, <1>2, <1>3, <1>5, <2>1, <3>1 DEF WireFollowsWrite, AllWhole
    <2>2. CASE c.queue # <<>>
      <3>1. d.sent - Len(d.queue) = c.sent - Len(c.queue)
        BY <1>1, <1>2, <1>3
      <3>2. QED
        BY <1>3, <1>5, <2>2, <3>1 DEF WireFollowsWrite, AllWhole
    <2>3. QED
      BY <2>1, <2>2
  <1>9. Unused(d) /\ Closed(d) /\ WriteIsQueued(d)
    BY <1>3, <1>5 DEF Unused, Down, Closed, WriteIsQueued
  <1>10. QED
    BY <1>3, <1>4, <1>5, <1>6, <1>7, <1>8, <1>9

\* A callback returns, sends or closes.
LEMMA CallbackGood ==
  ASSUME NEW c, Good(c), ~Down(c), NEW o \in Callback(c)
  PROVE  /\ Good(o.conn)
         /\ c.queue # <<>> => o.conn.queue # <<>> /\ o.conn.write = c.write
         /\ o.conn.sock = "open" => c.sock = "open"
  <1>1. CASE o \in Closing(c)
    BY <1>1, ClosingGood DEF Uses
  <1>2. CASE c.sent < MaxSends /\ o = [conn |-> Sending(c), threw |-> FALSE]
    BY <1>2, SendingGood
  <1>3. CASE o = [conn |-> c, threw |-> FALSE]
    BY <1>3
  <1>4. QED
    BY <1>1, <1>2, <1>3 DEF Callback, Returns

LEMMA ErrorGood ==
  ASSUME NEW c, Good(c), NEW o \in OnReceivedErrorInternal(c)
  PROVE  Good(o.conn) /\ Uses(c, o.conn) /\ (o.conn.sock = "open" => c.sock = "open")
  <1>1. CASE o \in Closing(c)
    BY <1>1, ClosingGood
  <1>2. CASE o = [conn |-> c, threw |-> FALSE]
    BY <1>2 DEF Uses
  <1>3. QED
    BY <1>1, <1>2 DEF OnReceivedErrorInternal, Returns

\* A connection that has not been used comes up, or fails to.
LEMMA ConnectGood ==
  ASSUME NEW c, Good(c), Down(c), NEW sock \in {"open", "broken", "closed"}, NEW error \in BOOLEAN,
         NEW o \in HandleConnectAsync([c EXCEPT !.sock = sock], error)
  PROVE  Good(o.conn)
  <1> DEFINE d == [c EXCEPT !.sock = sock]
             up == [d EXCEPT !.connected = TRUE, !.reading = TRUE]
  <1> USE DEF Good
  <1>1. c.sent = 0 /\ c.queue = <<>> /\ c.wire = <<>> /\ c.write = "none"
    <2>1. c.sent = 0
      BY DEF Unused
    <2>2. Len(c.queue) = 0 /\ Len(c.wire) = 0
      BY <2>1 DEF QueueIsTail, InOrder, Connection
    <2>3. c.queue = <<>> /\ c.wire = <<>>
      BY <2>2, EmptySeq DEF Connection
    <2>4. QED
      BY <2>1, <2>3 DEF WriteIsQueued
  <1>2. d \in Connection /\ up \in Connection /\ d.sock = sock /\ up.sock = sock
        /\ Uses(c, d) /\ Uses(c, up) /\ d.closeCalled # "up" /\ up.closeCalled # "up"
    BY DEF Connection, Uses, Unused
  <1>3. ASSUME NEW e \in {d, up}
        PROVE  Good(e)
    <2>1. /\ e.sent = 0 /\ e.queue = <<>> /\ e.wire = <<>> /\ e.write = "none"
          /\ e \in Connection /\ e.sock = sock /\ e.closeCalled # "up"
      BY <1>1, <1>2 DEF Uses
    <2>2. ~Down(e)
      BY <2>1 DEF Down
    <2>3. Unused(e) /\ Closed(e) /\ WriteIsQueued(e)
      BY <2>1, <2>2 DEF Unused, Closed, WriteIsQueued
    <2>4. QueueIsTail(e) /\ InOrder(e) /\ WireFollowsWrite(e)
      BY <2>1 DEF QueueIsTail, InOrder, WireFollowsWrite, AllWhole
    <2>5. QED
      BY <2>1, <2>3, <2>4
  <1>4. CASE error
    BY <1>3, <1>4, ErrorGood DEF HandleConnectAsync
  <1>5. CASE ~error
    BY <1>2, <1>3, <1>5, CallbackGood DEF HandleConnectAsync, Down
  <1>6. QED
    BY <1>4, <1>5
LEMMA OneFewer ==
  ASSUME NEW s \in Nat, NEW n \in Nat, NEW k \in Nat
  PROVE  (s - n) + (k + 1) = (s - (n - 1)) + k
  OBVIOUS

\* The front of the queue is popped and the next message is started: on a
\* socket that works only after the whole of the message went out.
LEMMA PopGood ==
  ASSUME NEW c, Good(c), c.write # "none", c.sock = "open" => c.write = "whole"
  PROVE  Good(PopAndContinue(c))
  <1> DEFINE d == PopAndContinue(c)
  <1>0. /\ c \in Connection /\ Unused(c) /\ QueueIsTail(c) /\ WriteIsQueued(c) /\ InOrder(c)
        /\ WireFollowsWrite(c) /\ Closed(c)
    BY DEF Good
  <1>1. /\ c.sent \in Nat /\ c.queue \in Seq(Nat) /\ c.wire \in Seq(Sent) /\ c.queue # <<>>
        /\ Len(c.queue) \in Nat /\ Len(c.queue) > 0 /\ DOMAIN c.queue = 1 .. Len(c.queue)
        /\ Len(c.wire) \in Nat
    <2>1. /\ c.sent \in Nat /\ c.queue \in Seq(Nat) /\ c.wire \in Seq(Sent) /\ c.queue # <<>>
      BY <1>0, PlainServerAssumption DEF Connection, WriteIsQueued
    <2>2. QED
      BY <2>1, EmptySeq
  <1>2. /\ d.queue = Tail(c.queue) /\ d.sent = c.sent /\ d.wire = c.wire /\ d.sock = c.sock
        /\ d.connected = c.connected /\ d.reading = c.reading /\ d.closeCalled = c.closeCalled
        /\ d.write = IF d.queue = <<>> THEN "none" ELSE "pending"
        /\ d = [c EXCEPT !.queue = d.queue, !.write = d.write]
    BY <1>0 DEF PopAndContinue, InternalSend, Connection
  <1> HIDE DEF d
  <1>3. /\ d.queue \in Seq(Nat) /\ Len(d.queue) = Len(c.queue) - 1
        /\ DOMAIN d.queue = 1 .. Len(c.queue) - 1
        /\ \A k \in 1 .. Len(c.queue) - 1 : d.queue[k] = c.queue[k + 1]
        /\ d.queue = <<>> => Len(c.queue) = 1
    <2>1. d.queue = Tail(c.queue)
      BY <1>2
    <2>2. d.queue \in Seq(Nat) /\ Len(d.queue) = Len(c.queue) - 1
          /\ \A k \in 1 .. Len(c.queue) - 1 : d.queue[k] = c.queue[k + 1]
      BY <1>1, <2>1, HeadTailProperties
    <2>3. DOMAIN d.queue = 1 .. Len(c.queue) - 1
      BY <2>2
    <2>4. d.queue = <<>> => Len(c.queue) = 1
      BY <1>1, <2>2
    <2>5. QED
      BY <2>2, <2>3, <2>4
  <1>4. d \in Connection
    <2>1. d.write \in Writes
      BY <1>2 DEF Writes
    <2>2. QED
      BY <1>0, <1>2, <1>3, <2>1 DEF Connection
  <1>5. QueueIsTail(d)
    <2>1. d.sent - Len(d.queue) = c.sent - (Len(c.queue) - 1) /\ Len(d.queue) <= d.sent
      <3>1. Len(c.queue) <= c.sent
        BY <1>0 DEF QueueIsTail
      <3>2. d.sent = c.sent /\ Len(d.queue) = Len(c.queue) - 1
        BY <1>2, <1>3
      <3>3. QED
        BY <1>1, <3>1, <3>2
    <2>2. ASSUME NEW k \in 1 .. Len(c.queue) - 1
          PROVE  d.queue[k] = (c.sent - (Len(c.queue) - 1)) + k
      <3>1. k + 1 \in 1 .. Len(c.queue) /\ d.queue[k] = c.queue[k + 1]
        BY <1>1, <1>3
      <3>2. c.queue[k + 1] = (c.sent - Len(c.queue)) + (k + 1)
        BY <1>0, <1>1, <3>1 DEF QueueIsTail
      <3>3. (c.sent - Len(c.queue)) + (k + 1) = (c.sent - (Len(c.queue) - 1)) + k
        <4>1. k \in Nat
          BY <1>1
        <4>2. QED
          BY <1>1, <4>1, OneFewer
      <3>4. QED
        BY <3>1, <3>2, <3>3
    <2>3. QED
      BY <1>3, <2>1, <2>2 DEF QueueIsTail
  <1>6. WireFollowsWrite(d)
    <2>1. SUFFICES ASSUME d.sock = "open" PROVE WireFollowsWrite(d)
      BY DEF WireFollowsWrite
    <2>2. Len(c.wire) = (c.sent - Len(c.queue)) + 1 /\ AllWhole(c)
      BY <1>0, <1>2, <2>1 DEF WireFollowsWrite
    <2>3. AllWhole(d) /\ Len(d.wire) = d.sent - Len(d.queue)
      BY <1>1, <1>2, <1>3, <2>2 DEF AllWhole
    <2>4. d.queue = <<>> => Len(d.wire) = d.sent
      <3>1. d.sent = c.sent /\ d.wire = c.wire
        BY <1>2
      <3>2. ASSUME d.queue = <<>>
            PROVE  Len(c.wire) = c.sent
        <4>1. Len(c.queue) = 1
          BY <1>3, <3>2
        <4>2. Len(c.wire) = (c.sent - 1) + 1
          BY <2>2, <4>1
        <4>3. QED
          BY <1>1, <4>2
      <3>3. QED
        BY <3>1, <3>2
    <2>5. d.write \in {"none", "pending"}
      BY <1>2
    <2>6. QED
      BY <2>3, <2>4, <2>5 DEF WireFollowsWrite
  <1>7. InOrder(d)
    BY <1>0, <1>2 DEF InOrder
  <1>8. Unused(d) /\ Closed(d) /\ WriteIsQueued(d)
    BY <1>0, <1>2 DEF Unused, Down, Closed, WriteIsQueued
  <1>9. Good(d)
    BY <1>4, <1>5, <1>6, <1>7, <1>8 DEF Good
  <1>10. QED
    BY <1>9 DEF d

\* A write that is over and not followed by another one.
LEMMA DroppedGood ==
  ASSUME NEW c, Good(c), c.queue # <<>>
  PROVE  Good([c EXCEPT !.write = "none"])
  <1> DEFINE d == [c EXCEPT !.write = "none"]
  <1>1. /\ d.queue = c.queue /\ d.sent = c.sent /\ d.wire = c.wire /\ d.sock = c.sock
        /\ d.connected = c.connected /\ d.reading = c.reading /\ d.closeCalled = c.closeCalled
        /\ d.write = "none" /\ d \in Connection
    BY DEF Good, Connection, Writes
  <1> HIDE DEF d
  <1>2. Good(d)
    <2>1. Unused(d) /\ Closed(d) /\ WriteIsQueued(d)
      BY <1>1 DEF Good, Unused, Down, Closed, WriteIsQueued
    <2>2. QueueIsTail(d) /\ InOrder(d) /\ WireFollowsWrite(d)
      BY <1>1 DEF Good, QueueIsTail, InOrder, WireFollowsWrite
    <2>3. QED
      BY <1>1, <2>1, <2>2 DEF Good
  <1>3. QED
    BY <1>2 DEF d

\* HandleWriteAsync, on any outcome of the write.
LEMMA WrittenGood ==
  ASSUME NEW c, Good(c), c.write \in {"whole", "part", "error"}, NEW o \in Written(c)
  PROVE  Good(o.conn)
  <1>1. c.queue # <<>> /\ ~Down(c)
    <2>1. c.queue # <<>>
      BY DEF Good, WriteIsQueued
    <2>2. c.sent # 0
      BY <2>1, EmptySeq DEF Good, QueueIsTail, Connection
    <2>3. QED
      BY <2>1, <2>2 DEF Good, Unused
  <1>2. CASE ~c.connected
    BY <1>1, <1>2, DroppedGood DEF Written, Returns
  <1>3. CASE c.connected
    <2> DEFINE outcomes == CASE c.write = "whole" -> Callback(c)
                             [] c.write = "part"  -> Closing(c)
                             [] c.write = "error" -> OnReceivedErrorInternal(c)
    <2>1. PICK p \in outcomes :
            o \in IF p.threw THEN {[p EXCEPT !.conn.write = "none"]}
                             ELSE Returns(PopAndContinue(p.conn))
      BY <1>3 DEF Written
    <2>2. /\ Good(p.conn) /\ p.conn.queue # <<>> /\ p.conn.write = c.write
          /\ p = [conn |-> p.conn, threw |-> p.threw]
          /\ ~p.threw => (p.conn.sock = "open" => c.write = "whole")
      <3>1. CASE c.write = "whole"
        <4>1. p \in Callback(c)
          BY <3>1
        <4>2. p = [conn |-> p.conn, threw |-> p.threw]
          BY <4>1 DEF Callback, Closing, Returns
        <4>3. QED
          BY <1>1, <3>1, <4>1, <4>2, CallbackGood
      <3>2. CASE c.write = "part"
        <4>1. p \in Closing(c)
          BY <3>2
        <4>2. p = [conn |-> p.conn, threw |-> p.threw]
          BY <4>1 DEF Closing, Returns
        <4>3. QED
          BY <1>1, <4>1, <4>2, ClosingGood DEF Uses
      <3>3. CASE c.write = "error"
        <4>1. p \in OnReceivedErrorInternal(c)
          BY <3>3
        <4>2. p = [conn |-> p.conn, threw |-> p.threw]
          BY <4>1 DEF OnReceivedErrorInternal, Closing, Returns
        <4>3. c.sock # "open"
          BY <3>3 DEF Good, WireFollowsWrite
        <4>4. QED
          BY <1>1, <4>1, <4>2, <4>3, ErrorGood DEF Uses
      <3>4. QED
        BY <3>1, <3>2, <3>3
    <2> HIDE DEF outcomes
    <2>3. CASE p.threw
      <3>1. o = [p EXCEPT !.conn.write = "none"]
        BY <2>1, <2>3
      <3>2. o.conn = [p.conn EXCEPT !.write = "none"]
        BY <2>2, <3>1
      <3>3. QED
        BY <2>2, <3>2, DroppedGood
    <2>4. CASE ~p.threw
      <3>1. o.conn = PopAndContinue(p.conn)
        BY <2>1, <2>4 DEF Returns
      <3>2. p.conn.write # "none"
        BY <2>2
      <3>3. QED
        BY <2>2, <2>4, <3>1, <3>2, PopGood
    <2>5. QED
      BY <2>3, <2>4
  <1>4. QED
    BY <1>2, <1>3

\* HandleReadInternal.
LEMMA ReadGood ==
  ASSUME NEW c, Good(c), c.reading, NEW o \in Read(c)
  PROVE  Good(o.conn)
  <1> DEFINE done == [c EXCEPT !.reading = FALSE]
  <1>1. ~Down(c)
    BY DEF Good, Unused
  <1>2. Good(done)
    <2>1. /\ done.sock = c.sock /\ done.connected = c.connected /\ Uses(c, done)
          /\ done.closeCalled = c.closeCalled /\ done \in Connection
      BY DEF Good, Connection, Uses
    <2> HIDE DEF done
    <2>2. Unused(done) /\ Closed(done)
      BY <1>1, <2>1 DEF Good, Unused, Down, Closed
    <2>3. QED
      BY <2>1, <2>2, SameMessages
  <1> HIDE DEF done
  <1>3. o = [conn |-> done, threw |-> FALSE] \/ o \in Callback(c) \/ o \in OnReceivedErrorInternal(done)
    BY DEF Read, Returns, done
  <1>4. QED
    BY <1>1, <1>2, <1>3, CallbackGood, ErrorGood
\* The socket takes the front of the queue, whole or in part, or refuses it.
LEMMA TransmitGood ==
  ASSUME NEW c, Good(c), c.write = "pending",
         NEW result \in IF c.sock = "open" THEN {"whole", "part"} ELSE {"error"}
  PROVE  Good([c EXCEPT !.write = result,
                        !.wire = IF result = "error" THEN @
                                 ELSE Append(@, [msg |-> Head(c.queue), whole |-> result = "whole"])])
  <1> DEFINE piece == [msg |-> Head(c.queue), whole |-> result = "whole"]
             d == [c EXCEPT !.write = result,
                            !.wire = IF result = "error" THEN @ ELSE Append(@, piece)]
  <1>0. /\ c \in Connection /\ Unused(c) /\ QueueIsTail(c) /\ WriteIsQueued(c) /\ InOrder(c)
        /\ WireFollowsWrite(c) /\ Closed(c)
    BY DEF Good
  <1>1. /\ c.sent \in Nat /\ c.queue \in Seq(Nat) /\ c.wire \in Seq(Sent) /\ c.queue # <<>>
        /\ Len(c.queue) \in Nat /\ Len(c.queue) > 0 /\ DOMAIN c.queue = 1 .. Len(c.queue)
        /\ Len(c.wire) \in Nat /\ DOMAIN c.wire = 1 .. Len(c.wire)
    <2>1. /\ c.sent \in Nat /\ c.queue \in Seq(Nat) /\ c.wire \in Seq(Sent) /\ c.queue # <<>>
      BY <1>0, PlainServerAssumption DEF Connection, WriteIsQueued
    <2>2. QED
      BY <2>1, EmptySeq
  <1>2. /\ d.queue = c.queue /\ d.sent = c.sent /\ d.sock = c.sock
        /\ d.connected = c.connected /\ d.reading = c.reading /\ d.closeCalled = c.closeCalled
        /\ d.write = result
        /\ d.wire = IF result = "error" THEN c.wire ELSE Append(c.wire, piece)
        /\ d = [c EXCEPT !.write = d.write, !.wire = d.wire]
    BY <1>0 DEF Connection
  <1>3. piece.msg = Head(c.queue) /\ piece.whole = (result = "whole") /\ piece \in Sent
    <2>1. Head(c.queue) \in Nat
      BY <1>1, HeadTailProperties
    <2>2. QED
      BY <2>1 DEF Sent
  <1> HIDE DEF d, piece
  <1>4. Unused(d) /\ Closed(d) /\ WriteIsQueued(d)
    BY <1>0, <1>1, <1>2 DEF Unused, Down, Closed, WriteIsQueued
  <1>5. QueueIsTail(d)
    BY <1>0, <1>2 DEF QueueIsTail
  <1>6. CASE result = "error"
    <2>1. c.sock # "open"
      BY <1>6
    <2>2. d.wire = c.wire
      BY <1>2, <1>6
    <2>3. InOrder(d) /\ WireFollowsWrite(d)
      BY <1>0, <1>2, <2>1, <2>2 DEF InOrder, WireFollowsWrite
    <2>4. d \in Connection
      BY <1>0, <1>2, <1>6, <2>2 DEF Connection, Writes
    <2>5. Good(d)
      BY <1>4, <1>5, <2>3, <2>4 DEF Good
    <2>6. QED
      BY <2>5 DEF d, piece
  <1>7. CASE result \in {"whole", "part"}
    <2>1. c.sock = "open"
      BY <1>7
    <2>2. Len(c.wire) = c.sent - Len(c.queue) /\ AllWhole(c)
      BY <1>0, <2>1 DEF WireFollowsWrite
    <2>3. Head(c.queue) = Len(c.wire) + 1
      <3>1. Head(c.queue) = c.queue[1] /\ 1 \in DOMAIN c.queue
        BY <1>1, HeadTailProperties
      <3>2. c.queue[1] = (c.sent - Len(c.queue)) + 1
        BY <1>0, <3>1 DEF QueueIsTail
      <3>3. QED
        BY <2>2, <3>1, <3>2
    <2>4. /\ d.wire \in Seq(Sent) /\ Len(d.wire) = Len(c.wire) + 1
          /\ DOMAIN d.wire = 1 .. Len(c.wire) + 1
          /\ \A j \in 1 .. Len(c.wire) : d.wire[j] = c.wire[j]
          /\ d.wire[Len(c.wire) + 1] = piece
      <3>1. d.wire = Append(c.wire, piece)
        BY <1>2, <1>7
      <3>2. /\ d.wire \in Seq(Sent) /\ Len(d.wire) = Len(c.wire) + 1
            /\ \A j \in 1 .. Len(c.wire) : d.wire[j] = c.wire[j]
            /\ d.wire[Len(c.wire) + 1] = piece
        BY <1>1, <1>3, <3>1, AppendProperties
      <3>3. QED
        BY <3>2
    <2>5. InOrder(d)
      <3>1. Len(d.wire) <= d.sent
        BY <1>1, <1>2, <2>2, <2>4
      <3>2. ASSUME NEW j \in 1 .. Len(c.wire) + 1
            PROVE  d.wire[j].msg = j /\ (~d.wire[j].whole => j = Len(d.wire))
        <4>1. CASE j = Len(c.wire) + 1
          BY <1>3, <2>3, <2>4, <4>1
        <4>2. CASE j \in 1 .. Len(c.wire)
          <5>1. c.wire[j].msg = j
            BY <1>0, <1>1, <4>2 DEF InOrder
          <5>2. c.wire[j].whole
            BY <1>1, <2>2, <4>2 DEF AllWhole
          <5>3. QED
            BY <2>4, <4>2, <5>1, <5>2
        <4>3. QED
          BY <1>1, <4>1, <4>2
      <3>3. QED
        BY <2>4, <3>1, <3>2 DEF InOrder
    <2>6. WireFollowsWrite(d)
      <3>1. CASE result = "part"
        BY <1>1, <1>2, <3>1 DEF WireFollowsWrite
      <3>2. CASE result = "whole"
        <4>1. Len(d.wire) = (d.sent - Len(d.queue)) + 1
          BY <1>2, <2>2, <2>4
        <4>2. ASSUME NEW j \in 1 .. Len(c.wire) + 1
              PROVE  d.wire[j].whole
          <5>1. CASE j = Len(c.wire) + 1
            BY <1>3, <2>4, <3>2, <5>1
          <5>2. CASE j \in 1 .. Len(c.wire)
            BY <1>1, <2>2, <2>4, <5>2 DEF AllWhole
          <5>3. QED
            BY <1>1, <5>1, <5>2
        <4>3. AllWhole(d)
          BY <2>4, <4>2 DEF AllWhole
        <4>4. d.queue # <<>> /\ d.write = "whole"
          BY <1>1, <1>2, <3>2
        <4>5. QED
          BY <4>1, <4>3, <4>4 DEF WireFollowsWrite
      <3>3. QED
        BY <1>7, <3>1, <3>2
    <2>7. d \in Connection
      <3>1. result \in Writes
        BY <1>7 DEF Writes
      <3>2. QED
        BY <1>0, <1>2, <2>4, <3>1 DEF Connection
    <2>8. Good(d)
      BY <1>4, <1>5, <2>5, <2>6, <2>7 DEF Good
    <2>9. QED
      BY <2>8 DEF d, piece
  <1>8. QED
    BY <1>6, <1>7

\* The peer of a connection goes away.
LEMMA BreakGood ==
  ASSUME NEW c, Good(c), c.sock = "open"
  PROVE  Good([c EXCEPT !.sock = "broken"])
  <1> DEFINE d == [c EXCEPT !.sock = "broken"]
  <1>1. /\ d \in Connection /\ Uses(c, d) /\ d.sock = "broken" /\ d.closeCalled = c.closeCalled
        /\ d.connected = c.connected
    BY DEF Good, Connection, Uses
  <1> HIDE DEF d
  <1>2. Unused(d) /\ Closed(d)
    BY <1>1 DEF Good, Unused, Down, Closed
  <1>3. Good(d)
    BY <1>1, <1>2, SameMessages
  <1>4. QED
    BY <1>3 DEF d

LEMMA FreshGood ==
  /\ Good(Fresh) /\ Down(Fresh)
  /\ Good([Fresh EXCEPT !.sock = "connecting"])
  <1> DEFINE new(sock) == [Fresh EXCEPT !.sock = sock]
  <1>1. ASSUME NEW sock \in {"new", "connecting"}
        PROVE  Good(new(sock))
    <2>1. /\ new(sock).sent = 0 /\ new(sock).queue = <<>> /\ new(sock).wire = <<>>
          /\ new(sock).write = "none" /\ new(sock).sock = sock /\ ~new(sock).connected
          /\ ~new(sock).reading /\ new(sock).closeCalled = "never"
      BY DEF Fresh
    <2>2. new(sock) \in Connection
      <3>1. <<>> \in Seq(Nat) /\ <<>> \in Seq(Sent) /\ 0 \in 0 .. MaxSends
        BY PlainServerAssumption
      <3>2. QED
        BY <3>1 DEF Fresh, Connection, Writes
    <2> HIDE DEF new
    <2>3. Unused(new(sock)) /\ Closed(new(sock)) /\ WriteIsQueued(new(sock))
      BY <2>1 DEF Unused, Closed, WriteIsQueued
    <2>4. QueueIsTail(new(sock)) /\ InOrder(new(sock)) /\ WireFollowsWrite(new(sock))
      BY <2>1 DEF QueueIsTail, InOrder, WireFollowsWrite, AllWhole
    <2>5. QED
      BY <2>2, <2>3, <2>4 DEF Good
  <1>2. new("new") = Fresh /\ Down(Fresh)
    BY DEF Fresh, Down
  <1>3. Good(new("new")) /\ Good(new("connecting"))
    BY <1>1
  <1>4. QED
    BY <1>2, <1>3

-----------------------------------------------------------------------------
(* The invariant.                                                          *)

\* A connection that a handler leaves good keeps the invariant, if it is not
\* the one that waits for a client.
LEMMA BecomesKeeps ==
  ASSUME Inv, NEW i \in DOMAIN conns, NEW c, Good(c), i # accepting, Becomes(i, c),
         arrived' \in 0 .. MaxConnections, arrived' >= arrived
  PROVE  Inv'
  <1>1. /\ conns' = [conns EXCEPT ![i] = c] /\ acceptor' = acceptor /\ accepting' = accepting
        /\ waiting' = waiting /\ failures' = failures
    BY DEF Becomes
  <1>2. c \in Connection /\ conns \in Seq(Connection) /\ DOMAIN conns = 1 .. Len(conns)
    BY DEF Good, Inv
  <1>3. conns' \in Seq(Connection) /\ Len(conns') = Len(conns) /\ DOMAIN conns' = DOMAIN conns
    BY <1>1, <1>2, ExceptSeq
  <1>4. (\A j \in DOMAIN conns : Good(conns[j]))'
    BY <1>1, <1>3 DEF Inv
  <1>5. AcceptingIsFresh'
    BY <1>1, <1>2, <1>3 DEF Inv, AcceptingIsFresh
  <1>6. ServerTyped'
    BY <1>1, PlainServerAssumption DEF Inv, ServerTyped
  <1>7. QED
    BY <1>3, <1>4, <1>5, <1>6 DEF Inv
\* A new connection at the end keeps the invariant.
LEMMA AppendKeeps ==
  ASSUME NEW s \in Seq(Connection), \A i \in DOMAIN s : Good(s[i]), NEW c, Good(c)
  PROVE  /\ Append(s, c) \in Seq(Connection)
         /\ Len(Append(s, c)) = Len(s) + 1
         /\ Append(s, c)[Len(s) + 1] = c
         /\ \A i \in DOMAIN s : Append(s, c)[i] = s[i]
         /\ \A i \in DOMAIN Append(s, c) : Good(Append(s, c)[i])
  <1>1. /\ Append(s, c) \in Seq(Connection) /\ Len(Append(s, c)) = Len(s) + 1
        /\ Append(s, c)[Len(s) + 1] = c
        /\ \A i \in 1 .. Len(s) : Append(s, c)[i] = s[i]
    BY AppendProperties DEF Good
  <1>2. DOMAIN s = 1 .. Len(s) /\ DOMAIN Append(s, c) = 1 .. Len(s) + 1 /\ Len(s) \in Nat
    BY <1>1
  <1>3. ASSUME NEW i \in 1 .. Len(s) + 1
        PROVE  Good(Append(s, c)[i])
    <2>1. CASE i = Len(s) + 1
      BY <1>1, <2>1
    <2>2. CASE i \in 1 .. Len(s)
      BY <1>1, <1>2, <2>2
    <2>3. QED
      BY <1>2, <2>1, <2>2
  <1>4. QED
    BY <1>1, <1>2, <1>3

\* One connection is replaced by a good one.
LEMMA ExceptKeeps ==
  ASSUME NEW s \in Seq(Connection), \A i \in DOMAIN s : Good(s[i]), NEW i \in DOMAIN s,
         NEW c, Good(c)
  PROVE  /\ [s EXCEPT ![i] = c] \in Seq(Connection)
         /\ Len([s EXCEPT ![i] = c]) = Len(s)
         /\ DOMAIN [s EXCEPT ![i] = c] = DOMAIN s
         /\ \A j \in DOMAIN s : [s EXCEPT ![i] = c][j] = IF j = i THEN c ELSE s[j]
         /\ \A j \in DOMAIN s : Good([s EXCEPT ![i] = c][j])
  <1>1. c \in Connection /\ DOMAIN s = 1 .. Len(s)
    BY DEF Good
  <1>2. /\ [s EXCEPT ![i] = c] \in Seq(Connection) /\ Len([s EXCEPT ![i] = c]) = Len(s)
        /\ \A j \in 1 .. Len(s) : [s EXCEPT ![i] = c][j] = IF j = i THEN c ELSE s[j]
    BY <1>1, ExceptSeq
  <1>3. QED
    BY <1>1, <1>2

LEMMA InitInv == Init => Inv
  <1>1. SUFFICES ASSUME Init PROVE Inv
    OBVIOUS
  <1>2. ServerTyped
    BY <1>1, PlainServerAssumption DEF Init, ServerTyped
  <1>3. conns \in Seq(Connection) /\ Len(conns) = 0 /\ DOMAIN conns = {}
    BY <1>1 DEF Init
  <1>4. AcceptingIsFresh
    BY <1>1, <1>3 DEF Init, AcceptingIsFresh
  <1>5. QED
    BY <1>2, <1>3, <1>4 DEF Inv

LEMMA ServerKeeps == Inv /\ Server => Inv'
  <1>1. SUFFICES ASSUME Inv, Server PROVE Inv'
    OBVIOUS
  <1>2. /\ conns \in Seq(Connection) /\ Len(conns) \in Nat /\ DOMAIN conns = 1 .. Len(conns)
        /\ \A i \in DOMAIN conns : Good(conns[i])
    BY <1>1 DEF Inv
  <1>3. accepting \in 0 .. Len(conns) /\ (accepting # 0 => conns[accepting] = Fresh)
    BY <1>1 DEF Inv, AcceptingIsFresh
  <1>4. CASE Listen
    <2>1. ServerTyped'
      BY <1>1, <1>4 DEF Inv, ServerTyped, Listen
    <2>2. CASE conns' = Append(conns, Fresh) /\ accepting' = Len(conns) + 1
      <3>1. /\ conns' \in Seq(Connection) /\ Len(conns') = Len(conns) + 1
            /\ conns'[Len(conns) + 1] = Fresh
            /\ \A i \in DOMAIN conns' : Good(conns'[i])
        BY <1>2, <2>2, AppendKeeps, FreshGood
      <3>2. AcceptingIsFresh'
        BY <1>2, <2>2, <3>1 DEF AcceptingIsFresh
      <3>3. QED
        BY <2>1, <3>1, <3>2 DEF Inv
    <2>3. CASE UNCHANGED <<conns, accepting>>
      BY <1>1, <2>1, <2>3 DEF Inv, AcceptingIsFresh
    <2>4. QED
      BY <1>4, <2>2, <2>3 DEF Listen
  <1>5. CASE CloseAcceptor
    BY <1>1, <1>5 DEF Inv, ServerTyped, AcceptingIsFresh, CloseAcceptor
  <1>6. CASE HandleAccept
    <2>1. ServerTyped'
      BY <1>1, <1>6 DEF Inv, ServerTyped, HandleAccept
    <2>2. accepting \in DOMAIN conns /\ conns[accepting] = Fresh
      BY <1>2, <1>3, <1>6 DEF HandleAccept
    <2>3. PICK sock \in {"open", "broken"} :
            \E o \in HandleConnectAsync([conns[accepting] EXCEPT !.sock = sock], FALSE) :
              AcceptedOne(o)
      BY <1>6 DEF HandleAccept
    <2>3a. PICK o \in HandleConnectAsync([Fresh EXCEPT !.sock = sock], FALSE) : AcceptedOne(o)
      BY <2>2, <2>3
    <2>4. Good(o.conn)
      BY FreshGood, ConnectGood
    <2> DEFINE accepted == [conns EXCEPT ![accepting] = o.conn]
    <2>5. /\ accepted \in Seq(Connection) /\ Len(accepted) = Len(conns)
          /\ DOMAIN accepted = DOMAIN conns
          /\ \A i \in DOMAIN accepted : Good(accepted[i])
      BY <1>2, <2>2, <2>4, ExceptKeeps
    <2>6. \/ o.threw /\ conns' = accepted /\ accepting' = 0
          \/ ~o.threw /\ conns' = Append(accepted, Fresh) /\ accepting' = Len(conns) + 1
      BY <2>3a DEF AcceptedOne
    <2> HIDE DEF accepted
    <2>7. CASE conns' = accepted /\ accepting' = 0
      <3>1. AcceptingIsFresh'
        BY <1>2, <2>5, <2>7 DEF AcceptingIsFresh
      <3>2. QED
        BY <2>1, <2>5, <2>7, <3>1 DEF Inv
    <2>8. CASE conns' = Append(accepted, Fresh) /\ accepting' = Len(conns) + 1
      <3>1. /\ conns' \in Seq(Connection) /\ Len(conns') = Len(conns) + 1
            /\ conns'[Len(conns) + 1] = Fresh
            /\ \A i \in DOMAIN conns' : Good(conns'[i])
        BY <2>5, <2>8, AppendKeeps, FreshGood
      <3>2. AcceptingIsFresh'
        BY <1>2, <2>8, <3>1 DEF AcceptingIsFresh
      <3>3. QED
        BY <2>1, <3>1, <3>2 DEF Inv
    <2>9. QED
      BY <2>6, <2>7, <2>8
  <1>7. CASE HandleAcceptError
    <2>1. ServerTyped'
      BY <1>1, <1>7, PlainServerAssumption DEF Inv, ServerTyped, HandleAcceptError
    <2>2. accepting \in DOMAIN conns /\ conns[accepting] = Fresh
      BY <1>2, <1>3, <1>7 DEF HandleAcceptError
    <2>3. PICK o \in HandleConnectAsync(conns[accepting], TRUE) : AcceptedNone(o)
      BY <1>7 DEF HandleAcceptError
    <2>4. Good(o.conn)
      <3>1. o \in OnReceivedErrorInternal(Fresh)
        BY <2>2, <2>3 DEF HandleConnectAsync
      <3>2. QED
        BY <3>1, FreshGood, ErrorGood
    <2> DEFINE c == IF o.threw THEN o.conn ELSE Fresh
               next == [conns EXCEPT ![accepting] = c]
    <2>5. Good(c)
      BY <2>4, FreshGood
    <2>6. conns' = next /\ accepting' = IF o.threw THEN 0 ELSE accepting
      BY <2>3 DEF AcceptedNone
    <2>7. ~o.threw => c = Fresh
      OBVIOUS
    <2> HIDE DEF c
    <2>8. /\ next \in Seq(Connection) /\ Len(next) = Len(conns)
          /\ DOMAIN next = DOMAIN conns /\ next[accepting] = c
          /\ \A i \in DOMAIN next : Good(next[i])
      BY <1>2, <2>2, <2>5, ExceptKeeps
    <2> HIDE DEF next
    <2>9. AcceptingIsFresh'
      BY <1>2, <1>3, <2>6, <2>7, <2>8 DEF AcceptingIsFresh
    <2>10. QED
      BY <2>1, <2>6, <2>8, <2>9 DEF Inv
  <1>8. QED
    BY <1>1, <1>4, <1>5, <1>6, <1>7 DEF Server

LEMMA ConnectKeeps == Inv /\ Connect => Inv'
  <1>1. SUFFICES ASSUME Inv, Connect PROVE Inv'
    OBVIOUS
  <1>2. conns \in Seq(Connection) /\ Len(conns) \in Nat /\ DOMAIN conns = 1 .. Len(conns)
    BY <1>1 DEF Inv
  <1>3. conns' = Append(conns, [Fresh EXCEPT !.sock = "connecting"])
    BY <1>1 DEF Connect
  <1>4. /\ conns' \in Seq(Connection) /\ Len(conns') = Len(conns) + 1
        /\ \A i \in DOMAIN conns : conns'[i] = conns[i]
        /\ \A i \in DOMAIN conns' : Good(conns'[i])
    BY <1>1, <1>3, AppendKeeps, FreshGood DEF Inv
  <1>5. AcceptingIsFresh'
    BY <1>1, <1>2, <1>4 DEF Inv, AcceptingIsFresh, Connect
  <1>6. ServerTyped'
    BY <1>1, PlainServerAssumption DEF Inv, ServerTyped, Connect
  <1>7. QED
    BY <1>4, <1>5, <1>6 DEF Inv

\* The step of a connection: the one that waits for a client takes none.
LEMMA ConnectionKeeps ==
  ASSUME Inv, NEW i \in DOMAIN conns,
         Handler(i) \/ AppSends(i) \/ AppCloses(i) \/ Transmit(i) \/ Break(i)
  PROVE  Inv'
  <1> DEFINE c == conns[i]
  <1>1. Good(c)
    BY DEF Inv
  <1>2. arrived' = arrived /\ arrived \in 0 .. MaxConnections /\ arrived \in Nat
    <2>1. arrived \in 0 .. MaxConnections /\ arrived \in Nat
      BY PlainServerAssumption DEF Inv, ServerTyped
    <2>2. ASSUME \E outcomes : Handles(i, outcomes)
          PROVE  arrived' = arrived
      BY <2>2 DEF Handles
    <2>3. CASE HandleConnect(i)
      <3>1. PICK failed \in BOOLEAN :
              LET sock == IF c.sock = "aborted" THEN "closed"
                          ELSE IF failed THEN "broken" ELSE "open" IN
                Handles(i, HandleConnectAsync([c EXCEPT !.sock = sock], failed))
        BY <2>3 DEF HandleConnect
      <3> DEFINE sock == IF c.sock = "aborted" THEN "closed"
                         ELSE IF failed THEN "broken" ELSE "open"
                 outcomes == HandleConnectAsync([c EXCEPT !.sock = sock], failed)
      <3>2. Handles(i, outcomes)
        BY <3>1
      <3> HIDE DEF outcomes
      <3>3. QED
        BY <2>1, <2>2, <3>2
    <2>4. CASE HandleWrite(i)
      BY <2>1, <2>2, <2>4 DEF HandleWrite
    <2>5. CASE HandleRead(i)
      BY <2>1, <2>2, <2>5 DEF HandleRead
    <2>6. CASE AppSends(i)
      BY <2>1, <2>2, <2>6 DEF AppSends
    <2>7. CASE AppCloses(i)
      BY <2>1, <2>2, <2>7 DEF AppCloses
    <2>8. CASE Transmit(i)
      <3>1. arrived' = arrived
        BY <2>8 DEF Transmit
      <3>2. QED
        BY <2>1, <3>1
    <2>9. CASE Break(i)
      <3>1. arrived' = arrived
        BY <2>9 DEF Break
      <3>2. QED
        BY <2>1, <3>1
    <2>10. QED
      BY <2>3, <2>4, <2>5, <2>6, <2>7, <2>8, <2>9 DEF Handler
  <1>3. i = accepting =>
          c.sock = "new" /\ c.write = "none" /\ ~c.reading /\ ~c.connected
    <2>1. SUFFICES ASSUME i = accepting PROVE c = Fresh
      BY DEF Fresh
    <2>2. accepting # 0
      BY <2>1 DEF Inv
    <2>3. QED
      BY <2>1, <2>2 DEF Inv, AcceptingIsFresh
  <1>4. \E d : Good(d) /\ Becomes(i, d) /\ i # accepting
    <2>1. CASE HandleConnect(i)
      <3>1. Down(c) /\ i # accepting
        BY <1>3, <2>1 DEF HandleConnect, Down
      <3>2. PICK failed \in BOOLEAN, sock \in {"open", "broken", "closed"} :
              Handles(i, HandleConnectAsync([c EXCEPT !.sock = sock], failed))
        BY <2>1 DEF HandleConnect
      <3>3. PICK o \in HandleConnectAsync([c EXCEPT !.sock = sock], failed) : Becomes(i, o.conn)
        BY <3>2 DEF Handles
      <3>4. Good(o.conn)
        BY <1>1, <3>1, ConnectGood
      <3>5. QED
        BY <3>1, <3>3, <3>4
    <2>2. CASE HandleWrite(i)
      <3>1. c.write \in {"whole", "part", "error"} /\ i # accepting
        BY <1>1, <1>3, <2>2 DEF HandleWrite, Good, Connection, Writes
      <3>2. PICK o \in Written(c) : Becomes(i, o.conn)
        BY <2>2 DEF HandleWrite, Handles
      <3>3. QED
        BY <1>1, <3>1, <3>2, WrittenGood
    <2>3. CASE HandleRead(i)
      <3>1. c.reading /\ i # accepting
        BY <1>3, <2>3 DEF HandleRead
      <3>2. PICK o \in Read(c) : Becomes(i, o.conn)
        BY <2>3 DEF HandleRead, Handles
      <3>3. QED
        BY <1>1, <3>1, <3>2, ReadGood
    <2>4. CASE AppSends(i)
      <3>1. c.connected /\ c.sent < MaxSends /\ i # accepting
        BY <1>3, <2>4 DEF AppSends
      <3>2. ~Down(c)
        BY <1>1, <3>1 DEF Good, Unused
      <3>3. Becomes(i, Sending(c))
        BY <2>4 DEF AppSends, Handles, Returns
      <3>4. QED
        BY <1>1, <3>1, <3>2, <3>3, SendingGood
    <2>5. CASE AppCloses(i)
      <3>1. i # accepting
        BY <1>3, <2>5 DEF AppCloses
      <3>2. PICK o \in Closing(c) : Becomes(i, o.conn)
        BY <2>5 DEF AppCloses, Handles
      <3>3. QED
        BY <1>1, <3>1, <3>2, ClosingGood
    <2>6. CASE Transmit(i)
      <3>1. c.write = "pending" /\ i # accepting
        BY <1>3, <2>6 DEF Transmit
      <3>2. PICK result \in IF c.sock = "open" THEN {"whole", "part"} ELSE {"error"} :
              Becomes(i, [c EXCEPT !.write = result,
                                   !.wire = IF result = "error" THEN @
                                            ELSE Append(@, [msg |-> Head(c.queue),
                                                            whole |-> result = "whole"])])
        BY <2>6 DEF Transmit
      <3>3. QED
        BY <1>1, <3>1, <3>2, TransmitGood
    <2>7. CASE Break(i)
      <3>1. c.sock = "open" /\ i # accepting
        BY <1>3, <2>7 DEF Break
      <3>2. Becomes(i, [c EXCEPT !.sock = "broken"])
        BY <2>7 DEF Break
      <3>3. QED
        BY <1>1, <3>1, <3>2, BreakGood
    <2>8. QED
      BY <2>1, <2>2, <2>3, <2>4, <2>5, <2>6, <2>7 DEF Handler
  <1>5. QED
    BY <1>2, <1>4, BecomesKeeps

LEMMA NextInv == Inv /\ [Next]_vars => Inv'
  <1>1. SUFFICES ASSUME Inv, [Next]_vars PROVE Inv'
    OBVIOUS
  <1>2. CASE Arrive
    BY <1>1, <1>2, PlainServerAssumption DEF Inv, ServerTyped, AcceptingIsFresh, Arrive
  <1>3. CASE UNCHANGED vars
    BY <1>1, <1>3 DEF Inv, ServerTyped, AcceptingIsFresh, vars
  <1>4. CASE Server
    BY <1>1, <1>4, ServerKeeps
  <1>5. CASE Connect
    BY <1>1, <1>5, ConnectKeeps
  <1>6. CASE \E i \in DOMAIN conns :
               Handler(i) \/ AppSends(i) \/ AppCloses(i) \/ Transmit(i) \/ Break(i)
    BY <1>1, <1>6, ConnectionKeeps
  <1>7. QED
    BY <1>1, <1>2, <1>3, <1>4, <1>5, <1>6 DEF Next

\* The inductive invariant: every connection is good, and the one that waits
\* for a client is as StartAccept made it.
THEOREM Invariance == Spec => []Inv
  BY InitInv, NextInv, PTL DEF Spec

-----------------------------------------------------------------------------
(* The theorems.                                                           *)

\* A sequence whose elements are in a smaller set.
LEMMA Narrowed ==
  ASSUME NEW S, NEW T, NEW s \in Seq(S), \A i \in 1 .. Len(s) : s[i] \in T
  PROVE  s \in Seq(T)
  <1>1. s \in [1 .. Len(s) -> T] /\ Len(s) \in Nat
    <2>1. s \in [1 .. Len(s) -> S] /\ Len(s) \in Nat
      BY LenProperties
    <2>2. QED
      BY <2>1
  <1>2. QED
    BY <1>1, SeqDef

\* The types of the variables; the messages queued and on the wire have been
\* sent, and a write in flight is one of a message that is still queued.
THEOREM TypeCorrect == Spec => []TypeOK
  <1>1. Inv => TypeOK
    <2>1. SUFFICES ASSUME Inv PROVE TypeOK
      OBVIOUS
    <2>2. /\ acceptor \in {"none", "listening", "closed", "failed"} /\ accepting \in 0 .. Len(conns)
          /\ waiting \in 0 .. MaxConnections /\ arrived \in 0 .. MaxConnections
          /\ failures \in 0 .. MaxFailures
      BY <2>1, PlainServerAssumption DEF Inv, ServerTyped, AcceptingIsFresh
    <2>3. ASSUME NEW i \in DOMAIN conns
          PROVE  LET c == conns[i] IN
                   /\ c.sock \in {"new", "connecting", "open", "broken", "closed", "aborted"}
                   /\ c.connected \in BOOLEAN /\ c.reading \in BOOLEAN
                   /\ c.closeCalled \in {"never", "before", "up"}
                   /\ c.sent \in 0 .. MaxSends
                   /\ c.queue \in Seq(1 .. c.sent)
                   /\ c.write \in Writes
                   /\ c.write # "none" => c.queue # <<>>
                   /\ c.wire \in Seq([msg : 1 .. c.sent, whole : BOOLEAN])
      <3> DEFINE c == conns[i]
      <3>1. c \in Connection /\ QueueIsTail(c) /\ InOrder(c) /\ WriteIsQueued(c)
        BY <2>1 DEF Inv, Good
      <3> HIDE DEF c
      <3>2. /\ c.sock \in {"new", "connecting", "open", "broken", "closed", "aborted"}
            /\ c.connected \in BOOLEAN /\ c.reading \in BOOLEAN
            /\ c.closeCalled \in {"never", "before", "up"}
            /\ c.sent \in 0 .. MaxSends /\ c.write \in Writes
            /\ c.queue \in Seq(Nat) /\ c.wire \in Seq(Sent)
        BY <3>1 DEF Connection
      <3>3. c.sent \in Nat
        BY <3>2, PlainServerAssumption
      <3>4. c.queue \in Seq(1 .. c.sent)
        <4>1. ASSUME NEW k \in 1 .. Len(c.queue)
              PROVE  c.queue[k] \in 1 .. c.sent
          <5>1. /\ c.queue[k] = (c.sent - Len(c.queue)) + k
                /\ Len(c.queue) <= c.sent
            BY <3>1, <3>2 DEF QueueIsTail
          <5>2. Len(c.queue) \in Nat
            BY <3>2
          <5>3. QED
            BY <3>3, <5>1, <5>2
        <4>2. QED
          BY <3>2, <4>1, Narrowed
      <3>5. c.wire \in Seq([msg : 1 .. c.sent, whole : BOOLEAN])
        <4> DEFINE Sendable == [msg : 1 .. c.sent, whole : BOOLEAN]
        <4>1. ASSUME NEW j \in 1 .. Len(c.wire)
              PROVE  c.wire[j] \in Sendable
          <5>1. c.wire[j] \in Sent
            BY <3>2, ElementOfSeq
          <5>2. Len(c.wire) \in Nat /\ DOMAIN c.wire = 1 .. Len(c.wire)
            BY <3>2
          <5>3. c.wire[j].msg = j /\ Len(c.wire) <= c.sent
            BY <3>1, <5>2 DEF InOrder
          <5>4. j \in 1 .. c.sent
            BY <3>3, <5>2, <5>3
          <5>5. QED
            BY <5>1, <5>3, <5>4 DEF Sent
        <4> HIDE DEF Sendable
        <4>2. c.wire \in Seq(Sendable)
          BY <3>2, <4>1, Narrowed
        <4>3. QED
          BY <4>2 DEF Sendable
      <3>6. c.write # "none" => c.queue # <<>>
        BY <3>1 DEF WriteIsQueued
      <3>7. QED
        BY <3>2, <3>4, <3>5, <3>6 DEF c
    <2>4. QED
      BY <2>2, <2>3 DEF TypeOK
  <1>2. QED
    BY <1>1, Invariance, PTL

\* A message of which the socket took a part is the last thing the peer gets,
\* and the messages before it came in the order of Send, none skipped.
THEOREM TruncationEndsTheStream == Spec => []TruncatedIsLast
  <1>1. Inv => TruncatedIsLast
    BY DEF Inv, Good, InOrder, TruncatedIsLast
  <1>2. QED
    BY <1>1, Invariance, PTL

\* A connection that has come up and was closed does not count as connected
\* again, whatever completes later.
THEOREM CloseIsFinal == Spec => []ClosedStaysClosed
  <1>1. Inv => ClosedStaysClosed
    BY DEF Inv, Good, Closed, ClosedStaysClosed
  <1>2. QED
    BY <1>1, Invariance, PTL
=============================================================================
