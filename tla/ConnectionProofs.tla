-------------------------- MODULE ConnectionProofs --------------------------
(***************************************************************************)
(* Theorems about Connection, for any number of payloads and messages.     *)
(*                                                                         *)
(* That the transport sees the messages in order rests on the queue, whose *)
(* front alone is written: it always holds the last messages sent, in      *)
(* order, and while the socket works the wire ends just before the message *)
(* being written, or with it once it is written.  A message that fails is  *)
(* skipped, but by then nothing more reaches the wire.  That reading never *)
(* stops rests on the phases of the link: reading starts with the          *)
(* handshake, which is also the only step that sets m_isConnected.         *)
(***************************************************************************)
EXTENDS Connection, SequenceTheorems, TLAPS

Results == {"none", "pending", "whole", "part", "error"}

WriteTyped ==
    /\ write \in [msg : Nat, result : Results]
    /\ write.result = "none" <=> write = None

\* The payloads of the peer are on their way, in the batch, or dispatched.
PayloadsCounted == fromPeer + batch + dispatched <= offered

\* Before the handshake nothing is read and the connection is not connected.
StartsWithHandshake ==
    link # "up" => reads = 0 /\ ~busy /\ ~connected

\* A read is handled before the next one is started, and while the connection
\* is up there is one or the other.
OneRead ==
    /\ busy => reads = 0
    /\ connected /\ link = "up" /\ sock = "open" => reads = 1 \/ busy

\* The queue holds the last messages of those sent.
QueueIsTail ==
    /\ Len(queue) <= Len(sent)
    /\ \A k \in DOMAIN queue : queue[k] = (Len(sent) - Len(queue)) + k

\* m_sendQueue is not empty while a write is in progress, and its front is
\* what is written.
FrontIsWritten ==
    write # None => queue # <<>> /\ write.msg = (Len(sent) - Len(queue)) + 1

\* How much of what was sent is on the wire of a socket that works.
WireFollowsWrite ==
    sock = "open" =>
      /\ write.result # "error"
      /\ write.result = "pending" => Len(wire) + 1 = write.msg
      /\ write.result \in {"whole", "part"} => Len(wire) = write.msg
      /\ queue = <<>> => Len(wire) = Len(sent)

Sending ==
    /\ sent \in Seq(Sizes)
    /\ queue \in Seq(1 .. Len(sent))
    /\ wire \in Seq([msg : 1 .. Len(sent), whole : BOOLEAN])
    /\ WriteTyped
    /\ QueueIsTail
    /\ FrontIsWritten
    /\ WireFollowsWrite
    /\ WireInSendOrder

Flags ==
    /\ isServer \in BOOLEAN /\ closeRequested \in BOOLEAN /\ closeCalled \in BOOLEAN
    /\ connected \in BOOLEAN /\ busy \in BOOLEAN

Phases ==
    /\ link \in {"new", "connecting", "handshaking", "up", "lost"}
    /\ sock \in {"open", "broken", "closed"}
    /\ reads \in {0, 1}
    /\ StartsWithHandshake
    /\ OneRead

Counts ==
    /\ closePosts \in Nat
    /\ fromPeer \in 0 .. MaxPeer
    /\ batch \in 0 .. MaxPeer
    /\ offered \in 0 .. MaxPeer
    /\ dispatched \in 0 .. MaxPeer
    /\ PayloadsCounted

Reading == Flags /\ Phases /\ Counts

Inv == Sending /\ Reading

-----------------------------------------------------------------------------
(* What a step does to the queue, the write and the wire.                  *)

\* A message sent takes the next number, and is written when none was queued.
LEMMA SendInv ==
  ASSUME Sending, NEW size \in Sizes, Send(size), UNCHANGED wire, sock' = "open" => sock = "open"
  PROVE  Sending'
  <1> USE DEF Sending
  <1> DEFINE n == Len(sent)
  <1>1. /\ n \in Nat /\ sent \in Seq(Sizes) /\ queue \in Seq(1 .. n)
        /\ wire \in Seq([msg : 1 .. n, whole : BOOLEAN])
    OBVIOUS
  <1>2. sent' \in Seq(Sizes) /\ Len(sent') = n + 1
    BY <1>1 DEF Send
  <1>3. /\ queue \in Seq(1 .. n + 1)
        /\ wire \in Seq([msg : 1 .. n + 1, whole : BOOLEAN])
    <2>1. 1 .. n \subseteq 1 .. n + 1
      BY <1>1
    <2>2. [msg : 1 .. n, whole : BOOLEAN] \subseteq [msg : 1 .. n + 1, whole : BOOLEAN]
      BY <2>1
    <2>3. QED
      BY <1>1, <2>1, <2>2, SeqMonotonic
  <1>4. /\ queue' \in Seq(1 .. n + 1) /\ Len(queue') = Len(queue) + 1
        /\ \A k \in 1 .. Len(queue) : queue'[k] = queue[k]
        /\ queue'[Len(queue) + 1] = n + 1
    <2>1. queue' = Append(queue, n + 1) /\ n + 1 \in 1 .. n + 1
      BY <1>1 DEF Send
    <2>2. QED
      BY <1>3, <2>1, AppendProperties
  <1>5. QueueIsTail'
    <2>1. DOMAIN queue' = 1 .. Len(queue) + 1 /\ DOMAIN queue = 1 .. Len(queue) /\ Len(queue) \in Nat
      BY <1>1, <1>4
    <2>2. ASSUME NEW k \in 1 .. Len(queue) + 1
          PROVE  queue'[k] = (n + 1) - (Len(queue) + 1) + k
      <3>1. CASE k = Len(queue) + 1
        BY <1>1, <1>4, <2>1, <3>1
      <3>2. CASE k \in 1 .. Len(queue)
        <4>1. queue[k] = (n - Len(queue)) + k
          BY <2>1, <3>2 DEF QueueIsTail
        <4>2. queue'[k] = queue[k]
          BY <1>4, <3>2
        <4>3. QED
          BY <1>1, <2>1, <3>2, <4>1, <4>2
      <3>3. QED
        BY <2>1, <3>1, <3>2
    <2>3. QED
      BY <1>1, <1>2, <1>4, <2>1, <2>2 DEF QueueIsTail
  <1>6. CASE queue = <<>>
    <2>1. write' = PendingWrite(n + 1) /\ Len(queue) = 0 /\ Len(queue') = 1 /\ queue' # <<>>
      BY <1>1, <1>4, <1>6 DEF Send
    <2>2. WriteTyped' /\ FrontIsWritten'
      BY <1>1, <1>2, <2>1 DEF WriteTyped, FrontIsWritten, PendingWrite, None, Results
    <2>3. WireFollowsWrite'
      BY <1>1, <1>2, <1>6, <2>1 DEF WireFollowsWrite, PendingWrite
    <2>4. QED
      BY <1>1, <1>2, <1>3, <1>4, <1>5, <2>1, <2>2, <2>3
      DEF PendingWrite, WireInSendOrder
  <1>7. CASE queue # <<>>
    <2>1. write' = write /\ queue' # <<>>
      BY <1>1, <1>4, <1>7 DEF Send
    <2>2. WriteTyped' /\ FrontIsWritten'
      BY <1>1, <1>2, <1>4, <2>1, <1>7 DEF WriteTyped, FrontIsWritten
    <2>3. WireFollowsWrite'
      BY <1>7, <2>1 DEF WireFollowsWrite
    <2>4. QED
      BY <1>2, <1>3, <1>4, <1>5, <2>2, <2>3 DEF WireInSendOrder
  <1>8. QED
    BY <1>6, <1>7

\* The transport takes the front of the queue, whose number is the next on the wire.
LEMMA TransmitInv ==
  ASSUME Sending, Transmit
  PROVE  Sending'
  <1> USE DEF Sending
  <1>1. UNCHANGED <<sock, queue, sent>> /\ write.result = "pending"
    BY DEF Transmit
  <1>2. write # None /\ write.msg \in 1 .. Len(sent) /\ queue # <<>> /\ write.msg \in Nat
    BY <1>1 DEF None, FrontIsWritten, QueueIsTail
  <1>3. CASE sock = "open"
    <2>1. PICK whole \in BOOLEAN :
             /\ wire' = Append(wire, [msg |-> write.msg, whole |-> whole])
             /\ write' = [write EXCEPT !.result = IF whole THEN "whole" ELSE "part"]
      BY <1>3 DEF Transmit
    <2>2. /\ wire' \in Seq([msg : 1 .. Len(sent), whole : BOOLEAN])
          /\ Len(wire') = Len(wire) + 1
          /\ \A i \in 1 .. Len(wire) : wire'[i] = wire[i]
          /\ wire'[Len(wire) + 1].msg = write.msg
      BY <1>2, <2>1, AppendProperties
    <2>3. Len(wire) + 1 = write.msg /\ Len(wire) \in Nat
      BY <1>1, <1>3 DEF WireFollowsWrite
    <2>4. /\ write'.msg = write.msg /\ write'.result \in {"whole", "part"}
          /\ write' \in [msg : Nat, result : Results]
      BY <2>1 DEF WriteTyped, Results
    <2>5. WriteTyped' /\ FrontIsWritten'
      BY <1>1, <1>2, <2>4 DEF WriteTyped, FrontIsWritten, None
    <2>6. WireFollowsWrite'
      BY <1>1, <1>2, <2>2, <2>3, <2>4 DEF WireFollowsWrite
    <2>7. WireInSendOrder'
      <3>1. DOMAIN wire = 1 .. Len(wire) /\ DOMAIN wire' = 1 .. Len(wire) + 1
        BY <2>2
      <3>2. ASSUME NEW i \in 1 .. Len(wire) + 1
            PROVE  wire'[i].msg = i
        <4>1. CASE i = Len(wire) + 1
          BY <2>2, <2>3, <4>1
        <4>2. CASE i \in 1 .. Len(wire)
          BY <2>2, <3>1, <4>2 DEF WireInSendOrder
        <4>3. QED
          BY <2>3, <4>1, <4>2
      <3>3. QED
        BY <3>1, <3>2 DEF WireInSendOrder
    <2>8. QED
      BY <1>1, <2>2, <2>5, <2>6, <2>7 DEF QueueIsTail
  <1>4. CASE sock # "open"
    <2>1. write' = [write EXCEPT !.result = "error"] /\ UNCHANGED wire
      BY <1>4 DEF Transmit
    <2>2. WriteTyped' /\ FrontIsWritten'
      BY <1>1, <1>2, <2>1 DEF WriteTyped, FrontIsWritten, None, Results
    <2>3. QED
      BY <1>1, <1>4, <2>1, <2>2 DEF QueueIsTail, WireFollowsWrite, WireInSendOrder
  <1>5. QED
    BY <1>3, <1>4

\* The front is popped once it is written, and the next message is its
\* successor; a message that is not popped stays there for good.
LEMMA HandleWriteInv ==
  ASSUME Sending, HandleWrite
  PROVE  Sending'
  <1> USE DEF Sending
  <1>1. /\ UNCHANGED <<sock, sent, wire>> /\ write.result \in {"whole", "part", "error"}
        /\ Len(sent) \in Nat /\ Len(queue) \in Nat
    BY DEF HandleWrite
  <1>2. write # None /\ write.msg \in 1 .. Len(sent) /\ queue # <<>>
    BY <1>1 DEF None, FrontIsWritten, QueueIsTail
  <1>3. CASE ~connected
    <2>1. write' = None /\ UNCHANGED queue
      BY <1>3 DEF HandleWrite
    <2>2. WriteTyped' /\ FrontIsWritten'
      BY <2>1 DEF WriteTyped, FrontIsWritten, None, Results
    <2>3. WireFollowsWrite'
      BY <1>1, <1>2, <2>1 DEF WireFollowsWrite, None
    <2>4. QED
      BY <1>1, <2>1, <2>2, <2>3 DEF QueueIsTail, WireInSendOrder
  <1>4. CASE connected
    <2>1. PopAndContinue
      BY <1>4 DEF HandleWrite
    <2>2. /\ queue' \in Seq(1 .. Len(sent)) /\ Len(queue') = Len(queue) - 1
          /\ \A k \in 1 .. Len(queue) - 1 : queue'[k] = queue[k + 1]
      BY <1>2, <2>1, HeadTailProperties DEF PopAndContinue
    <2>3. QueueIsTail'
      <3>1. DOMAIN queue = 1 .. Len(queue) /\ DOMAIN queue' = 1 .. Len(queue) - 1
        BY <2>2
      <3>2. ASSUME NEW k \in 1 .. Len(queue) - 1
            PROVE  queue'[k] = (Len(sent) - (Len(queue) - 1)) + k
        <4>1. k + 1 \in 1 .. Len(queue)
          BY <1>1
        <4>2. queue[k + 1] = (Len(sent) - Len(queue)) + (k + 1)
          BY <3>1, <4>1 DEF QueueIsTail
        <4>3. QED
          BY <1>1, <2>2, <4>2
      <3>3. QED
        BY <1>1, <2>2, <3>1, <3>2 DEF QueueIsTail
    <2>4. CASE queue' = <<>>
      <3>1. write' = None
        BY <2>1, <2>4 DEF PopAndContinue
      <3>2. Len(queue) = 1
        BY <1>1, <2>2, <2>4
      <3>3. WriteTyped' /\ FrontIsWritten'
        BY <3>1 DEF WriteTyped, FrontIsWritten, None, Results
      <3>4. write.msg = Len(sent)
        BY <1>1, <1>2, <3>2 DEF FrontIsWritten
      <3>5. WireFollowsWrite'
        BY <1>1, <3>1, <3>4 DEF WireFollowsWrite, None
      <3>6. QED
        BY <1>1, <2>2, <2>3, <3>3, <3>5 DEF WireInSendOrder
    <2>5. CASE queue' # <<>>
      <3>1. write' = PendingWrite(queue'[1]) /\ 1 \in DOMAIN queue'
        BY <2>1, <2>2, <2>5 DEF PopAndContinue
      <3>2. queue'[1] = (Len(sent) - Len(queue')) + 1 /\ queue'[1] \in 1 .. Len(sent)
        BY <1>1, <2>2, <2>3, <3>1 DEF QueueIsTail
      <3>3. WriteTyped' /\ FrontIsWritten'
        BY <1>1, <2>5, <3>1, <3>2 DEF WriteTyped, FrontIsWritten, PendingWrite, None, Results
      <3>4. WireFollowsWrite'
        <4>1. write'.msg = write.msg + 1
          <5>1. write'.msg = queue'[1]
            BY <3>1 DEF PendingWrite
          <5>2. QED
            BY <1>1, <1>2, <2>2, <3>2, <5>1, SMTT(30) DEF FrontIsWritten
        <4>2. sock = "open" => Len(wire) = write.msg
          BY <1>1 DEF WireFollowsWrite
        <4>3. write'.result = "pending"
          BY <3>1 DEF PendingWrite
        <4>4. QED
          BY <1>1, <1>2, <2>5, <4>1, <4>2, <4>3 DEF WireFollowsWrite
      <3>5. QED
        BY <1>1, <2>2, <2>3, <3>3, <3>4 DEF WireInSendOrder
    <2>6. QED
      BY <2>4, <2>5
  <1>5. QED
    BY <1>3, <1>4

\* Whatever the step, the queue, the write and the wire change by one of these,
\* and a socket that has stopped working does not work again.
LEMMA SendCases ==
  ASSUME [Next]_vars
  PROVE  /\ sock' = "open" => sock = "open"
         /\ \/ UNCHANGED sendVars
            \/ \E size \in Sizes : Send(size) /\ UNCHANGED wire
            \/ Transmit
            \/ HandleWrite
  <1>1. CASE HandleHandshake
    BY <1>1 DEF HandleHandshake
  <1>2. CASE RunClose
    BY <1>2 DEF RunClose
  <1>3. CASE Dispatch
    <2>1. "small" \in Sizes
      BY DEF Sizes
    <2>2. PICK p \in Payloads :
            \/ p = "unknown" /\ SendError
            \/ p = "rejected" /\ RejectCommand
            \/ RunCommand(p)
            \/ UNCHANGED <<queue, write, sent>>
      BY <1>3 DEF Dispatch
    <2>3. UNCHANGED <<queue, write, sent>> \/ Send("small")
      BY <2>2 DEF SendError, RejectCommand, RunCommand
    <2>4. UNCHANGED <<sock, wire>>
      BY <1>3 DEF Dispatch
    <2>5. QED
      BY <2>1, <2>3, <2>4 DEF sendVars
  <1>4. CASE AppSends
    BY <1>4 DEF AppSends
  <1>5. CASE Transmit \/ HandleWrite
    BY <1>5 DEF Transmit, HandleWrite
  <1>6. CASE \/ Connect \/ HandleConnect \/ PeerSends \/ Disconnect \/ AppCloses \/ HandleRead
             \/ HandleReadError \/ StartReading \/ UNCHANGED vars
    BY <1>6 DEF Connect, HandleConnect, PeerSends, Disconnect, AppCloses, HandleRead,
                HandleReadError, StartReading, vars
  <1>7. QED
    BY <1>1, <1>2, <1>3, <1>4, <1>5, <1>6 DEF Next, IoThread, Application, Environment

LEMMA SendStep == Sending /\ [Next]_vars => Sending'
  <1> SUFFICES ASSUME Sending, [Next]_vars
               PROVE  Sending'
    OBVIOUS
  <1>1. CASE UNCHANGED sendVars /\ (sock' = "open" => sock = "open")
    BY <1>1 DEF Sending, sendVars, WriteTyped, QueueIsTail, FrontIsWritten, WireFollowsWrite,
                WireInSendOrder
  <1>2. QED
    BY <1>1, SendCases, SendInv, TransmitInv, HandleWriteInv

-----------------------------------------------------------------------------
(* Reading, and the rest of the types.                                     *)

\* Every command leaves m_isConnected as it is or closes the connection.
LEMMA DispatchCloses ==
  ASSUME Dispatch, connected \in BOOLEAN, closePosts \in Nat, closeCalled \in BOOLEAN,
         closeRequested \in BOOLEAN
  PROVE  /\ closeRequested' \in BOOLEAN
         /\ UNCHANGED closeVars \/ Close
  <1>1. PICK p \in Payloads :
          \/ p = "unknown" /\ SendError /\ UNCHANGED closeVars
          \/ p = "rejected" /\ RejectCommand
          \/ RunCommand(p)
          \/ Close /\ UNCHANGED closeRequested
    BY DEF Dispatch
  <1>2. QED
    BY <1>1 DEF SendError, RejectCommand, RunCommand, CloseIfRequested

LEMMA FlagsStep == Flags /\ Counts /\ [Next]_vars => Flags'
  <1> SUFFICES ASSUME Flags, Counts, [Next]_vars
               PROVE  Flags'
    OBVIOUS
  <1> USE DEF Flags, readVars, closeVars
  <1>1. CASE Connect \/ HandleConnect \/ HandleHandshake
    BY <1>1 DEF Connect, HandleConnect, HandleHandshake, OnReceivedErrorInternal
  <1>2. CASE RunClose \/ HandleWrite \/ HandleRead \/ HandleReadError \/ StartReading
    BY <1>2 DEF RunClose, HandleWrite, HandleRead, HandleReadError, StartReading, Close,
                OnReceivedErrorInternal
  <1>3. CASE Dispatch
    <2>1. closeRequested' \in BOOLEAN /\ (UNCHANGED closeVars \/ Close)
      BY <1>3, DispatchCloses DEF Counts
    <2>2. QED
      BY <1>3, <2>1 DEF Dispatch, Close
  <1>4. CASE AppSends \/ AppCloses
    BY <1>4 DEF AppSends, AppCloses, Close
  <1>5. CASE Transmit \/ PeerSends \/ Disconnect \/ UNCHANGED vars
    BY <1>5 DEF Transmit, PeerSends, Disconnect, vars
  <1>6. QED
    BY <1>1, <1>2, <1>3, <1>4, <1>5 DEF Next, IoThread, Application, Environment

LEMMA PhasesStep == Reading /\ [Next]_vars => Phases'
  <1> SUFFICES ASSUME Reading, [Next]_vars
               PROVE  Phases'
    OBVIOUS
  <1>0. Phases
    BY DEF Reading
  <1> USE <1>0 DEF Phases, StartsWithHandshake, OneRead, readVars, closeVars
  <1>1. CASE Connect
    BY <1>1 DEF Connect
  <1>2. CASE HandleConnect
    BY <1>2 DEF HandleConnect, OnReceivedErrorInternal
  <1>3. CASE HandleHandshake
    BY <1>3 DEF HandleHandshake
  <1>4. CASE RunClose
    BY <1>4 DEF RunClose
  <1>5. CASE HandleWrite
    BY <1>5 DEF HandleWrite, OnReceivedErrorInternal, Close
  <1>6. CASE HandleRead
    BY <1>6 DEF HandleRead
  <1>7. CASE HandleReadError
    BY <1>7 DEF HandleReadError, OnReceivedErrorInternal
  <1>8. CASE Dispatch
    <2>1. UNCHANGED closeVars \/ Close
      BY <1>8, DispatchCloses DEF Reading, Flags, Counts
    <2>2. connected' => connected
      BY <2>1 DEF Close
    <2>3. UNCHANGED <<link, sock, reads>> /\ busy
      BY <1>8 DEF Dispatch
    <2>4. CASE busy'
      BY <2>2, <2>3, <2>4
    <2>5. CASE ~busy'
      <3>1. ~connected'
        BY <1>8, <2>5 DEF Dispatch, RunCommand, Close
      <3>2. QED
        BY <2>3, <2>5, <3>1
    <2>6. QED
      BY <2>4, <2>5
  <1>9. CASE StartReading
    BY <1>9 DEF StartReading
  <1>10. CASE AppSends
    BY <1>10 DEF AppSends
  <1>11. CASE AppCloses
    BY <1>11 DEF AppCloses, Close
  <1>12. CASE Transmit \/ PeerSends \/ Disconnect
    BY <1>12 DEF Transmit, PeerSends, Disconnect
  <1>13. CASE UNCHANGED vars
    BY <1>13 DEF vars
  <1>14. QED
    BY <1>1, <1>2, <1>3, <1>4, <1>5, <1>6, <1>7, <1>8, <1>9, <1>10, <1>11, <1>12, <1>13
    DEF Next, IoThread, Application, Environment

LEMMA OneMoreDispatched ==
  ASSUME NEW max \in Nat, NEW peer \in 0 .. max, NEW b \in 0 .. max, NEW d \in 0 .. max,
         NEW o \in 0 .. max, peer + b + d <= o, b > 0, NEW left \in 0 .. b - 1
  PROVE  left \in 0 .. max /\ d + 1 \in 0 .. max /\ peer + left + (d + 1) <= o
  OBVIOUS

LEMMA CountsStep == Counts /\ [Next]_vars => Counts'
  <1> SUFFICES ASSUME Counts, [Next]_vars
               PROVE  Counts'
    OBVIOUS
  <1> USE ConnectionAssumption DEF Counts, PayloadsCounted, readVars, closeVars
  <1>1. CASE Connect \/ HandleConnect \/ HandleHandshake
    BY <1>1 DEF Connect, HandleConnect, HandleHandshake, OnReceivedErrorInternal
  <1>2. CASE RunClose \/ HandleWrite \/ HandleReadError \/ StartReading
    BY <1>2 DEF RunClose, HandleWrite, HandleReadError, StartReading, Close,
                OnReceivedErrorInternal
  <1>3. CASE HandleRead
    <2>1. PICK n \in 1 .. fromPeer : fromPeer' = fromPeer - n /\ (batch' = n \/ batch' = batch)
      BY <1>3 DEF HandleRead
    <2>2. UNCHANGED <<offered, dispatched, closePosts>>
      BY <1>3 DEF HandleRead
    <2>3. QED
      BY <2>1, <2>2
  <1>4. CASE Dispatch
    <2>1. batch > 0 /\ batch' \in {0, batch - 1} /\ dispatched' = dispatched + 1
      BY <1>4 DEF Dispatch
    <2>2. offered' = offered /\ fromPeer' = fromPeer
      BY <1>4 DEF Dispatch
    <2>3. closePosts' \in {closePosts, closePosts + 1}
      BY <1>4 DEF Dispatch, SendError, RejectCommand, RunCommand, CloseIfRequested, Close
    <2>4. batch' \in 0 .. batch - 1 /\ closePosts' \in Nat
      BY <2>1, <2>3
    <2>5. QED
      BY <2>1, <2>2, <2>4, OneMoreDispatched
  <1>5. CASE AppSends \/ AppCloses
    <2>1. CASE AppSends
      BY <2>1 DEF AppSends
    <2>2. CASE AppCloses
      BY <2>2 DEF AppCloses, Close
    <2>3. QED
      BY <1>5, <2>1, <2>2
  <1>6. CASE PeerSends
    BY <1>6 DEF PeerSends
  <1>7. CASE Transmit \/ Disconnect \/ UNCHANGED vars
    BY <1>7 DEF Transmit, Disconnect, vars
  <1>8. QED
    BY <1>1, <1>2, <1>3, <1>4, <1>5, <1>6, <1>7 DEF Next, IoThread, Application, Environment

LEMMA ReadStep == Reading /\ [Next]_vars => Reading'
  BY FlagsStep, PhasesStep, CountsStep DEF Reading

-----------------------------------------------------------------------------
(* The theorems.                                                           *)

LEMMA InitInv == Init => Inv
  <1> SUFFICES ASSUME Init PROVE Inv
    OBVIOUS
  <1> USE ConnectionAssumption DEF Init
  <1>1. Sending
    BY DEF Sending, WriteTyped, QueueIsTail, FrontIsWritten, WireFollowsWrite, WireInSendOrder,
           None, Results
  <1>2. Reading
    <2>1. Flags
      BY DEF Flags
    <2>2. Phases
      BY DEF Phases, StartsWithHandshake, OneRead
    <2>3. Counts
      BY DEF Counts, PayloadsCounted
    <2>4. QED
      BY <2>1, <2>2, <2>3 DEF Reading
  <1>3. QED
    BY <1>1, <1>2 DEF Inv

LEMMA Invariance == Spec => []Inv
  <1>1. Inv /\ [Next]_vars => Inv'
    BY SendStep, ReadStep DEF Inv
  <1>2. QED
    BY InitInv, <1>1, PTL DEF Spec

\* Every variable of the connection keeps its type, however many messages and
\* payloads there are: in particular no more payloads are dispatched than the
\* peer has sent, and one read is pending at most.
THEOREM TypeCorrect == Spec => []TypeOK
  <1>1. Inv => TypeOK
    <2> SUFFICES ASSUME Inv PROVE TypeOK
      OBVIOUS
    <2>1. CASE write = None
      BY <2>1 DEF Inv, Sending, Reading, Flags, Phases, Counts, WriteTyped, Results, TypeOK
    <2>2. CASE write # None
      <3>1. /\ queue # <<>> /\ Len(queue) \in Nat /\ Len(sent) \in Nat
            /\ write.msg = (Len(sent) - Len(queue)) + 1 /\ Len(queue) <= Len(sent)
        BY <2>2 DEF Inv, Sending, FrontIsWritten, QueueIsTail
      <3>2. write.msg \in 1 .. Len(sent)
        BY <3>1 DEF Inv, Sending
      <3>3. QED
        BY <3>2 DEF Inv, Sending, Reading, Flags, Phases, Counts, WriteTyped, Results, TypeOK
    <2>3. QED
      BY <2>1, <2>2
  <1>2. QED
    BY Invariance, <1>1, PTL

\* The messages reach the wire in the order of the calls to Send, none skipped
\* and none twice (TCPConnection.cpp: Send, HandleWriteAsync).
THEOREM SentInOrder == Spec => []WireInSendOrder
  <1>1. Inv => WireInSendOrder
    BY DEF Inv, Sending
  <1>2. QED
    BY Invariance, <1>1, PTL

\* While the connection is up and its socket works, exactly one read is pending
\* or being handled (GenericConnection.cpp: ProcessDataGeneric).
THEOREM NeverStopsReading == Spec => []NeverDeaf
  <1>1. Inv => NeverDeaf
    BY DEF Inv, Reading, Flags, Phases, OneRead, NeverDeaf
  <1>2. QED
    BY Invariance, <1>1, PTL
=============================================================================
