--------------------------- MODULE OrderedChannel ---------------------------
(***************************************************************************)
(* What the framing layer promises: the peer's messages arrive whole, once *)
(* and in the order they were sent, until one the receiver does not accept *)
(* breaks the channel for good.                                            *)
(***************************************************************************)
EXTENDS Naturals, Sequences

CONSTANTS Messages,   \* what the peer may send
          Acceptable  \* the messages the receiver accepts

VARIABLES sent,      \* messages of the peer, in order
          received,  \* messages handed to the application
          open       \* the channel still carries messages

vars == <<sent, received, open>>

Init == /\ sent = <<>>
        /\ received = <<>>
        /\ open = TRUE

Send == /\ \E m \in Messages : sent' = Append(sent, m)
        /\ UNCHANGED <<received, open>>

Waiting == open /\ Len(received) < Len(sent)
Upcoming == sent[Len(received) + 1]

Deliver == /\ Waiting
           /\ Upcoming \in Acceptable
           /\ received' = Append(received, Upcoming)
           /\ UNCHANGED <<sent, open>>

Break == /\ Waiting
         /\ Upcoming \notin Acceptable
         /\ open' = FALSE
         /\ UNCHANGED <<sent, received>>

Next == Send \/ Deliver \/ Break

Spec == Init /\ [][Next]_vars
=============================================================================
