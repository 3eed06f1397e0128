----------------------------- MODULE Rendezvous -----------------------------
(***************************************************************************)
(* What send_data() and receive_data() of ffd::SocketBase (src/src/incl/   *)
(* 45d/socket/SocketBase.hpp) promise to two ends that agree whose turn it *)
(* is: a message is offered, delivered as it is, and acknowledged.  There  *)
(* is no stream, no piece of a message and no ACK byte.  SocketStream      *)
(* implements it.                                                          *)
(***************************************************************************)
EXTENDS Naturals, Sequences

CONSTANTS
  Peer,       \* the two ends
  Message     \* strings and vectors of strings

\* What the theorems assume of Peer.
TwoEnds == \E p, q \in Peer : p # q /\ Peer = {p, q}

VARIABLES
  sent,       \* messages an end has begun to send
  received,   \* messages an end has received
  acked       \* how many of its messages an end knows to be received

vars == <<sent, received, acked>>

Other(p) == CHOOSE q \in Peer : q # p

\* Everything that p has sent is received.
Delivered(p) == Len(received[Other(p)]) = Len(sent[p])

Init ==
  /\ sent = [p \in Peer |-> <<>>]
  /\ received = [p \in Peer |-> <<>>]
  /\ acked = [p \in Peer |-> 0]

\* p begins to send when it knows that its last message was received and has
\* received what the other end has sent.
Offer(p) ==
  /\ acked[p] = Len(sent[p])
  /\ Delivered(Other(p))
  /\ \E m \in Message : sent' = [sent EXCEPT ![p] = Append(@, m)]
  /\ UNCHANGED <<received, acked>>

Deliver(p) ==
  LET q == Other(p)
      n == Len(received[q]) + 1
  IN  /\ ~Delivered(p)
      /\ received' = [received EXCEPT ![q] = Append(@, sent[p][n])]
      /\ UNCHANGED <<sent, acked>>

\* The call of p returns.
Acknowledge(p) ==
  /\ acked[p] < Len(received[Other(p)])
  /\ acked' = [acked EXCEPT ![p] = @ + 1]
  /\ UNCHANGED <<sent, received>>

Next == \E p \in Peer : Offer(p) \/ Deliver(p) \/ Acknowledge(p)

Spec == Init /\ [][Next]_vars

-----------------------------------------------------------------------------
(* Properties.                                                             *)

\* What an end receives is what the other end sent, message by message: none is
\* cut, joined with its neighbour, mixed with an ACK or lost.
ReceivedAsSent ==
  \A p \in Peer : LET q == Other(p)
                  IN  /\ Len(received[q]) <= Len(sent[p])
                      /\ \A i \in 1 .. Len(received[q]) : received[q][i] = sent[p][i]

\* A send_data() that returned was received.
AckedMeansReceived ==
  \A p \in Peer : acked[p] <= Len(received[Other(p)])

\* Only one end's message is under way at a time.
TakesTurns == \A p \in Peer : Delivered(p) \/ Delivered(Other(p))
=============================================================================
