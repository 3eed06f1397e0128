-------------------------- MODULE MC_SocketStream --------------------------
(* Conversations, in which both ends agree who sends next and then close,   *)
(* and ends that do not agree.                                              *)
EXTENDS SocketStream, TLC

CONSTANTS client, server, x, y, nul, rs, ack

MC_Peer == {client, server}
MC_Byte == {x, y, nul, rs, ack}

\* An end's part of a conversation, a sequence of turns <<sender, sent, receive>>.
Part(p, turns) ==
  [i \in 1 .. Len(turns) |-> IF turns[i][1] = p THEN turns[i][2] ELSE turns[i][3]]

Conversation(turns) == [p \in MC_Peer |-> Append(Part(p, turns), CloseCall)]

\* Strings shorter than, as long as and longer than what one recv() returns, one
\* of them with an ACK; vectors with and without an empty record.
Strings == {<<x>>, <<x, ack>>, <<y, x, x, y>>}
Vectors == {<< <<x>>, <<y, x>> >>, << <<>>, <<y>> >>}

\* Longer than a segment.
Long == << <<y, x>>, <<x, y>> >>

MC_Message == Strings \cup {<<ack, x>>} \cup Vectors \cup {Long}

Exchanges == {<<SendCall(TRUE, m), ReceiveCall(TRUE)>> : m \in Strings}
             \cup {<<SendVector(TRUE, v), ReceiveVector(TRUE)>> : v \in Vectors}

\* The client begins.
MC_Agreed ==
  {Conversation([i \in 1 .. 3 |-> <<who[i], e[i][1], e[i][2]>>]) :
     who \in {w \in [1 .. 3 -> MC_Peer] : w[1] = client}, e \in [1 .. 3 -> Exchanges]}

\* Asynchronous calls, with and without a byte that looks like an ACK, messages
\* longer than a segment, ends that close before the other has finished.
Careless ==
  LET calls == {SendCall(FALSE, <<x>>), SendCall(FALSE, <<ack, x>>), SendVector(TRUE, Long),
                ReceiveCall(FALSE), ReceiveCall(TRUE)}
      ended == {Append(s, CloseCall) : s \in UNION {[1 .. n -> calls] : n \in 0 .. 2}}
  IN  [MC_Peer -> ended]

MC_Scripts == MC_Agreed \cup Careless
=============================================================================
