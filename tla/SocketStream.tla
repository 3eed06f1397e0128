---------------------------- MODULE SocketStream ----------------------------
(***************************************************************************)
(* The message exchange of ffd::SocketBase (src/src/incl/45d/socket/       *)
(* SocketBase.hpp) between the two ends of one connected unix stream       *)
(* socket.  Each end runs a thread that makes a fixed sequence of calls.   *)
(* A send() puts a message's bytes into the stream, and the synchronous     *)
(* variant waits for one ACK byte, which comes over the same stream as the *)
(* other end's messages; a receive reads until the stream looks empty.  A  *)
(* vector is sent as one message, its records separated by RS.             *)
(*                                                                         *)
(* The kernel's side: a send() of at most Segment bytes enters the stream   *)
(* at once, a longer one piece by piece, and blocks while Capacity bytes    *)
(* are unread; bytes keep their order and none is lost while both ends are  *)
(* open.                                                                   *)
(***************************************************************************)
EXTENDS Integers, Sequences, FiniteSets, SequencesExt

CONSTANTS
  Peer,       \* the two ends
  Byte,       \* what strings are made of
  Message,    \* the strings, and vectors of strings, that the ends send
  Nul,        \* '\0'
  RS,         \* _rec_delim
  ACK,        \* the member ACK, '\6'
  Scripts,    \* sequences of calls that the two ends may make
  Agreed,     \* those in which the ends agree who sends next
  ReadMax,    \* _buff_sz - 1: bytes one recv() may return
  Segment,    \* bytes that enter the stream at once
  Capacity    \* unread bytes that make send() block

Made(op, sync, vector, data) ==
  [op |-> op, sync |-> sync, vector |-> vector, data |-> data]

SendCall(sync, m) == Made("send", sync, FALSE, m)
SendVector(sync, v) == Made("send", sync, TRUE, v)
ReceiveCall(sync) == Made("receive", sync, FALSE, <<>>)
ReceiveVector(sync) == Made("receive", sync, TRUE, <<>>)
CloseCall == Made("close", FALSE, FALSE, <<>>)

\* What goes into the stream for a call; a vector has a first record.
Encode(call) ==
  IF call.vector
  THEN FoldLeft(LAMBDA s, record : s \o <<RS>> \o record, Head(call.data), Tail(call.data))
  ELSE call.data

\* The bytes of a message are any, an ACK too.
Call ==
  {c \in [op : {"send", "receive", "close"}, sync : BOOLEAN, vector : BOOLEAN,
          data : Message \cup {<<>>}] :
     c.op = "send" => Encode(c) \in Seq(Byte)}

\* No message among an end's calls has a byte that looks like an ACK.
NoAckSent(calls) ==
  \A i \in 1 .. Len(calls) :
    calls[i].op = "send" => Encode(calls[i]) \in Seq(Byte \ {ACK})

\* getline() until it finds nothing more: no record follows a last RS.
Split(s) ==
  LET ends == SelectSeq([i \in 1 .. Len(s) + 1 |-> i],
                        LAMBDA i : IF i > Len(s) THEN s # <<>> /\ Last(s) # RS
                                   ELSE s[i] = RS)
  IN  [k \in 1 .. Len(ends) |->
         SubSeq(s, IF k = 1 THEN 1 ELSE ends[k - 1] + 1, ends[k] - 1)]

\* A message that can arrive as it was sent: it enters the stream at once, it has
\* no '\0', and a vector comes apart the way it was put together.
Carried(call) ==
  /\ call.data \in Message
  /\ Encode(call) \in Seq(Byte \ {Nul})
  /\ Len(Encode(call)) \in 1 .. Segment
  /\ call.vector => Split(Encode(call)) = call.data

\* A synchronous send and the receive call that is meant for it.
Matches(c, d) ==
  /\ c.op = "send" /\ d.op = "receive"
  /\ c.sync /\ d.sync /\ c.vector = d.vector
  /\ Carried(c)

\* The calls of two ends that agree whose turn it is; at last both close.
Together(s, t) ==
  /\ s # <<>> /\ Len(s) = Len(t)
  /\ \A i \in 1 .. Len(s) :
       IF i = Len(s) THEN s[i].op = "close" /\ t[i].op = "close"
       ELSE Matches(s[i], t[i]) \/ Matches(t[i], s[i])

ASSUME StreamAssumption ==
  /\ \E p, q \in Peer : p # q /\ Peer = {p, q}
  /\ {Nul, RS, ACK} \subseteq Byte
  /\ Agreed \subseteq Scripts /\ Scripts \subseteq [Peer -> Seq(Call)]
  /\ {ReadMax, Segment, Capacity} \subseteq Nat \ {0}

ASSUME AgreedAssumption ==
  \A s \in Agreed : \A p, q \in Peer : p # q => Together(s[p], s[q])

VARIABLES
  script,     \* calls an end has still to make, the current one first
  pc,         \* where its thread stands
  out,        \* bytes its send() has still to put into the stream
  payload,    \* what its receive call has read so far
  chan,       \* bytes in the stream towards an end
  open,       \* has it closed its descriptor?
  reset,      \* did the other end close with bytes unread?
  shut,       \* has shutdown() been called?
  plan,       \* history: do the ends agree, may another thread call shutdown(),
              \* and which ends have no message with an ACK in it?
  sent,       \* history: messages an end has begun to send
  acked,      \* history: how many synchronous sends have returned to it
  received    \* history: payloads its receive calls have read

kernel == <<chan, open, reset, shut>>
history == <<plan, sent, acked, received>>
vars == <<script, pc, out, payload, kernel, history>>

Other(p) == CHOOSE q \in Peer : q # p
Current(p) == Head(script[p])
Least(m, n) == IF m <= n THEN m ELSE n
Drop(s, n) == SubSeq(s, n + 1, Len(s))

\* `payload += buff` stops at the first '\0'.
BeforeNul(s) ==
  SubSeq(s, 1, Cardinality({i \in 1 .. Len(s) : \A j \in 1 .. i : s[j] # Nul}))

Init ==
  /\ script \in Scripts
  /\ \E may \in BOOLEAN :
       plan = [agreed |-> script \in Agreed, shutdown |-> may,
               plain |-> {p \in Peer : NoAckSent(script[p])}]
  /\ pc = [p \in Peer |-> "idle"]
  /\ out = [p \in Peer |-> <<>>]
  /\ payload = [p \in Peer |-> <<>>]
  /\ chan = [p \in Peer |-> <<>>]
  /\ open = [p \in Peer |-> TRUE]
  /\ reset = [p \in Peer |-> FALSE]
  /\ shut = FALSE
  /\ sent = [p \in Peer |-> <<>>]
  /\ acked = [p \in Peer |-> 0]
  /\ received = [p \in Peer |-> <<>>]

At(p, label) == pc[p] = label
Goto(p, label) == pc' = [pc EXCEPT ![p] = label]

\* The current call is over and the thread may make the next one.
Return(p) ==
  /\ Goto(p, "idle")
  /\ script' = [script EXCEPT ![p] = Tail(@)]

\* An exception leaves it, or SIGPIPE ends the process: no call follows.
Stop(p, label) ==
  /\ Goto(p, label)
  /\ UNCHANGED script

\* No byte can go to p any more, and none will come from it.
Gone(p) == ~open[p] \/ shut

Begins(p, op) == At(p, "idle") /\ script[p] # <<>> /\ Current(p).op = op

-----------------------------------------------------------------------------
(* send_data_async() and send_data_sync().                                 *)

BeginSend(p) ==
  /\ Begins(p, "send")
  /\ Goto(p, "sending")
  /\ out' = [out EXCEPT ![p] = Encode(Current(p))]
  /\ sent' = [sent EXCEPT ![p] = Append(@, Current(p).data)]
  /\ UNCHANGED <<script, payload, kernel, plan, acked, received>>

\* Mutant of HasRoom: a stream without bounds.
HasRoom_Always(q) == TRUE

HasRoom(q) == Len(chan[q]) < Capacity

\* send() blocks here until there is room.
PutPiece(p) ==
  LET q == Other(p)
      n == Least(Segment, Len(out[p]))
  IN  /\ At(p, "sending")
      /\ out[p] # <<>>
      /\ ~Gone(q) /\ HasRoom(q)
      /\ chan' = [chan EXCEPT ![q] = @ \o SubSeq(out[p], 1, n)]
      /\ out' = [out EXCEPT ![p] = Drop(@, n)]
      /\ UNCHANGED <<script, pc, payload, open, reset, shut, history>>

\* send() returns: nothing is left to put, or it took a part and no more can go,
\* which the code does not look at.
SendReturns(p) ==
  /\ At(p, "sending")
  /\ \/ out[p] = <<>>
     \/ Gone(Other(p)) /\ Len(out[p]) < Len(Encode(Current(p)))
  /\ out' = [out EXCEPT ![p] = <<>>]
  /\ IF Current(p).sync
     THEN Goto(p, "getack") /\ UNCHANGED script
     ELSE Return(p)
  /\ UNCHANGED <<payload, kernel, history>>

\* Nothing could go: SIGPIPE, or an error if send() was blocked before.
SendBreaks(p) ==
  /\ At(p, "sending")
  /\ Gone(Other(p))
  /\ out[p] # <<>> /\ out[p] = Encode(Current(p))
  /\ \E label \in {"killed", "failed"} : Stop(p, label)
  /\ UNCHANGED <<out, payload, kernel, history>>

\* Mutant of GetAck: whatever byte comes is taken for an ACK.
GetAck_AnyByte(p) ==
  /\ At(p, "getack")
  /\ chan[p] # <<>>
  /\ chan' = [chan EXCEPT ![p] = Tail(@)]
  /\ Return(p)
  /\ acked' = [acked EXCEPT ![p] = @ + 1]
  /\ UNCHANGED <<out, payload, open, reset, shut, plan, sent, received>>

\* get_ack() reads one byte; at the end of the stream recv() leaves ack_check
\* as it was, uninitialized.
GetAck(p) ==
  /\ At(p, "getack")
  /\ \/ /\ chan[p] # <<>>
        /\ chan' = [chan EXCEPT ![p] = Tail(@)]
        /\ IF Head(chan[p]) = ACK
           THEN Return(p) /\ acked' = [acked EXCEPT ![p] = @ + 1]
           ELSE Stop(p, "failed") /\ UNCHANGED acked
     \/ /\ chan[p] = <<>> /\ Gone(Other(p))
        /\ UNCHANGED chan
        /\ \/ Return(p) /\ acked' = [acked EXCEPT ![p] = @ + 1]
           \/ Stop(p, "failed") /\ UNCHANGED acked
  /\ UNCHANGED <<out, payload, open, reset, shut, plan, sent, received>>

-----------------------------------------------------------------------------
(* receive_data_async() and receive_data_sync().                           *)

BeginReceive(p) ==
  /\ Begins(p, "receive")
  /\ Goto(p, "reading")
  /\ payload' = [payload EXCEPT ![p] = <<>>]
  /\ UNCHANGED <<script, out, kernel, history>>

\* recv() blocks here until there are bytes or no sender.
Read(p) ==
  LET n == Least(ReadMax, Len(chan[p]))
  IN  /\ At(p, "reading")
      /\ chan[p] # <<>>
      /\ payload' = [payload EXCEPT ![p] = @ \o BeforeNul(SubSeq(chan[p], 1, n))]
      /\ chan' = [chan EXCEPT ![p] = Drop(@, n)]
      /\ Goto(p, "peek")
      /\ UNCHANGED <<script, out, open, reset, shut, history>>

\* What the call gives back.
Decode(p) == IF Current(p).vector THEN Split(payload[p]) ELSE payload[p]

\* Mutant of Received: no ACK is sent.
Received_NoAck(p) ==
  /\ received' = [received EXCEPT ![p] = Append(@, Decode(p))]
  /\ Return(p)

\* The loop ends, and send_ack() follows in the synchronous variant.
Received(p) ==
  /\ received' = [received EXCEPT ![p] = Append(@, Decode(p))]
  /\ IF Current(p).sync THEN Goto(p, "sendack") /\ UNCHANGED script
     ELSE Return(p)

\* recv() returns 0, or -1 if bytes were lost with the connection.
ReadEnd(p) ==
  /\ At(p, "reading")
  /\ chan[p] = <<>> /\ Gone(Other(p))
  /\ IF reset[p] THEN Stop(p, "failed") /\ UNCHANGED received ELSE Received(p)
  /\ UNCHANGED <<out, payload, kernel, plan, sent, acked>>

\* Mutant of Peek: one recv() is taken for the message.
Peek_Never(p) ==
  /\ At(p, "peek")
  /\ Received(p)
  /\ UNCHANGED <<out, payload, kernel, plan, sent, acked>>

\* recv(MSG_PEEK | MSG_DONTWAIT): read on if there are bytes at this moment.
Peek(p) ==
  /\ At(p, "peek")
  /\ IF chan[p] # <<>> THEN Goto(p, "reading") /\ UNCHANGED <<script, received>>
     ELSE Received(p)
  /\ UNCHANGED <<out, payload, kernel, plan, sent, acked>>

\* send_ack() does not look at the result of send(): without SIGPIPE it returns.
SendAck(p) ==
  LET q == Other(p)
  IN  /\ At(p, "sendack")
      /\ \/ /\ ~Gone(q) /\ HasRoom(q)
            /\ chan' = [chan EXCEPT ![q] = Append(@, ACK)]
            /\ Return(p)
         \/ /\ Gone(q)
            /\ Stop(p, "killed") \/ Return(p)
            /\ UNCHANGED chan
      /\ UNCHANGED <<out, payload, open, reset, shut, history>>

-----------------------------------------------------------------------------
(* close_connection(): called, or after an exception, or by the kernel.    *)

Close(p) ==
  /\ open' = [open EXCEPT ![p] = FALSE]
  /\ reset' = [reset EXCEPT ![Other(p)] = chan[p] # <<>>]
  /\ chan' = [chan EXCEPT ![p] = <<>>]
  /\ UNCHANGED <<out, payload, shut, history>>

CloseConnection(p) == Begins(p, "close") /\ Close(p) /\ Return(p)

CloseAfterStop(p) ==
  /\ pc[p] \in {"failed", "killed"} /\ open[p]
  /\ Close(p)
  /\ UNCHANGED <<script, pc>>

\* Another thread of the client's process calls shutdown().  fd_ of a client is
\* the connection (a server's is the socket it listens at).
Shutdown ==
  /\ plan.shutdown /\ ~shut
  /\ \E p \in Peer : open[p]
  /\ shut' = TRUE
  /\ UNCHANGED <<script, pc, out, payload, chan, open, reset, history>>

-----------------------------------------------------------------------------
Step(p) ==
  \/ BeginSend(p) \/ PutPiece(p) \/ SendReturns(p) \/ SendBreaks(p) \/ GetAck(p)
  \/ BeginReceive(p) \/ Read(p) \/ ReadEnd(p) \/ Peek(p) \/ SendAck(p)
  \/ CloseConnection(p) \/ CloseAfterStop(p)

Next == Shutdown \/ \E p \in Peer : Step(p)

Spec == Init /\ [][Next]_vars

\* Each thread runs, and a blocked call goes on when it can.
FairSpec == Spec /\ \A p \in Peer : WF_vars(Step(p))

-----------------------------------------------------------------------------
(* Properties.                                                             *)

\* The types of the variables.
TypeOK ==
  /\ script \in [Peer -> Seq(Call)]
  /\ pc \in [Peer -> {"idle", "sending", "getack", "reading", "peek", "sendack",
                      "failed", "killed"}]
  /\ out \in [Peer -> Seq(Byte)]
  /\ payload \in [Peer -> Seq(Byte)]
  /\ chan \in [Peer -> Seq(Byte)]
  /\ \A p \in Peer : Len(chan[p]) < Capacity + Segment
  /\ open \in [Peer -> BOOLEAN]
  /\ reset \in [Peer -> BOOLEAN]
  /\ shut \in BOOLEAN
  /\ plan \in [agreed : BOOLEAN, shutdown : BOOLEAN, plain : SUBSET Peer]
  /\ acked \in [Peer -> Nat]
  /\ \A p \in Peer : Len(sent[p]) >= acked[p]

\* Each send_data_sync() that returned has a receive call of the other end behind
\* it that has read a message, or a piece of one, however the calls of the two ends
\* fit together: unless the receiver has closed its end meanwhile, or sends a
\* message with the byte ACK in it, as get_ack() cannot tell that byte from an ACK.
\* All other bytes that it reads, it refuses.
AckedWhileOpen ==
  \A p \in Peer :
    Other(p) \in plan.plain /\ ~Gone(Other(p)) => acked[p] <= Len(received[Other(p)])

\* The ends agree who sends, and nobody interferes.
TakingTurns == plan.agreed /\ ~plan.shutdown

Stopped(p) == script[p] = <<>> \/ pc[p] \in {"failed", "killed"}

\* If the ends agree, every call of both returns: none throws or is killed, and
\* neither waits for ever.  Otherwise shutdown() wakes whoever is blocked.
Finishes ==
  /\ TakingTurns => <>(\A p \in Peer : script[p] = <<>>)
  /\ shut ~> \A p \in Peer : Stopped(p)

\* If the ends agree, the stream implements the exchange of whole messages.
Unheard == [p \in Peer |-> <<>>]
Promise == INSTANCE Rendezvous WITH
  sent <- IF TakingTurns THEN sent ELSE Unheard,
  received <- IF TakingTurns THEN received ELSE Unheard,
  acked <- IF TakingTurns THEN acked ELSE [p \in Peer |-> 0]
Refines == Promise!Spec
=============================================================================
