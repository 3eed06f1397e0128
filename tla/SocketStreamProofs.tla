------------------------- MODULE SocketStreamProofs -------------------------
(***************************************************************************)
(* Proofs about SocketStream, for any calls of the two ends, any messages, *)
(* sizes of segments and buffers: types and bounds, that get_ack() is told *)
(* the truth unless a message has a byte that looks like an ACK, and that  *)
(* the stream implements Rendezvous between two ends that agree whose turn *)
(* it is.                                                                  *)
(***************************************************************************)
EXTENDS SocketStream, TLAPS, FiniteSetTheorems, SequenceTheorems

\* The positions of ACKs in a piece of the stream.
AckPlaces(s) == {i \in 1 .. Len(s) : s[i] = ACK}
Acks(s) == Cardinality(AckPlaces(s))

-----------------------------------------------------------------------------
(* The two ends.                                                           *)

LEMMA Others ==
  ASSUME NEW p \in Peer
  PROVE  /\ Other(p) \in Peer
         /\ Other(p) # p
         /\ Other(Other(p)) = p
         /\ \A q \in Peer : q = p \/ q = Other(p)
<1>1. \E q \in Peer : q # p
  BY StreamAssumption
<1>2. Other(p) \in Peer /\ Other(p) # p
  BY <1>1 DEF Other
<1>3. \A q \in Peer : q = p \/ q = Other(p)
  BY <1>2, StreamAssumption
<1>4. Other(Other(p)) \in Peer /\ Other(Other(p)) # Other(p)
  <2>1. \E q \in Peer : q # Other(p)
    BY <1>2
  <2> QED
    BY <2>1 DEF Other
<1> QED
  BY <1>2, <1>3, <1>4

-----------------------------------------------------------------------------
(* Sequences.                                                              *)

LEMMA TakeAndDrop ==
  ASSUME NEW S, NEW s \in Seq(S), NEW n \in 0 .. Len(s)
  PROVE  /\ SubSeq(s, 1, n) \in Seq(S) /\ Len(SubSeq(s, 1, n)) = n
         /\ \A i \in 1 .. n : SubSeq(s, 1, n)[i] = s[i]
         /\ Drop(s, n) \in Seq(S) /\ Len(Drop(s, n)) = Len(s) - n
         /\ \A i \in 1 .. Len(s) - n : Drop(s, n)[i] = s[i + n]
<1>1. Len(s) \in Nat /\ n \in Int /\ n <= Len(s) /\ 0 <= n
  BY LenProperties
<1>2. \A i \in 1 .. Len(s) : s[i] \in S
  BY ElementOfSeq
<1>3. \A i \in 1 .. n : s[i] \in S
  BY <1>1, <1>2
<1>4. \A i \in n + 1 .. Len(s) : s[i] \in S
  BY <1>1, <1>2
<1>5. /\ SubSeq(s, 1, n) \in Seq(S)
      /\ Len(SubSeq(s, 1, n)) = IF 1 <= n THEN n - 1 + 1 ELSE 0
      /\ \A i \in 1 .. n - 1 + 1 : SubSeq(s, 1, n)[i] = s[1 + i - 1]
  BY <1>1, <1>3, SubSeqProperties
<1>6. /\ Drop(s, n) \in Seq(S)
      /\ Len(Drop(s, n)) = IF n + 1 <= Len(s) THEN Len(s) - (n + 1) + 1 ELSE 0
      /\ \A i \in 1 .. Len(s) - (n + 1) + 1 : Drop(s, n)[i] = s[n + 1 + i - 1]
  BY <1>1, <1>4, SubSeqProperties DEF Drop
<1> QED
  BY <1>1, <1>5, <1>6

LEMMA LeastOf ==
  ASSUME NEW m \in Nat, NEW n \in Nat
  PROVE  Least(m, n) \in 0 .. n /\ Least(m, n) <= m
BY DEF Least

\* What `payload += buff` takes of a buffer is a part of it.
LEMMA BeforeNulType ==
  ASSUME NEW S, NEW s \in Seq(S)
  PROVE  BeforeNul(s) \in Seq(S)
<1> DEFINE before == {i \in 1 .. Len(s) : \A j \in 1 .. i : s[j] # Nul}
<1>1. Len(s) \in Nat
  BY LenProperties
<1>2. IsFiniteSet(1 .. Len(s)) /\ Cardinality(1 .. Len(s)) = Len(s)
  BY <1>1, FS_Interval
<1>3. before \in SUBSET (1 .. Len(s))
  OBVIOUS
<1>4. IsFiniteSet(before) /\ Cardinality(before) <= Len(s)
  <2> HIDE DEF before
  <2> QED
    BY <1>2, <1>3, FS_Subset
<1>5. Cardinality(before) \in 0 .. Len(s)
  <2> HIDE DEF before
  <2> QED
    BY <1>1, <1>4, FS_CardinalityType
<1> QED
  BY <1>5, TakeAndDrop DEF BeforeNul

-----------------------------------------------------------------------------
(* Counting ACKs.                                                          *)

LEMMA AcksCount ==
  ASSUME NEW s \in Seq(Byte)
  PROVE  IsFiniteSet(AckPlaces(s)) /\ Acks(s) \in Nat
<1>1. IsFiniteSet(1 .. Len(s))
  BY FS_Interval, LenProperties
<1>2. AckPlaces(s) \in SUBSET (1 .. Len(s))
  BY DEF AckPlaces
<1>3. IsFiniteSet(AckPlaces(s))
  BY <1>1, <1>2, FS_Subset
<1> QED
  BY <1>3, FS_CardinalityType DEF Acks

LEMMA AcksOfNothing ==
  Acks(<<>>) = 0
<1>1. AckPlaces(<<>>) = {}
  BY DEF AckPlaces
<1> QED
  BY <1>1, FS_EmptySet DEF Acks

\* The bytes of a message without an ACK add none.
LEMMA AcksOfMore ==
  ASSUME NEW s \in Seq(Byte), NEW t \in Seq(Byte \ {ACK})
  PROVE  Acks(s \o t) = Acks(s)
<1>1. t \in Seq(Byte)
  BY SeqMonotonic
<1>2. /\ Len(s \o t) = Len(s) + Len(t)
      /\ \A i \in 1 .. Len(s) + Len(t) :
           (s \o t)[i] = IF i <= Len(s) THEN s[i] ELSE t[i - Len(s)]
  BY <1>1, ConcatProperties
<1>3. Len(s) \in Nat /\ Len(t) \in Nat
  BY LenProperties
<1>4. \A i \in 1 .. Len(t) : t[i] # ACK
  BY ElementOfSeq
<1>5. AckPlaces(s \o t) = AckPlaces(s)
  <2>1. ASSUME NEW i \in 1 .. Len(s) + Len(t)
        PROVE  (s \o t)[i] = ACK <=> i <= Len(s) /\ s[i] = ACK
    <3>1. CASE i <= Len(s)
      BY <1>2, <3>1
    <3>2. CASE ~(i <= Len(s))
      <4>1. i - Len(s) \in 1 .. Len(t)
        BY <1>3, <3>2
      <4> QED
        BY <1>2, <1>4, <3>2, <4>1
    <3> QED
      BY <3>1, <3>2
  <2> QED
    BY <1>2, <1>3, <2>1 DEF AckPlaces
<1> QED
  BY <1>5 DEF Acks

LEMMA AcksOfAck ==
  ASSUME NEW s \in Seq(Byte)
  PROVE  Acks(Append(s, ACK)) = Acks(s) + 1
<1> DEFINE t == Append(s, ACK)
<1>1. ACK \in Byte
  BY StreamAssumption
<1>2. /\ Len(t) = Len(s) + 1 /\ t[Len(s) + 1] = ACK
      /\ \A i \in 1 .. Len(s) : t[i] = s[i]
  BY <1>1, AppendProperties
<1>3. Len(s) \in Nat
  BY LenProperties
<1>4. AckPlaces(t) = AckPlaces(s) \cup {Len(s) + 1}
  BY <1>2, <1>3 DEF AckPlaces
<1>5. Len(s) + 1 \notin AckPlaces(s)
  BY <1>3 DEF AckPlaces
<1> QED
  BY <1>4, <1>5, AcksCount, FS_AddElement DEF Acks

\* Taking bytes off the front takes their ACKs.
LEMMA AcksOfRest ==
  ASSUME NEW s \in Seq(Byte), NEW t \in Seq(Byte), NEW n \in Nat,
         Len(t) + n = Len(s), \A i \in 1 .. Len(t) : t[i] = s[i + n]
  PROVE  /\ Acks(t) <= Acks(s)
         /\ n > 0 /\ s[1] = ACK => Acks(t) + 1 <= Acks(s)
<1> DEFINE Later == AckPlaces(s) \ {i \in 1 .. Len(s) : i <= n}
           f == [i \in AckPlaces(t) |-> i + n]
<1>1. Len(s) \in Nat /\ Len(t) \in Nat
  BY LenProperties
<1>2. IsFiniteSet(AckPlaces(s)) /\ Acks(s) \in Nat /\ Acks(t) \in Nat
  BY AcksCount
<1>3. \A i \in AckPlaces(t) : f[i] \in Later
  BY <1>1 DEF AckPlaces
<1>4. f \in [AckPlaces(t) -> Later]
  BY <1>3
<1>5. \A i, j \in AckPlaces(t) : f[i] = f[j] => i = j
  BY <1>1 DEF AckPlaces
<1>6. f \in Injection(AckPlaces(t), Later)
  <2> HIDE DEF f, Later
  <2> QED
    BY <1>4, <1>5 DEF Injection, IsInjective
<1>7. Later \in SUBSET AckPlaces(s)
  OBVIOUS
<1>8. IsFiniteSet(Later) /\ Cardinality(Later) <= Acks(s)
  <2> HIDE DEF Later
  <2> QED
    BY <1>2, <1>7, FS_Subset DEF Acks
<1>9. Acks(t) <= Cardinality(Later) /\ Cardinality(Later) \in Nat
  <2> HIDE DEF f, Later
  <2> QED
    BY <1>6, <1>8, FS_Injection, FS_CardinalityType DEF Acks
<1>10. ASSUME n > 0, s[1] = ACK
       PROVE  Acks(t) + 1 <= Acks(s)
  <2>1. 1 \in AckPlaces(s) /\ 1 \notin Later
    BY <1>1, <1>10 DEF AckPlaces
  <2>2. Later \in SUBSET (AckPlaces(s) \ {1})
    BY <2>1
  <2>3. /\ IsFiniteSet(AckPlaces(s) \ {1})
        /\ Cardinality(AckPlaces(s) \ {1}) = Acks(s) - 1
    BY <1>2, <2>1, FS_RemoveElement DEF Acks
  <2>4. Cardinality(Later) <= Acks(s) - 1
    <3> HIDE DEF Later
    <3> QED
      BY <2>2, <2>3, FS_Subset
  <2> QED
    BY <1>2, <1>9, <2>4
<1> QED
  BY <1>2, <1>8, <1>9, <1>10

-----------------------------------------------------------------------------
(* The inductive invariant behind TypeOK.                                  *)

InCall == {"sending", "getack", "reading", "peek", "sendack"}
Label == InCall \cup {"idle", "failed", "killed"}
Sent == Message \cup {<<>>}

\* A thread is in the call that heads its script.
ThreadInv ==
  /\ script \in [Peer -> Seq(Call)]
  /\ pc \in [Peer -> Label]
  /\ \A p \in Peer : pc[p] \in InCall => script[p] # <<>>

BufferInv ==
  /\ out \in [Peer -> Seq(Byte)]
  /\ payload \in [Peer -> Seq(Byte)]

KernelInv ==
  /\ chan \in [Peer -> Seq(Byte)]
  /\ \A p \in Peer : Len(chan[p]) < Capacity + Segment
  /\ open \in [Peer -> BOOLEAN]
  /\ reset \in [Peer -> BOOLEAN]
  /\ shut \in BOOLEAN

\* A message under way is not acknowledged yet.
HistoryInv ==
  /\ plan \in [agreed : BOOLEAN, shutdown : BOOLEAN, plain : SUBSET Peer]
  /\ sent \in [Peer -> Seq(Sent)]
  /\ acked \in [Peer -> Nat]
  /\ \E S : received \in [Peer -> Seq(S)]
  /\ \A p \in Peer : /\ acked[p] <= Len(sent[p])
                     /\ pc[p] \in {"sending", "getack"} => acked[p] < Len(sent[p])

StreamInv == ThreadInv /\ BufferInv /\ KernelInv /\ HistoryInv

\* What the calls of a script are.
LEMMA CurrentCall ==
  ASSUME NEW p \in Peer, ThreadInv, script[p] # <<>>
  PROVE  /\ Current(p).data \in Sent
         /\ Current(p).op = "send" => Encode(Current(p)) \in Seq(Byte)
<1>1. Current(p) \in Call
  BY HeadTailProperties DEF ThreadInv, Current
<1> QED
  BY <1>1 DEF Call, Sent

\* A thread goes on in its call, leaves it, or stops.
LEMMA Goes ==
  ASSUME NEW p \in Peer, NEW label \in Label, ThreadInv, script[p] # <<>>,
         Goto(p, label), UNCHANGED script
  PROVE  /\ ThreadInv'
         /\ pc'[p] = label /\ \A q \in Peer \ {p} : pc'[q] = pc[q]
BY DEF ThreadInv, Goto

LEMMA Leaves ==
  ASSUME NEW p \in Peer, ThreadInv, script[p] # <<>>, Return(p)
  PROVE  /\ ThreadInv'
         /\ pc'[p] = "idle" /\ \A q \in Peer \ {p} : pc'[q] = pc[q]
<1>1. /\ pc' = [pc EXCEPT ![p] = "idle"]
      /\ script' = [script EXCEPT ![p] = Tail(@)]
  BY DEF Return, Goto
<1>2. Tail(script[p]) \in Seq(Call)
  BY HeadTailProperties DEF ThreadInv
<1>3. /\ script' \in [Peer -> Seq(Call)]
      /\ \A q \in Peer \ {p} : script'[q] = script[q]
  BY <1>1, <1>2 DEF ThreadInv
<1>4. pc' \in [Peer -> Label]
  BY <1>1 DEF ThreadInv, Label
<1>5. pc'[p] = "idle" /\ \A q \in Peer \ {p} : pc'[q] = pc[q]
  BY <1>1 DEF ThreadInv
<1> QED
  BY <1>3, <1>4, <1>5 DEF ThreadInv, InCall

LEMMA Stops ==
  ASSUME NEW p \in Peer, ThreadInv, script[p] # <<>>,
         NEW label \in {"failed", "killed"}, Stop(p, label)
  PROVE  /\ ThreadInv'
         /\ pc'[p] = label /\ \A q \in Peer \ {p} : pc'[q] = pc[q]
<1>1. label \in Label /\ Goto(p, label) /\ UNCHANGED script
  BY DEF Label, Stop
<1> QED
  BY <1>1, Goes

\* The current call has not returned.
LEMMA InItsCall ==
  ASSUME NEW p \in Peer, ThreadInv, NEW label \in InCall, At(p, label)
  PROVE  script[p] # <<>> /\ pc[p] = label
BY DEF ThreadInv, At

\* The history stays right where no message is begun or acknowledged.
LEMMA SameHistory ==
  ASSUME NEW p \in Peer, HistoryInv, UNCHANGED history,
         pc'[p] \in {"sending", "getack"} => pc[p] \in {"sending", "getack"},
         \A q \in Peer \ {p} : pc'[q] = pc[q]
  PROVE  HistoryInv'
BY DEF HistoryInv, history

LEMMA InitStream ==
  ASSUME Init
  PROVE  StreamInv
<1>1. ThreadInv
  BY StreamAssumption DEF Init, ThreadInv, Label, InCall
<1>2. <<>> \in Seq(Byte) /\ <<>> \in Seq(Byte) /\ Len(<<>>) = 0 /\ 0 < Capacity + Segment
  BY StreamAssumption, EmptySeq
<1>3. BufferInv
  BY <1>2 DEF Init, BufferInv
<1>4. KernelInv
  BY <1>2 DEF Init, KernelInv
<1>5. HistoryInv
  <2>1. received \in [Peer -> Seq({})]
    BY DEF Init
  <2>2. plan \in [agreed : BOOLEAN, shutdown : BOOLEAN, plain : SUBSET Peer]
    BY DEF Init
  <2> QED
    BY <2>1, <2>2 DEF Init, HistoryInv
<1> QED
  BY <1>1, <1>3, <1>4, <1>5 DEF StreamInv

LEMMA BeginSendStream ==
  ASSUME NEW p \in Peer, StreamInv, BeginSend(p)
  PROVE  StreamInv'
<1> USE DEF StreamInv
<1>1. /\ script[p] # <<>> /\ Current(p).op = "send" /\ pc[p] = "idle"
      /\ Goto(p, "sending") /\ UNCHANGED script
  BY DEF BeginSend, Begins, At
<1>2. Current(p).data \in Sent /\ Encode(Current(p)) \in Seq(Byte)
  BY <1>1, CurrentCall
<1>3. /\ ThreadInv'
      /\ pc'[p] = "sending" /\ \A q \in Peer \ {p} : pc'[q] = pc[q]
  BY <1>1, Goes DEF Label, InCall
<1>4. BufferInv'
  BY <1>2 DEF BeginSend, BufferInv
<1>5. KernelInv'
  BY DEF BeginSend, KernelInv, kernel
<1>6. HistoryInv'
  <2>1. sent' = [sent EXCEPT ![p] = Append(@, Current(p).data)]
    BY DEF BeginSend
  <2>2. /\ sent' \in [Peer -> Seq(Sent)]
        /\ Len(sent'[p]) = Len(sent[p]) + 1
        /\ \A q \in Peer \ {p} : sent'[q] = sent[q]
    BY <1>2, <2>1, AppendProperties DEF HistoryInv
  <2>3. Len(sent[p]) \in Nat /\ acked[p] \in Nat
    BY LenProperties DEF HistoryInv
  <2>4. plan' = plan /\ acked' = acked /\ received' = received
    BY DEF BeginSend
  <2>5. \A r \in Peer :
          /\ acked'[r] <= Len(sent'[r])
          /\ pc'[r] \in {"sending", "getack"} => acked'[r] < Len(sent'[r])
    <3>1. acked[p] <= Len(sent[p])
      BY DEF HistoryInv
    <3>2. /\ acked'[p] <= Len(sent'[p])
          /\ acked'[p] < Len(sent'[p])
      BY <2>2, <2>3, <2>4, <3>1
    <3>3. ASSUME NEW r \in Peer \ {p}
          PROVE  /\ acked'[r] <= Len(sent'[r])
                 /\ pc'[r] \in {"sending", "getack"} => acked'[r] < Len(sent'[r])
      BY <1>3, <2>2, <2>4 DEF HistoryInv
    <3> QED
      BY <3>2, <3>3
  <2> QED
    BY <2>2, <2>4, <2>5 DEF HistoryInv
<1> QED
  BY <1>3, <1>4, <1>5, <1>6

\* What goes into the stream, and what is left.
LEMMA PieceType ==
  ASSUME NEW p \in Peer, StreamInv
  PROVE  LET n == Least(Segment, Len(out[p]))
         IN  /\ n \in 0 .. Len(out[p]) /\ n <= Segment
             /\ SubSeq(out[p], 1, n) \in Seq(Byte) /\ Len(SubSeq(out[p], 1, n)) = n
             /\ Drop(out[p], n) \in Seq(Byte)
<1> DEFINE n == Least(Segment, Len(out[p]))
<1>1. out[p] \in Seq(Byte) /\ Len(out[p]) \in Nat /\ Segment \in Nat
  BY StreamAssumption, LenProperties DEF StreamInv, BufferInv
<1>2. n \in 0 .. Len(out[p]) /\ n <= Segment
  BY <1>1, LeastOf
<1> HIDE DEF n
<1>3. /\ SubSeq(out[p], 1, n) \in Seq(Byte) /\ Len(SubSeq(out[p], 1, n)) = n
      /\ Drop(out[p], n) \in Seq(Byte)
  BY <1>1, <1>2, TakeAndDrop
<1> QED
  BY <1>2, <1>3 DEF n

LEMMA PutPieceStream ==
  ASSUME NEW p \in Peer, StreamInv, PutPiece(p)
  PROVE  StreamInv'
<1> USE DEF StreamInv
<1> DEFINE q == Other(p)
           n == Least(Segment, Len(out[p]))
           piece == SubSeq(out[p], 1, n)
<1>1. /\ HasRoom(q)
      /\ chan' = [chan EXCEPT ![q] = @ \o piece]
      /\ out' = [out EXCEPT ![p] = Drop(@, n)]
      /\ UNCHANGED <<script, pc, payload, open, reset, shut, history>>
  BY DEF PutPiece
<1>2. /\ piece \in Seq(Byte) /\ Len(piece) <= Segment /\ Len(piece) \in Nat
      /\ Drop(out[p], n) \in Seq(Byte)
  BY PieceType, LenProperties
<1>3. q \in Peer
  BY Others
<1> HIDE DEF n, piece, q
<1>4. ThreadInv'
  BY <1>1 DEF ThreadInv
<1>5. BufferInv'
  BY <1>1, <1>2 DEF BufferInv
<1>6. KernelInv'
  <2>1. piece \in Seq(Byte) /\ chan[q] \in Seq(Byte) /\ Len(chan[q]) < Capacity
    BY <1>1, <1>2, <1>3 DEF KernelInv, HasRoom
  <2>2. /\ chan[q] \o piece \in Seq(Byte)
        /\ Len(chan[q] \o piece) = Len(chan[q]) + Len(piece)
    BY <2>1, ConcatProperties
  <2>3. Len(chan[q] \o piece) < Capacity + Segment
    BY <1>2, <2>1, <2>2, StreamAssumption, LenProperties
  <2> QED
    BY <1>1, <1>3, <2>2, <2>3 DEF KernelInv
<1>7. HistoryInv'
  BY <1>1 DEF HistoryInv, history
<1> QED
  BY <1>4, <1>5, <1>6, <1>7

LEMMA SendReturnsStream ==
  ASSUME NEW p \in Peer, StreamInv, SendReturns(p)
  PROVE  StreamInv'
<1> USE DEF StreamInv
<1>1. script[p] # <<>> /\ pc[p] = "sending"
  BY InItsCall DEF SendReturns, InCall
<1>2. /\ ThreadInv'
      /\ pc'[p] \in {"getack", "idle"} /\ \A q \in Peer \ {p} : pc'[q] = pc[q]
  <2>1. \/ Goto(p, "getack") /\ UNCHANGED script
        \/ Return(p)
    BY DEF SendReturns
  <2> QED
    BY <1>1, <2>1, Goes, Leaves DEF Label, InCall
<1>3. BufferInv'
  BY EmptySeq DEF SendReturns, BufferInv
<1>4. KernelInv'
  BY DEF SendReturns, KernelInv, kernel
<1>5. HistoryInv'
  BY <1>1, <1>2, SameHistory DEF SendReturns
<1> QED
  BY <1>2, <1>3, <1>4, <1>5

LEMMA SendBreaksStream ==
  ASSUME NEW p \in Peer, StreamInv, SendBreaks(p)
  PROVE  StreamInv'
<1> USE DEF StreamInv
<1>1. script[p] # <<>> /\ pc[p] = "sending"
  BY InItsCall DEF SendBreaks, InCall
<1>2. PICK label \in {"killed", "failed"} : Stop(p, label)
  BY DEF SendBreaks
<1>3. /\ ThreadInv'
      /\ pc'[p] = label /\ \A q \in Peer \ {p} : pc'[q] = pc[q]
  BY <1>1, <1>2, Stops
<1>4. BufferInv' /\ KernelInv'
  BY DEF SendBreaks, BufferInv, KernelInv, kernel
<1>5. HistoryInv'
  BY <1>3, SameHistory DEF SendBreaks
<1> QED
  BY <1>3, <1>4, <1>5

\* Taking the first byte.
LEMMA TailType ==
  ASSUME NEW p \in Peer, KernelInv, chan[p] # <<>>
  PROVE  /\ Tail(chan[p]) \in Seq(Byte) /\ Len(Tail(chan[p])) + 1 = Len(chan[p])
         /\ \A i \in 1 .. Len(Tail(chan[p])) : Tail(chan[p])[i] = chan[p][i + 1]
         /\ Head(chan[p]) = chan[p][1]
         /\ Len(Tail(chan[p])) \in Nat
<1>1. chan[p] \in Seq(Byte)
  BY DEF KernelInv
<1>2. /\ Tail(chan[p]) \in Seq(Byte)
      /\ Len(Tail(chan[p])) = Len(chan[p]) - 1
      /\ \A i \in 1 .. Len(Tail(chan[p])) : Tail(chan[p])[i] = chan[p][i + 1]
  BY <1>1, HeadTailProperties
<1>3. Len(chan[p]) \in Nat /\ Len(Tail(chan[p])) \in Nat
  BY <1>1, <1>2, LenProperties
<1>4. Head(chan[p]) = chan[p][1]
  BY <1>1
<1> QED
  BY <1>2, <1>3, <1>4

\* What get_ack() does with a byte or the end of the stream.
LEMMA GetAckCases ==
  ASSUME NEW p \in Peer, GetAck(p)
  PROVE  /\ At(p, "getack")
         /\ UNCHANGED <<out, payload, open, reset, shut, plan, sent, received>>
         /\ \/ chan[p] # <<>> /\ chan' = [chan EXCEPT ![p] = Tail(@)]
            \/ chan[p] = <<>> /\ Gone(Other(p)) /\ UNCHANGED chan
         /\ \/ /\ Return(p) /\ acked' = [acked EXCEPT ![p] = @ + 1]
               /\ chan[p] = <<>> \/ Head(chan[p]) = ACK
            \/ Stop(p, "failed") /\ UNCHANGED acked
BY DEF GetAck

LEMMA GetAckStream ==
  ASSUME NEW p \in Peer, StreamInv, GetAck(p)
  PROVE  StreamInv'
<1> USE DEF StreamInv
<1>1. script[p] # <<>> /\ pc[p] = "getack"
  BY GetAckCases, InItsCall DEF InCall
<1>2. /\ UNCHANGED <<out, payload, open, reset, shut, plan, sent, received>>
      /\ \/ chan[p] # <<>> /\ chan' = [chan EXCEPT ![p] = Tail(@)]
         \/ UNCHANGED chan
      /\ \/ Return(p) /\ acked' = [acked EXCEPT ![p] = @ + 1]
         \/ Stop(p, "failed") /\ UNCHANGED acked
  BY GetAckCases
<1>3. /\ ThreadInv'
      /\ pc'[p] \in {"idle", "failed"} /\ \A q \in Peer \ {p} : pc'[q] = pc[q]
  BY <1>1, <1>2, Leaves, Stops
<1>4. BufferInv'
  BY <1>2 DEF BufferInv
<1>5. KernelInv'
  <2>1. CASE UNCHANGED chan
    BY <1>2, <2>1 DEF KernelInv
  <2>2. CASE chan[p] # <<>> /\ chan' = [chan EXCEPT ![p] = Tail(@)]
    <3>1. /\ Tail(chan[p]) \in Seq(Byte) /\ Len(Tail(chan[p])) + 1 = Len(chan[p])
          /\ Len(Tail(chan[p])) \in Nat
      BY <2>2, TailType
    <3>2. Len(Tail(chan[p])) < Capacity + Segment
      BY <3>1, StreamAssumption DEF KernelInv
    <3> QED
      BY <1>2, <2>2, <3>1, <3>2 DEF KernelInv
  <2> QED
    BY <1>2, <2>1, <2>2
<1>6. HistoryInv'
  <2>1. acked[p] < Len(sent[p]) /\ acked[p] \in Nat /\ Len(sent[p]) \in Nat
    BY <1>1, LenProperties DEF HistoryInv
  <2>2. /\ acked' \in [Peer -> Nat] /\ acked'[p] <= Len(sent[p])
        /\ \A q \in Peer \ {p} : acked'[q] = acked[q]
    <3>1. CASE acked' = [acked EXCEPT ![p] = @ + 1]
      BY <2>1, <3>1 DEF HistoryInv
    <3>2. CASE UNCHANGED acked
      BY <2>1, <3>2 DEF HistoryInv
    <3> QED
      BY <1>2, <3>1, <3>2
  <2>3. \A r \in Peer :
          /\ acked'[r] <= Len(sent[r])
          /\ pc'[r] \in {"sending", "getack"} => acked'[r] < Len(sent[r])
    BY <1>3, <2>2 DEF HistoryInv
  <2>4. plan' = plan /\ sent' = sent /\ received' = received
    BY <1>2
  <2> QED
    BY <2>2, <2>3, <2>4 DEF HistoryInv
<1> QED
  BY <1>3, <1>4, <1>5, <1>6

LEMMA BeginReceiveStream ==
  ASSUME NEW p \in Peer, StreamInv, BeginReceive(p)
  PROVE  StreamInv'
<1> USE DEF StreamInv
<1>1. /\ script[p] # <<>>
      /\ Goto(p, "reading") /\ UNCHANGED script
  BY DEF BeginReceive, Begins
<1>2. /\ ThreadInv'
      /\ pc'[p] = "reading" /\ \A q \in Peer \ {p} : pc'[q] = pc[q]
  BY <1>1, Goes DEF Label, InCall
<1>3. BufferInv'
  BY EmptySeq DEF BeginReceive, BufferInv
<1>4. KernelInv'
  BY DEF BeginReceive, KernelInv, kernel
<1>5. HistoryInv'
  BY <1>2, SameHistory DEF BeginReceive
<1> QED
  BY <1>2, <1>3, <1>4, <1>5

\* What recv() takes from the stream, and what it leaves.
LEMMA ReadTypes ==
  ASSUME NEW p \in Peer, KernelInv
  PROVE  LET n == Least(ReadMax, Len(chan[p]))
             rest == Drop(chan[p], n)
         IN  /\ n \in Nat
             /\ BeforeNul(SubSeq(chan[p], 1, n)) \in Seq(Byte)
             /\ rest \in Seq(Byte) /\ Len(rest) \in Nat /\ Len(rest) + n = Len(chan[p])
             /\ \A i \in 1 .. Len(rest) : rest[i] = chan[p][i + n]
<1> DEFINE n == Least(ReadMax, Len(chan[p]))
<1>1. chan[p] \in Seq(Byte) /\ Len(chan[p]) \in Nat /\ ReadMax \in Nat
  BY StreamAssumption, LenProperties DEF KernelInv
<1>2. n \in 0 .. Len(chan[p])
  BY <1>1, LeastOf
<1> HIDE DEF n
<1>3. /\ SubSeq(chan[p], 1, n) \in Seq(Byte)
      /\ Drop(chan[p], n) \in Seq(Byte) /\ Len(Drop(chan[p], n)) = Len(chan[p]) - n
      /\ \A i \in 1 .. Len(chan[p]) - n : Drop(chan[p], n)[i] = chan[p][i + n]
  <2>1. PICK s \in Seq(Byte) : s = chan[p] /\ n \in 0 .. Len(s)
    BY <1>1, <1>2
  <2>2. /\ SubSeq(s, 1, n) \in Seq(Byte)
        /\ Drop(s, n) \in Seq(Byte) /\ Len(Drop(s, n)) = Len(s) - n
        /\ \A i \in 1 .. Len(s) - n : Drop(s, n)[i] = s[i + n]
    BY <2>1, TakeAndDrop
  <2> QED
    BY <2>1, <2>2
<1>4. BeforeNul(SubSeq(chan[p], 1, n)) \in Seq(Byte)
  BY <1>3, BeforeNulType
<1>5. /\ n \in Nat
      /\ Len(Drop(chan[p], n)) \in Nat /\ Len(Drop(chan[p], n)) + n = Len(chan[p])
  BY <1>1, <1>2, <1>3
<1> QED
  BY <1>3, <1>4, <1>5 DEF n

LEMMA ReadStream ==
  ASSUME NEW p \in Peer, StreamInv, Read(p)
  PROVE  StreamInv'
<1> USE DEF StreamInv
<1> DEFINE n == Least(ReadMax, Len(chan[p]))
           part == BeforeNul(SubSeq(chan[p], 1, n))
           rest == Drop(chan[p], n)
<1>1. /\ payload' = [payload EXCEPT ![p] = @ \o part]
      /\ chan' = [chan EXCEPT ![p] = rest]
      /\ Goto(p, "peek") /\ UNCHANGED <<script, out, open, reset, shut, history>>
  BY DEF Read
<1>2. script[p] # <<>> /\ pc[p] = "reading"
  BY InItsCall DEF Read, InCall
<1>3. /\ n \in Nat /\ part \in Seq(Byte)
      /\ rest \in Seq(Byte) /\ Len(rest) \in Nat /\ Len(rest) + n = Len(chan[p])
  BY ReadTypes
<1> HIDE DEF n, part, rest
<1>4. /\ ThreadInv'
      /\ pc'[p] = "peek" /\ \A q \in Peer \ {p} : pc'[q] = pc[q]
  BY <1>1, <1>2, Goes DEF Label, InCall
<1>5. BufferInv'
  <2>1. payload[p] \o part \in Seq(Byte)
    BY <1>3, ConcatProperties DEF BufferInv
  <2> QED
    BY <1>1, <2>1 DEF BufferInv
<1>6. KernelInv'
  <2>1. Len(rest) < Capacity + Segment
    BY <1>3, StreamAssumption DEF KernelInv
  <2> QED
    BY <1>1, <1>3, <2>1 DEF KernelInv
<1>7. HistoryInv'
  BY <1>1, <1>4, SameHistory
<1> QED
  BY <1>4, <1>5, <1>6, <1>7

\* A receive call that ends adds one to what its end has received.
LEMMA OneMore ==
  ASSUME NEW p \in Peer, HistoryInv, Received(p)
  PROVE  /\ \E S : received' \in [Peer -> Seq(S)]
         /\ Len(received[p]) \in Nat
         /\ Len(received'[p]) = Len(received[p]) + 1
         /\ \A q \in Peer \ {p} : received'[q] = received[q]
<1>1. PICK S : received \in [Peer -> Seq(S)]
  BY DEF HistoryInv
<1> DEFINE d == Decode(p)
           T == S \cup {d}
<1>2. received' = [received EXCEPT ![p] = Append(@, d)]
  BY DEF Received
<1> HIDE DEF d
<1>3. \A q \in Peer : received[q] \in Seq(T)
  BY <1>1, SeqMonotonic
<1>4. d \in T
  OBVIOUS
<1> HIDE DEF T
<1>5. /\ Append(received[p], d) \in Seq(T)
      /\ Len(Append(received[p], d)) = Len(received[p]) + 1
  BY <1>3, <1>4, AppendProperties
<1>6. received' \in [Peer -> Seq(T)]
  BY <1>1, <1>2, <1>3, <1>5
<1>7. /\ received'[p] = Append(received[p], d)
      /\ \A q \in Peer \ {p} : received'[q] = received[q]
  BY <1>1, <1>2
<1>8. Len(received[p]) \in Nat
  BY <1>3, LenProperties
<1> QED
  BY <1>5, <1>6, <1>7, <1>8

LEMMA ReceivedStream ==
  ASSUME NEW p \in Peer, StreamInv, script[p] # <<>>, Received(p),
         UNCHANGED <<out, payload, kernel, plan, sent, acked>>
  PROVE  /\ StreamInv'
         /\ pc'[p] \in {"sendack", "idle"} /\ \A q \in Peer \ {p} : pc'[q] = pc[q]
<1> USE DEF StreamInv
<1>1. \/ Goto(p, "sendack") /\ UNCHANGED script
      \/ Return(p)
  BY DEF Received
<1>2. /\ ThreadInv'
      /\ pc'[p] \in {"sendack", "idle"} /\ \A q \in Peer \ {p} : pc'[q] = pc[q]
  BY <1>1, Goes, Leaves DEF Label, InCall
<1>3. BufferInv'
  BY DEF BufferInv
<1>4. KernelInv'
  BY DEF KernelInv, kernel
<1>5. HistoryInv'
  <2>1. \E S : received' \in [Peer -> Seq(S)]
    BY OneMore
  <2>2. \A r \in Peer :
          /\ acked'[r] <= Len(sent'[r])
          /\ pc'[r] \in {"sending", "getack"} => acked'[r] < Len(sent'[r])
    BY <1>2 DEF HistoryInv
  <2> QED
    BY <2>1, <2>2 DEF HistoryInv
<1> QED
  BY <1>2, <1>3, <1>4, <1>5

LEMMA ReadEndStream ==
  ASSUME NEW p \in Peer, StreamInv, ReadEnd(p)
  PROVE  StreamInv'
<1>1. script[p] # <<>> /\ pc[p] = "reading"
  BY InItsCall DEF ReadEnd, StreamInv, InCall
<1>2. UNCHANGED <<out, payload, kernel, plan, sent, acked>>
  BY DEF ReadEnd
<1>3. CASE Received(p)
  BY <1>1, <1>2, <1>3, ReceivedStream
<1>4. CASE Stop(p, "failed") /\ UNCHANGED received
  <2>1. /\ ThreadInv'
        /\ pc'[p] = "failed" /\ \A q \in Peer \ {p} : pc'[q] = pc[q]
    BY <1>1, <1>4, Stops DEF StreamInv
  <2>2. BufferInv' /\ KernelInv'
    BY <1>2 DEF StreamInv, BufferInv, KernelInv, kernel
  <2>3. UNCHANGED history
    BY <1>2, <1>4 DEF history
  <2>4. HistoryInv'
    BY <2>1, <2>3, SameHistory DEF StreamInv
  <2> QED
    BY <2>1, <2>2, <2>4 DEF StreamInv
<1> QED
  BY <1>3, <1>4 DEF ReadEnd

LEMMA PeekStream ==
  ASSUME NEW p \in Peer, StreamInv, Peek(p)
  PROVE  StreamInv'
<1>1. script[p] # <<>> /\ pc[p] = "peek"
  BY InItsCall DEF Peek, StreamInv, InCall
<1>2. UNCHANGED <<out, payload, kernel, plan, sent, acked>>
  BY DEF Peek
<1>3. CASE Received(p)
  BY <1>1, <1>2, <1>3, ReceivedStream
<1>4. CASE Goto(p, "reading") /\ UNCHANGED <<script, received>>
  <2>1. /\ ThreadInv'
        /\ pc'[p] = "reading" /\ \A q \in Peer \ {p} : pc'[q] = pc[q]
    BY <1>1, <1>4, Goes DEF StreamInv, Label, InCall
  <2>2. BufferInv' /\ KernelInv'
    BY <1>2 DEF StreamInv, BufferInv, KernelInv, kernel
  <2>3. UNCHANGED history
    BY <1>2, <1>4 DEF history
  <2>4. HistoryInv'
    BY <2>1, <2>3, SameHistory DEF StreamInv
  <2> QED
    BY <2>1, <2>2, <2>4 DEF StreamInv
<1> QED
  BY <1>3, <1>4 DEF Peek

LEMMA SendAckStream ==
  ASSUME NEW p \in Peer, StreamInv, SendAck(p)
  PROVE  StreamInv'
<1> USE DEF StreamInv
<1> DEFINE q == Other(p)
<1>1. script[p] # <<>> /\ pc[p] = "sendack"
  BY InItsCall DEF SendAck, InCall
<1>2. /\ Return(p) \/ Stop(p, "killed")
      /\ \/ HasRoom(q) /\ chan' = [chan EXCEPT ![q] = Append(@, ACK)]
         \/ UNCHANGED chan
      /\ UNCHANGED <<out, payload, open, reset, shut, history>>
  BY DEF SendAck
<1>3. /\ ThreadInv'
      /\ pc'[p] \in {"idle", "killed"} /\ \A r \in Peer \ {p} : pc'[r] = pc[r]
  BY <1>1, <1>2, Leaves, Stops
<1>4. q \in Peer
  BY Others
<1> HIDE DEF q
<1>5. BufferInv'
  BY <1>2 DEF BufferInv
<1>6. KernelInv'
  <2>1. CASE UNCHANGED chan
    BY <1>2, <2>1 DEF KernelInv
  <2>2. CASE HasRoom(q) /\ chan' = [chan EXCEPT ![q] = Append(@, ACK)]
    <3>1. chan[q] \in Seq(Byte) /\ ACK \in Byte /\ Len(chan[q]) < Capacity
      BY <1>4, <2>2, StreamAssumption DEF KernelInv, HasRoom
    <3>2. /\ Append(chan[q], ACK) \in Seq(Byte)
          /\ Len(Append(chan[q], ACK)) = Len(chan[q]) + 1
      BY <3>1, AppendProperties
    <3>3. Len(Append(chan[q], ACK)) < Capacity + Segment
      BY <3>1, <3>2, StreamAssumption, LenProperties
    <3> QED
      BY <1>2, <1>4, <2>2, <3>2, <3>3 DEF KernelInv
  <2> QED
    BY <1>2, <2>1, <2>2
<1>7. HistoryInv'
  BY <1>2, <1>3, SameHistory
<1> QED
  BY <1>3, <1>5, <1>6, <1>7

\* Closing empties the stream towards the end that closes.
LEMMA CloseKernel ==
  ASSUME NEW p \in Peer, KernelInv, BufferInv, Close(p)
  PROVE  KernelInv' /\ BufferInv' /\ UNCHANGED history
<1>1. /\ open' = [open EXCEPT ![p] = FALSE]
      /\ reset' = [reset EXCEPT ![Other(p)] = chan[p] # <<>>]
      /\ chan' = [chan EXCEPT ![p] = <<>>]
      /\ UNCHANGED <<out, payload, shut, history>>
  BY DEF Close
<1>2. BufferInv'
  BY <1>1 DEF BufferInv
<1>3. <<>> \in Seq(Byte) /\ Len(<<>>) < Capacity + Segment
  BY StreamAssumption, EmptySeq
<1>4. open' \in [Peer -> BOOLEAN] /\ shut' \in BOOLEAN
  BY <1>1 DEF KernelInv
<1>5. reset' \in [Peer -> BOOLEAN]
  <2>1. (chan[p] # <<>>) \in BOOLEAN
    OBVIOUS
  <2> QED
    BY <1>1, <2>1, Zenon DEF KernelInv
<1>6. chan' \in [Peer -> Seq(Byte)] /\ \A q \in Peer : Len(chan'[q]) < Capacity + Segment
  BY <1>1, <1>3 DEF KernelInv
<1> QED
  BY <1>1, <1>2, <1>4, <1>5, <1>6 DEF KernelInv

LEMMA CloseStream ==
  ASSUME NEW p \in Peer, StreamInv, CloseConnection(p) \/ CloseAfterStop(p)
  PROVE  /\ StreamInv' /\ UNCHANGED history
         /\ pc'[p] \in {pc[p], "idle"} /\ \A q \in Peer \ {p} : pc'[q] = pc[q]
<1>1. Close(p)
  BY DEF CloseConnection, CloseAfterStop
<1>2. KernelInv' /\ BufferInv' /\ UNCHANGED history
  BY <1>1, CloseKernel DEF StreamInv
<1>3. /\ ThreadInv'
      /\ pc'[p] \in {pc[p], "idle"} /\ \A q \in Peer \ {p} : pc'[q] = pc[q]
  <2>1. CASE CloseConnection(p)
    BY <2>1, Leaves DEF CloseConnection, Begins, StreamInv
  <2>2. CASE CloseAfterStop(p)
    BY <2>2 DEF CloseAfterStop, StreamInv, ThreadInv
  <2> QED
    BY <2>1, <2>2
<1>4. HistoryInv'
  BY <1>2, <1>3, SameHistory DEF StreamInv
<1> QED
  BY <1>2, <1>3, <1>4 DEF StreamInv

LEMMA ShutdownStream ==
  ASSUME StreamInv, Shutdown
  PROVE  StreamInv'
<1>1. ThreadInv' /\ BufferInv'
  BY DEF Shutdown, StreamInv, ThreadInv, BufferInv
<1>2. KernelInv'
  BY DEF Shutdown, StreamInv, KernelInv
<1>3. HistoryInv'
  BY DEF Shutdown, StreamInv, HistoryInv, history
<1> QED
  BY <1>1, <1>2, <1>3 DEF StreamInv

LEMMA StutterStream ==
  ASSUME StreamInv, UNCHANGED vars
  PROVE  StreamInv'
<1>1. ThreadInv' /\ BufferInv'
  BY DEF vars, StreamInv, ThreadInv, BufferInv
<1>2. KernelInv'
  BY DEF vars, kernel, StreamInv, KernelInv
<1>3. HistoryInv'
  BY DEF vars, history, StreamInv, HistoryInv
<1> QED
  BY <1>1, <1>2, <1>3 DEF StreamInv

LEMMA NextStream ==
  ASSUME StreamInv, [Next]_vars
  PROVE  StreamInv'
<1>1. ASSUME NEW p \in Peer, Step(p)
      PROVE  StreamInv'
  BY <1>1, BeginSendStream, PutPieceStream, SendReturnsStream, SendBreaksStream,
     GetAckStream, BeginReceiveStream, ReadStream, ReadEndStream, PeekStream,
     SendAckStream, CloseStream DEF Step
<1> QED
  BY <1>1, ShutdownStream, StutterStream DEF Next

LEMMA StreamIsTyped ==
  ASSUME StreamInv
  PROVE  TypeOK
<1>1. \A p \in Peer : Len(sent[p]) >= acked[p]
  <2>1. \A p \in Peer : Len(sent[p]) \in Nat /\ acked[p] \in Nat
    BY LenProperties DEF StreamInv, HistoryInv
  <2> QED
    BY <2>1 DEF StreamInv, HistoryInv
<1>2. pc \in [Peer -> {"idle", "sending", "getack", "reading", "peek", "sendack",
                      "failed", "killed"}]
  BY DEF StreamInv, ThreadInv, Label, InCall
<1> QED
  BY <1>1, <1>2
  DEF StreamInv, ThreadInv, BufferInv, KernelInv, HistoryInv, TypeOK

LEMMA StreamInvariant ==
  Spec => []StreamInv
BY InitStream, NextStream, PTL DEF Spec

\* The types, and the bound on the bytes in the stream, whatever the two ends
\* call and however long their messages are: nothing is acknowledged more often
\* than sent, and send_data_async() and send_ack() never overfill the stream.
THEOREM TypeCorrect ==
  Spec => []TypeOK
BY StreamInvariant, StreamIsTyped, PTL

-----------------------------------------------------------------------------
(* Ends whose messages have no byte that looks like an ACK.                *)

PlainInv ==
  \A p \in plan.plain : NoAckSent(script[p]) /\ out[p] \in Seq(Byte \ {ACK})

\* The rest of the calls has none either, and neither has the current one.
LEMMA NoAckInRest ==
  ASSUME NEW s \in Seq(Call), s # <<>>, NoAckSent(s)
  PROVE  /\ NoAckSent(Tail(s))
         /\ Head(s).op = "send" => Encode(Head(s)) \in Seq(Byte \ {ACK})
<1>1. /\ Head(s) = s[1] /\ Len(Tail(s)) = Len(s) - 1
      /\ \A i \in 1 .. Len(Tail(s)) : Tail(s)[i] = s[i + 1]
  BY HeadTailProperties
<1>2. Len(s) \in Nat /\ Len(s) # 0
  BY LenProperties
<1>3. \A i \in 1 .. Len(Tail(s)) : i + 1 \in 1 .. Len(s)
  BY <1>1, <1>2
<1>4. 1 \in 1 .. Len(s)
  BY <1>2
<1> QED
  BY <1>1, <1>3, <1>4 DEF NoAckSent

\* A step of p keeps it that changes p's script and output in these ways only.
LEMMA KeepsPlain ==
  ASSUME StreamInv, PlainInv, NEW p \in Peer, UNCHANGED plan,
         script[p] # <<>>, UNCHANGED script \/ Return(p),
         NEW w, out' = out \/ out' = [out EXCEPT ![p] = w],
         p \in plan.plain => w \in Seq(Byte \ {ACK})
  PROVE  PlainInv'
<1> SUFFICES ASSUME NEW q \in plan.plain
             PROVE  NoAckSent(script'[q]) /\ out'[q] \in Seq(Byte \ {ACK})
  BY DEF PlainInv, NoAckSent
<1>1. q \in Peer /\ script[q] \in Seq(Call)
  BY DEF StreamInv, ThreadInv, HistoryInv
<1>2. NoAckSent(script[q]) /\ out[q] \in Seq(Byte \ {ACK})
  BY DEF PlainInv
<1>3. script'[q] = script[q] \/ (script'[q] = Tail(script[q]) /\ script[q] # <<>>)
  <2>1. CASE UNCHANGED script
    BY <2>1
  <2>2. CASE script' = [script EXCEPT ![p] = Tail(@)]
    BY <1>1, <2>2 DEF StreamInv, ThreadInv
  <2> QED
    BY <2>1, <2>2 DEF Return
<1>4. NoAckSent(script'[q])
  BY <1>1, <1>2, <1>3, NoAckInRest
<1>5. out'[q] \in Seq(Byte \ {ACK})
  BY <1>1, <1>2 DEF StreamInv, BufferInv
<1> QED
  BY <1>4, <1>5

\* What enters the stream is a part of a message.
LEMMA PlainPiece ==
  ASSUME NEW p \in Peer, StreamInv, PlainInv, p \in plan.plain
  PROVE  LET n == Least(Segment, Len(out[p]))
         IN  /\ SubSeq(out[p], 1, n) \in Seq(Byte \ {ACK})
             /\ Drop(out[p], n) \in Seq(Byte \ {ACK})
<1>1. out[p] \in Seq(Byte \ {ACK})
  BY DEF PlainInv
<1>2. Least(Segment, Len(out[p])) \in 0 .. Len(out[p])
  BY PieceType
<1> QED
  BY <1>1, <1>2, TakeAndDrop

LEMMA InitPlain ==
  ASSUME Init
  PROVE  PlainInv
<1>1. plan.plain = {p \in Peer : NoAckSent(script[p])}
  BY DEF Init
<1>2. \A p \in Peer : out[p] \in Seq(Byte \ {ACK})
  BY EmptySeq DEF Init
<1> QED
  BY <1>1, <1>2 DEF PlainInv

LEMMA StepPlain ==
  ASSUME NEW p \in Peer, StreamInv, PlainInv, Step(p)
  PROVE  PlainInv'
<1>1. CASE BeginSend(p)
  <2>1. /\ script[p] # <<>> /\ Current(p).op = "send" /\ script' = script /\ plan' = plan
        /\ out' = [out EXCEPT ![p] = Encode(Current(p))]
    BY <1>1 DEF BeginSend, Begins
  <2>2. p \in plan.plain => Encode(Current(p)) \in Seq(Byte \ {ACK})
    BY <2>1, NoAckInRest DEF PlainInv, Current, StreamInv, ThreadInv
  <2> QED
    BY <2>1, <2>2, KeepsPlain
<1>2. CASE PutPiece(p)
  <2> DEFINE w == Drop(out[p], Least(Segment, Len(out[p])))
  <2>1. script[p] # <<>> /\ script' = script /\ plan' = plan /\ out' = [out EXCEPT ![p] = w]
    BY <1>2, InItsCall DEF PutPiece, history, StreamInv, InCall
  <2>2. p \in plan.plain => w \in Seq(Byte \ {ACK})
    BY PlainPiece
  <2> QED
    BY <2>1, <2>2, KeepsPlain
<1>3. CASE SendReturns(p)
  <2>1. /\ script[p] # <<>> /\ plan' = plan /\ out' = [out EXCEPT ![p] = <<>>]
        /\ UNCHANGED script \/ Return(p)
    BY <1>3, InItsCall DEF SendReturns, history, StreamInv, InCall
  <2> QED
    BY <2>1, EmptySeq, KeepsPlain
<1>4. CASE CloseAfterStop(p)
  BY <1>4 DEF CloseAfterStop, Close, history, PlainInv, NoAckSent
<1>5. CASE \/ SendBreaks(p) \/ GetAck(p) \/ BeginReceive(p) \/ Read(p) \/ ReadEnd(p)
           \/ Peek(p) \/ SendAck(p) \/ CloseConnection(p)
  <2>1. script[p] # <<>>
    BY <1>5, InItsCall
    DEF SendBreaks, GetAck, BeginReceive, Read, ReadEnd, Peek, SendAck,
        CloseConnection, Begins, StreamInv, InCall
  <2>2. plan' = plan /\ out' = out /\ (UNCHANGED script \/ Return(p))
    BY <1>5
    DEF SendBreaks, GetAck, BeginReceive, Read, ReadEnd, Peek, SendAck,
        CloseConnection, Close, Received, Stop, history
  <2> QED
    BY <2>1, <2>2, EmptySeq, KeepsPlain
<1> QED
  BY <1>1, <1>2, <1>3, <1>4, <1>5 DEF Step

LEMMA PlainInvariant ==
  Spec => []PlainInv
<1>1. StreamInv /\ PlainInv /\ [Next]_vars => PlainInv'
  <2>1. ASSUME PlainInv, Shutdown \/ UNCHANGED vars
        PROVE  PlainInv'
    BY <2>1 DEF Shutdown, vars, history, PlainInv, NoAckSent
  <2> QED
    BY <2>1, StepPlain DEF Next
<1> QED
  BY <1>1, InitPlain, StreamInvariant, PTL DEF Spec

-----------------------------------------------------------------------------
(* The inductive invariant behind AckedWhileOpen.                          *)

\* An end that can be reached and sends no byte that looks like an ACK.
Truthful(q) == q \in plan.plain /\ ~Gone(q)

\* Is an end about to send an ACK?
Owed(q) == IF pc[q] = "sendack" THEN 1 ELSE 0

\* Every message that an end has received has at most one ACK: taken by the
\* sender, in the stream towards it, or still owed.
AckInv ==
  \A p \in Peer :
    Truthful(Other(p)) =>
      acked[p] + Acks(chan[p]) + Owed(Other(p)) <= Len(received[Other(p)])

LEMMA AckTypes ==
  ASSUME NEW p \in Peer, StreamInv
  PROVE  /\ acked[p] \in Nat /\ Acks(chan[p]) \in Nat /\ Owed(p) \in {0, 1}
         /\ Len(received[p]) \in Nat
<1>1. acked[p] \in Nat /\ chan[p] \in Seq(Byte)
  BY DEF StreamInv, HistoryInv, KernelInv
<1>2. PICK S : received \in [Peer -> Seq(S)]
  BY DEF StreamInv, HistoryInv
<1>3. Len(received[p]) \in Nat
  BY <1>2, LenProperties
<1> QED
  BY <1>1, <1>3, AcksCount DEF Owed

\* Who is gone stays gone.
LEMMA StillTruthful ==
  ASSUME StreamInv, NEW p \in Peer, Truthful(p)', UNCHANGED plan,
         \/ UNCHANGED <<open, shut>>
         \/ shut' = TRUE
         \/ shut' = shut /\ \E q \in Peer : open' = [open EXCEPT ![q] = FALSE]
  PROVE  Truthful(p)
BY DEF Truthful, Gone, StreamInv, KernelInv

\* A step that neither receives nor acknowledges, and adds no ACK.
LEMMA QuietStep ==
  ASSUME StreamInv, StreamInv', AckInv, UNCHANGED <<plan, acked, received>>,
         \/ UNCHANGED <<open, shut>>
         \/ shut' = TRUE
         \/ shut' = shut /\ \E q \in Peer : open' = [open EXCEPT ![q] = FALSE],
         \A p \in Peer : Truthful(Other(p)) => Acks(chan'[p]) <= Acks(chan[p]),
         \A p \in Peer : pc'[p] = "sendack" => pc[p] = "sendack"
  PROVE  AckInv'
<1> SUFFICES ASSUME NEW p \in Peer, Truthful(Other(p))'
             PROVE  acked'[p] + Acks(chan'[p]) + Owed(Other(p))'
                      <= Len(received'[Other(p)])
  BY DEF AckInv
<1> DEFINE q == Other(p)
<1>1. q \in Peer
  BY Others
<1>2. Truthful(q)
  BY <1>1, StillTruthful
<1>3. acked[p] + Acks(chan[p]) + Owed(q) <= Len(received[q])
  BY <1>2 DEF AckInv
<1>4. Acks(chan'[p]) <= Acks(chan[p]) /\ Owed(q)' <= Owed(q)
  BY <1>1, <1>2 DEF Owed
<1>5. /\ acked[p] \in Nat /\ Acks(chan[p]) \in Nat /\ Owed(q) \in {0, 1}
      /\ Len(received[q]) \in Nat
  BY <1>1, AckTypes
<1>6. Acks(chan'[p]) \in Nat /\ Owed(q)' \in {0, 1}
  BY <1>1, AckTypes, AcksCount DEF StreamInv, KernelInv, Owed
<1> QED
  BY <1>3, <1>4, <1>5, <1>6

LEMMA InitAck ==
  ASSUME Init
  PROVE  AckInv
BY Others, AcksOfNothing DEF Init, AckInv, Owed

LEMMA PutPieceAck ==
  ASSUME NEW p \in Peer, StreamInv, StreamInv', PlainInv, AckInv, PutPiece(p)
  PROVE  AckInv'
<1> DEFINE q == Other(p)
           piece == SubSeq(out[p], 1, Least(Segment, Len(out[p])))
<1>1. /\ chan' = [chan EXCEPT ![q] = @ \o piece]
      /\ UNCHANGED <<pc, open, shut, plan, acked, received>>
  BY DEF PutPiece, history
<1>2. q \in Peer /\ Other(q) = p
  BY Others
<1>3. p \in plan.plain => piece \in Seq(Byte \ {ACK})
  BY PlainPiece
<1> HIDE DEF piece, q
<1>4. \A r \in Peer : Truthful(Other(r)) => Acks(chan'[r]) <= Acks(chan[r])
  <2>1. \A r \in Peer : chan'[r] = IF r = q THEN chan[q] \o piece ELSE chan[r]
    BY <1>1, <1>2 DEF StreamInv, KernelInv
  <2>2. p \in plan.plain => Acks(chan[q] \o piece) = Acks(chan[q])
    BY <1>2, <1>3, AcksOfMore DEF StreamInv, KernelInv
  <2> QED
    BY <1>2, <2>1, <2>2, AckTypes DEF Truthful
<1> QED
  BY <1>1, <1>4, QuietStep

LEMMA ReadAck ==
  ASSUME NEW p \in Peer, StreamInv, StreamInv', AckInv, Read(p)
  PROVE  AckInv'
<1> DEFINE n == Least(ReadMax, Len(chan[p]))
           rest == Drop(chan[p], n)
<1>1. /\ chan' = [chan EXCEPT ![p] = rest]
      /\ pc' = [pc EXCEPT ![p] = "peek"]
      /\ UNCHANGED <<open, shut, plan, acked, received>>
  BY DEF Read, history, Goto
<1>2. /\ chan[p] \in Seq(Byte) /\ n \in Nat /\ rest \in Seq(Byte)
      /\ Len(rest) + n = Len(chan[p])
      /\ \A i \in 1 .. Len(rest) : rest[i] = chan[p][i + n]
  BY ReadTypes DEF StreamInv, KernelInv
<1> HIDE DEF n, rest
<1>3. Acks(rest) <= Acks(chan[p])
  BY <1>2, AcksOfRest
<1>4. \A r \in Peer : Acks(chan'[r]) <= Acks(chan[r])
  <2>1. \A r \in Peer : chan'[r] = IF r = p THEN rest ELSE chan[r]
    BY <1>1 DEF StreamInv, KernelInv
  <2> QED
    BY <1>3, <2>1, AckTypes
<1>5. \A r \in Peer : pc'[r] = "sendack" => pc[r] = "sendack"
  BY <1>1 DEF StreamInv, ThreadInv
<1> QED
  BY <1>1, <1>4, <1>5, QuietStep

\* The end of a receive call.
LEMMA ReceivedAck ==
  ASSUME NEW p \in Peer, StreamInv, StreamInv', AckInv, pc[p] # "sendack", Received(p),
         \A q \in Peer \ {p} : pc'[q] = pc[q],
         UNCHANGED <<kernel, plan, acked>>
  PROVE  AckInv'
<1> SUFFICES ASSUME NEW r \in Peer, Truthful(Other(r))'
             PROVE  acked'[r] + Acks(chan'[r]) + Owed(Other(r))'
                      <= Len(received'[Other(r)])
  BY DEF AckInv
<1> DEFINE q == Other(r)
<1>1. q \in Peer
  BY Others
<1>2. Truthful(q)
  BY DEF Truthful, Gone, kernel
<1>3. acked[r] + Acks(chan[r]) + Owed(q) <= Len(received[q])
  BY <1>2 DEF AckInv
<1>4. /\ acked[r] \in Nat /\ Acks(chan[r]) \in Nat /\ Owed(q) \in {0, 1}
      /\ Len(received[q]) \in Nat
  BY <1>1, AckTypes
<1>5. acked'[r] = acked[r] /\ Acks(chan'[r]) = Acks(chan[r])
  BY DEF kernel
<1>6. CASE q = p
  <2>1. Len(received'[q]) = Len(received[q]) + 1 /\ Owed(q) = 0 /\ Owed(q)' \in {0, 1}
    BY <1>6, OneMore DEF StreamInv, Owed
  <2> QED
    BY <1>3, <1>4, <1>5, <2>1
<1>7. CASE q # p
  <2>1. received'[q] = received[q] /\ Owed(q)' = Owed(q)
    BY <1>1, <1>7, OneMore DEF StreamInv, Owed
  <2> QED
    BY <1>3, <1>4, <1>5, <2>1
<1> QED
  BY <1>6, <1>7

LEMMA GetAckAck ==
  ASSUME NEW p \in Peer, StreamInv, StreamInv', AckInv, GetAck(p)
  PROVE  AckInv'
<1>1. /\ script[p] # <<>> /\ pc[p] = "getack"
      /\ UNCHANGED <<open, shut, plan, received>>
  BY GetAckCases, InItsCall DEF StreamInv, InCall
<1>2. \A r \in Peer : pc'[r] = "sendack" => pc[r] = "sendack"
  <2>1. Return(p) \/ Stop(p, "failed")
    BY GetAckCases
  <2> QED
    BY <1>1, <2>1, Leaves, Stops DEF StreamInv
<1>3. CASE chan[p] # <<>> /\ chan' = [chan EXCEPT ![p] = Tail(@)]
  <2> DEFINE rest == Tail(chan[p])
  <2>1. /\ chan[p] \in Seq(Byte) /\ rest \in Seq(Byte) /\ Len(rest) + 1 = Len(chan[p])
        /\ \A i \in 1 .. Len(rest) : rest[i] = chan[p][i + 1]
        /\ Head(chan[p]) = chan[p][1]
    BY <1>3, TailType DEF StreamInv, KernelInv
  <2>2. \A r \in Peer : chan'[r] = IF r = p THEN rest ELSE chan[r]
    BY <1>3 DEF StreamInv, KernelInv
  <2> HIDE DEF rest
  <2>3. /\ Acks(rest) <= Acks(chan[p])
        /\ Head(chan[p]) = ACK => Acks(rest) + 1 <= Acks(chan[p])
    BY <2>1, AcksOfRest
  <2>4. CASE UNCHANGED acked
    <3>1. \A r \in Peer : Acks(chan'[r]) <= Acks(chan[r])
      BY <2>2, <2>3, AckTypes
    <3> QED
      BY <1>1, <1>2, <2>4, <3>1, QuietStep
  <2>5. CASE acked' = [acked EXCEPT ![p] = @ + 1] /\ Head(chan[p]) = ACK
    <3> SUFFICES ASSUME NEW r \in Peer, Truthful(Other(r))'
                 PROVE  acked'[r] + Acks(chan'[r]) + Owed(Other(r))'
                          <= Len(received'[Other(r)])
      BY DEF AckInv
    <3> DEFINE q == Other(r)
    <3>1. q \in Peer /\ Truthful(q)
      BY <1>1, Others DEF Truthful, Gone
    <3>2. acked[r] + Acks(chan[r]) + Owed(q) <= Len(received[q])
      BY <3>1 DEF AckInv
    <3>3. /\ acked[r] \in Nat /\ Acks(chan[r]) \in Nat /\ Owed(q) \in {0, 1}
          /\ Len(received[q]) \in Nat /\ received' = received
          /\ Acks(rest) \in Nat
      BY <1>1, <2>1, <3>1, AckTypes, AcksCount
    <3>4. Owed(q)' <= Owed(q) /\ Owed(q)' \in {0, 1}
      BY <1>2, <3>1 DEF Owed
    <3>5. acked'[r] + Acks(chan'[r]) <= acked[r] + Acks(chan[r])
          /\ acked'[r] \in Nat /\ Acks(chan'[r]) \in Nat
      <4>1. CASE r = p
        <5>1. acked'[r] = acked[r] + 1 /\ chan'[r] = rest
          BY <2>2, <2>5, <4>1 DEF StreamInv, HistoryInv
        <5> QED
          BY <2>3, <2>5, <3>3, <4>1, <5>1
      <4>2. CASE r # p
        <5>1. acked'[r] = acked[r] /\ chan'[r] = chan[r]
          BY <2>2, <2>5, <4>2 DEF StreamInv, HistoryInv
        <5> QED
          BY <3>3, <5>1
      <4> QED
        BY <4>1, <4>2
    <3>6. acked'[r] + Acks(chan'[r]) + Owed(q)' <= acked[r] + Acks(chan[r]) + Owed(q)
      BY <3>3, <3>4, <3>5
    <3> QED
      BY <3>2, <3>3, <3>4, <3>5, <3>6
  <2> QED
    BY <1>3, <2>4, <2>5, GetAckCases
<1>4. CASE chan[p] = <<>> /\ Gone(Other(p)) /\ UNCHANGED chan
  <2> SUFFICES ASSUME NEW r \in Peer, Truthful(Other(r))'
               PROVE  acked'[r] + Acks(chan'[r]) + Owed(Other(r))'
                        <= Len(received'[Other(r)])
    BY DEF AckInv
  <2> DEFINE q == Other(r)
  <2>1. q \in Peer /\ Truthful(q)
    BY <1>1, Others DEF Truthful, Gone
  <2>2. r # p
    BY <1>4, <2>1 DEF Truthful
  <2>3. acked'[r] = acked[r]
    <3>1. CASE UNCHANGED acked
      BY <3>1
    <3>2. CASE acked' = [acked EXCEPT ![p] = @ + 1]
      BY <2>2, <3>2 DEF StreamInv, HistoryInv
    <3> QED
      BY <3>1, <3>2, GetAckCases
  <2>4. acked[r] + Acks(chan[r]) + Owed(q) <= Len(received[q])
    BY <2>1 DEF AckInv
  <2>5. /\ acked[r] \in Nat /\ Acks(chan[r]) \in Nat /\ Owed(q) \in {0, 1}
        /\ Len(received[q]) \in Nat /\ received' = received /\ chan' = chan
    BY <1>1, <1>4, <2>1, AckTypes
  <2>6. Owed(q)' <= Owed(q) /\ Owed(q)' \in {0, 1}
    BY <1>2, <2>1 DEF Owed
  <2> QED
    BY <2>3, <2>4, <2>5, <2>6
<1> QED
  BY <1>3, <1>4, GetAckCases

LEMMA SendAckAck ==
  ASSUME NEW p \in Peer, StreamInv, StreamInv', AckInv, SendAck(p)
  PROVE  AckInv'
<1> DEFINE q == Other(p)
<1>1. script[p] # <<>> /\ pc[p] = "sendack"
  BY InItsCall DEF SendAck, StreamInv, InCall
<1>2. /\ Return(p) \/ Stop(p, "killed")
      /\ \/ chan' = [chan EXCEPT ![q] = Append(@, ACK)]
         \/ UNCHANGED chan
      /\ UNCHANGED <<open, shut, plan, acked, received>>
  BY DEF SendAck, history
<1>3. pc'[p] # "sendack" /\ \A r \in Peer \ {p} : pc'[r] = pc[r]
  BY <1>1, <1>2, Leaves, Stops DEF StreamInv
<1>4. q \in Peer /\ q # p /\ Other(q) = p /\ \A r \in Peer : r = p \/ r = q
  BY Others
<1>5. CASE UNCHANGED chan
  <2>1. \A r \in Peer : Acks(chan'[r]) <= Acks(chan[r])
    BY <1>5, AckTypes
  <2> QED
    BY <1>2, <1>3, <2>1, QuietStep
<1>6. CASE chan' = [chan EXCEPT ![q] = Append(@, ACK)]
  <2> SUFFICES ASSUME NEW r \in Peer, Truthful(Other(r))'
               PROVE  acked'[r] + Acks(chan'[r]) + Owed(Other(r))'
                        <= Len(received'[Other(r)])
    BY DEF AckInv
  <2>1. Other(r) \in Peer /\ Truthful(Other(r))
    BY <1>2, Others DEF Truthful, Gone
  <2>2. acked[r] + Acks(chan[r]) + Owed(Other(r)) <= Len(received[Other(r)])
    BY <2>1 DEF AckInv
  <2>3. /\ acked[r] \in Nat /\ Acks(chan[r]) \in Nat /\ Owed(Other(r)) \in {0, 1}
        /\ Len(received[Other(r)]) \in Nat
    BY <2>1, AckTypes
  <2>4. CASE r = q
    <3>1. Acks(chan'[r]) = Acks(chan[r]) + 1
      <4>1. chan'[r] = Append(chan[q], ACK) /\ chan[q] \in Seq(Byte)
        BY <1>4, <1>6, <2>4 DEF StreamInv, KernelInv
      <4> QED
        BY <2>4, <4>1, AcksOfAck
    <3>2. Owed(Other(r)) = 1 /\ Owed(Other(r))' = 0
      BY <1>1, <1>3, <1>4, <2>4 DEF Owed
    <3> QED
      BY <1>2, <2>2, <2>3, <3>1, <3>2
  <2>5. CASE r = p
    <3>1. chan'[r] = chan[r] /\ Owed(Other(r))' = Owed(Other(r))
      BY <1>3, <1>4, <1>6, <2>5 DEF StreamInv, KernelInv, Owed
    <3> QED
      BY <1>2, <2>2, <2>3, <3>1
  <2> QED
    BY <1>4, <2>4, <2>5
<1> QED
  BY <1>2, <1>5, <1>6

\* The rest of the steps add nothing.
LEMMA CloseAck ==
  ASSUME NEW p \in Peer, StreamInv, StreamInv', AckInv,
         CloseConnection(p) \/ CloseAfterStop(p)
  PROVE  AckInv'
<1>1. /\ open' = [open EXCEPT ![p] = FALSE] /\ shut' = shut
      /\ chan' = [chan EXCEPT ![p] = <<>>]
      /\ UNCHANGED <<plan, acked, received>>
  BY DEF CloseConnection, CloseAfterStop, Close, history
<1>2. \A r \in Peer : pc'[r] = "sendack" => pc[r] = "sendack"
  BY CloseStream
<1>3. \A r \in Peer : Acks(chan'[r]) <= Acks(chan[r])
  <2>1. \A r \in Peer : chan'[r] = IF r = p THEN <<>> ELSE chan[r]
    BY <1>1 DEF StreamInv, KernelInv
  <2> QED
    BY <2>1, AcksOfNothing, AckTypes
<1> QED
  BY <1>1, <1>2, <1>3, QuietStep

LEMMA OtherStepsAck ==
  ASSUME NEW p \in Peer, StreamInv, StreamInv', AckInv,
         BeginSend(p) \/ SendReturns(p) \/ SendBreaks(p) \/ BeginReceive(p)
  PROVE  AckInv'
<1>1. UNCHANGED <<plan, acked, received, open, shut, chan>>
  BY DEF BeginSend, SendReturns, SendBreaks, BeginReceive, kernel, history
<1>2. /\ script[p] # <<>>
      /\ \/ \E label \in Label \ {"sendack"} : Goto(p, label) /\ UNCHANGED script
         \/ Return(p)
  BY InItsCall
  DEF BeginSend, SendReturns, SendBreaks, BeginReceive, Begins, Stop, StreamInv, Label, InCall
<1>3. \A r \in Peer : pc'[r] = "sendack" => pc[r] = "sendack"
  BY <1>2, Goes, Leaves DEF StreamInv
<1>4. \A r \in Peer : Acks(chan'[r]) <= Acks(chan[r])
  BY <1>1, AckTypes
<1> QED
  BY <1>1, <1>3, <1>4, QuietStep

LEMMA EndAck ==
  ASSUME NEW p \in Peer, StreamInv, StreamInv', AckInv, ReadEnd(p) \/ Peek(p)
  PROVE  AckInv'
<1>1. /\ script[p] # <<>> /\ pc[p] \in {"reading", "peek"}
      /\ UNCHANGED <<out, payload, kernel, plan, sent, acked>>
  BY InItsCall DEF ReadEnd, Peek, StreamInv, InCall
<1>2. CASE Received(p)
  BY <1>1, <1>2, ReceivedStream, ReceivedAck
<1>3. CASE UNCHANGED received /\ \E label \in {"failed", "reading"} :
             Goto(p, label) /\ UNCHANGED script
  <2>1. \A r \in Peer : pc'[r] = "sendack" => pc[r] = "sendack"
    BY <1>1, <1>3, Goes DEF StreamInv, Label, InCall
  <2>2. UNCHANGED <<plan, acked, received, open, shut, chan>>
    BY <1>1, <1>3 DEF kernel
  <2>3. \A r \in Peer : Acks(chan'[r]) <= Acks(chan[r])
    BY <2>2, AckTypes
  <2> QED
    BY <2>1, <2>2, <2>3, QuietStep
<1> QED
  BY <1>2, <1>3 DEF ReadEnd, Peek, Stop

LEMMA NextAck ==
  ASSUME StreamInv, StreamInv', PlainInv, AckInv, [Next]_vars
  PROVE  AckInv'
<1>1. ASSUME NEW p \in Peer, Step(p)
      PROVE  AckInv'
  BY <1>1, OtherStepsAck, PutPieceAck, GetAckAck, ReadAck, EndAck, SendAckAck, CloseAck
  DEF Step
<1>2. ASSUME Shutdown \/ UNCHANGED vars
      PROVE  AckInv'
  <2>1. UNCHANGED <<pc, chan, plan, acked, received>> /\ (shut' = TRUE \/ UNCHANGED <<open, shut>>)
    BY <1>2 DEF Shutdown, vars, kernel, history
  <2>2. \A r \in Peer : Acks(chan'[r]) <= Acks(chan[r])
    BY <2>1, AckTypes
  <2> QED
    BY <2>1, <2>2, QuietStep
<1> QED
  BY <1>1, <1>2 DEF Next

LEMMA AckImplies ==
  ASSUME StreamInv, AckInv
  PROVE  AckedWhileOpen
<1> SUFFICES ASSUME NEW p \in Peer, Other(p) \in plan.plain, ~Gone(Other(p))
             PROVE  acked[p] <= Len(received[Other(p)])
  BY DEF AckedWhileOpen
<1>1. Other(p) \in Peer
  BY Others
<1>2. acked[p] + Acks(chan[p]) + Owed(Other(p)) <= Len(received[Other(p)])
  BY DEF AckInv, Truthful
<1> QED
  BY <1>1, <1>2, AckTypes

\* Whatever two ends call, in whatever pieces their messages enter the stream and
\* are read: no more calls of send_data_sync() have returned than receive calls of
\* the other end have read something, as long as the receiver can be reached and
\* none of its own messages has a byte that looks like an ACK.  get_ack() refuses
\* every other byte, and no receive call sends two ACKs.
THEOREM AcksTrue ==
  Spec => []AckedWhileOpen
<1>1. Init => AckInv
  BY InitAck
<1>2. StreamInv /\ StreamInv' /\ PlainInv /\ AckInv /\ [Next]_vars => AckInv'
  BY NextAck
<1>3. StreamInv /\ AckInv => AckedWhileOpen
  BY AckImplies
<1> QED
  BY <1>1, <1>2, <1>3, StreamInvariant, PlainInvariant, PTL DEF Spec

-----------------------------------------------------------------------------
(* Ends that agree: the turns they go through, as an inductive invariant.   *)

\* Nothing of p's messages is under way; or p has begun one that has not been
\* received; or one that was received and not acknowledged.
Quiet(p, q) == acked[p] = Len(sent[p]) /\ Len(received[q]) = Len(sent[p])
Asked(p, q) ==
  /\ acked[p] + 1 = Len(sent[p]) /\ Len(received[q]) = acked[p]
  /\ sent[p][Len(sent[p])] = Current(p).data
Heard(p, q) == acked[p] + 1 = Len(sent[p]) /\ Len(received[q]) = Len(sent[p])

\* p has put its whole message; q has read nothing yet; q has read a part of e.
Put(p) == (At(p, "sending") /\ out[p] = <<>>) \/ At(p, "getack")
Waits(q) == At(q, "idle") \/ (At(q, "reading") /\ payload[q] = <<>>)
Takes(q, e) ==
  \/ At(q, "idle") /\ chan[q] = e
  \/ (At(q, "reading") \/ At(q, "peek")) /\ payload[q] \o chan[q] = e

\* Both ends stand at the same pair of calls, in which p sends.
InStep(p, q) ==
  /\ Together(script[p], script[q]) /\ Matches(Current(p), Current(q))
  /\ open[p] /\ open[q]

Fresh(p, q) ==
  /\ InStep(p, q) /\ At(p, "idle") /\ Waits(q)
  /\ chan[p] = <<>> /\ chan[q] = <<>>
  /\ Quiet(p, q) /\ Quiet(q, p)

Begun(p, q) ==
  /\ InStep(p, q) /\ Waits(q)
  /\ At(p, "sending") /\ out[p] = Encode(Current(p))
  /\ chan[p] = <<>> /\ chan[q] = <<>>
  /\ Asked(p, q) /\ Quiet(q, p)

UnderWay(p, q) ==
  /\ InStep(p, q) /\ Put(p)
  /\ chan[p] = <<>> /\ Takes(q, Encode(Current(p)))
  /\ Asked(p, q) /\ Quiet(q, p)

Answering(p, q) ==
  /\ InStep(p, q) /\ Put(p) /\ At(q, "sendack")
  /\ chan[p] = <<>> /\ chan[q] = <<>>
  /\ Heard(p, q) /\ Quiet(q, p)

\* q has returned from the pair of calls in which p sends; the ACK is under way.
Upcoming(p) == Head(Tail(script[p]))
Behind(p, q) ==
  /\ script[p] # <<>> /\ Current(p).op = "send" /\ Current(p).sync
  /\ Put(p) /\ Heard(p, q)

Apart(p, q) ==
  /\ Behind(p, q) /\ Together(Tail(script[p]), script[q])
  /\ open[p] /\ open[q] /\ chan[q] = <<>>

Answered(p, q) ==
  /\ Apart(p, q) /\ chan[p] = <<ACK>> /\ Quiet(q, p)
  /\ \/ At(q, "idle")
     \/ At(q, "reading") /\ payload[q] = <<>> /\ Matches(Upcoming(p), Current(q))

Overtaking(p, q) ==
  /\ Apart(p, q) /\ chan[p] = <<ACK>> /\ Matches(Current(q), Upcoming(p))
  /\ At(q, "sending") /\ out[q] = Encode(Current(q)) /\ Asked(q, p)

Overtaken(p, q) ==
  /\ Apart(p, q) /\ Matches(Current(q), Upcoming(p))
  /\ chan[p] = <<ACK>> \o Encode(Current(q))
  /\ Put(q) /\ Asked(q, p)

Left(p, q) ==
  /\ Behind(p, q) /\ Upcoming(p).op = "close" /\ Tail(Tail(script[p])) = <<>>
  /\ chan[p] = <<ACK>>
  /\ At(q, "idle") /\ script[q] = <<>> /\ Quiet(q, p)

\* At most the closing call is left.
Closes(p) ==
  /\ At(p, "idle")
  /\ script[p] = <<>> \/ (Current(p).op = "close" /\ Tail(script[p]) = <<>>)

Done(p, q) == Closes(p) /\ Closes(q) /\ Quiet(p, q) /\ Quiet(q, p)

Turn(p, q) ==
  \/ Fresh(p, q) \/ Begun(p, q) \/ UnderWay(p, q) \/ Answering(p, q)
  \/ Answered(p, q) \/ Overtaking(p, q) \/ Overtaken(p, q) \/ Left(p, q)
  \/ Done(p, q)


-----------------------------------------------------------------------------
LEMMA Together2 ==
  ASSUME NEW s, NEW t, Together(s, t)
  PROVE  Together(t, s)
BY DEF Together

\* The first calls of a conversation: both close, and it is over, or one sends
\* what the other receives, and a conversation follows.
LEMMA FirstCalls ==
  ASSUME NEW s \in Seq(Call), NEW t \in Seq(Call), Together(s, t)
  PROVE  /\ s # <<>> /\ t # <<>>
         /\ \/ /\ Head(s).op = "close" /\ Head(t).op = "close"
               /\ Tail(s) = <<>> /\ Tail(t) = <<>>
            \/ /\ Matches(Head(s), Head(t)) \/ Matches(Head(t), Head(s))
               /\ Together(Tail(s), Tail(t))
<1>1. Len(s) \in Nat /\ s # <<>> /\ Len(t) = Len(s) /\ t # <<>> /\ Len(s) # 0
  BY LenProperties, EmptySeq DEF Together
<1>2. /\ Tail(s) \in Seq(Call) /\ Len(Tail(s)) = Len(s) - 1
      /\ \A i \in 1 .. Len(Tail(s)) : Tail(s)[i] = s[i + 1]
      /\ Tail(t) \in Seq(Call) /\ Len(Tail(t)) = Len(t) - 1
      /\ \A i \in 1 .. Len(Tail(t)) : Tail(t)[i] = t[i + 1]
  BY <1>1, HeadTailProperties
<1>3. Head(s) = s[1] /\ Head(t) = t[1] /\ 1 \in 1 .. Len(s)
  BY <1>1
<1>4. CASE Len(s) = 1
  <2>1. Tail(s) = <<>> /\ Tail(t) = <<>>
    <3>1. Len(Tail(s)) = 0 /\ Len(Tail(t)) = 0
      BY <1>1, <1>2, <1>4
    <3> QED
      BY <1>2, <3>1, EmptySeq
  <2> QED
    BY <1>1, <1>3, <1>4, <2>1 DEF Together
<1>5. CASE Len(s) # 1
  <2>1. Matches(s[1], t[1]) \/ Matches(t[1], s[1])
    BY <1>3, <1>5 DEF Together
  <2>2. Tail(s) # <<>> /\ Len(Tail(s)) = Len(Tail(t))
    <3>1. Len(Tail(s)) # 0 /\ Len(Tail(s)) = Len(Tail(t))
      BY <1>1, <1>2, <1>5
    <3> QED
      BY <1>2, <3>1, EmptySeq
  <2>3. ASSUME NEW i \in 1 .. Len(Tail(s))
        PROVE  IF i = Len(Tail(s)) THEN Tail(s)[i].op = "close" /\ Tail(t)[i].op = "close"
               ELSE Matches(Tail(s)[i], Tail(t)[i]) \/ Matches(Tail(t)[i], Tail(s)[i])
    <3>1. i + 1 \in 1 .. Len(s) /\ (i + 1 = Len(s) <=> i = Len(Tail(s)))
      BY <1>1, <1>2
    <3>2. Tail(s)[i] = s[i + 1] /\ Tail(t)[i] = t[i + 1]
      BY <1>1, <1>2
    <3> QED
      BY <3>1, <3>2 DEF Together
  <2> QED
    BY <1>1, <1>3, <2>1, <2>2, <2>3 DEF Together
<1> QED
  BY <1>4, <1>5

\* What a message that arrives as it was sent is made of.
LEMMA CarriedBytes ==
  ASSUME NEW c, Carried(c)
  PROVE  /\ Encode(c) \in Seq(Byte)
         /\ Encode(c) # <<>> /\ Len(Encode(c)) <= Segment
         /\ \A i \in 1 .. Len(Encode(c)) : Encode(c)[i] # Nul
<1>1. Encode(c) \in Seq(Byte \ {Nul}) /\ Len(Encode(c)) \in 1 .. Segment
  BY DEF Carried
<1>2. Encode(c) \in Seq(Byte)
  BY <1>1, SeqMonotonic
<1>3. \A i \in 1 .. Len(Encode(c)) : Encode(c)[i] \in Byte \ {Nul}
  BY <1>1, ElementOfSeq
<1>4. Len(Encode(c)) # 0
  BY <1>1
<1> QED
  BY <1>1, <1>2, <1>3, <1>4, StreamAssumption

\* Without a '\0' the whole buffer is taken.
LEMMA NoNul ==
  ASSUME NEW s \in Seq(Byte), \A i \in 1 .. Len(s) : s[i] # Nul
  PROVE  BeforeNul(s) = s
<1>1. Len(s) \in Nat
  BY LenProperties
<1>2. {i \in 1 .. Len(s) : \A j \in 1 .. i : s[j] # Nul} = 1 .. Len(s)
  BY <1>1
<1>3. Cardinality(1 .. Len(s)) = Len(s)
  BY <1>1, FS_Interval
<1> QED
  BY <1>2, <1>3, SubSeqFull DEF BeforeNul

\* Pieces may be put together in any order.
LEMMA Rejoined ==
  \A r, s, t \in Seq(Byte) : (r \o s) \o t = r \o (s \o t)
BY ConcatAssociative

\* One recv() takes a part of the message from the stream and adds it to the payload.
LEMMA ReadOn ==
  ASSUME NEW w \in Seq(Byte), NEW c \in Seq(Byte), NEW n \in 0 .. Len(c),
         \A i \in 1 .. Len(w \o c) : (w \o c)[i] # Nul
  PROVE  (w \o BeforeNul(SubSeq(c, 1, n))) \o Drop(c, n) = w \o c
<1> DEFINE a == SubSeq(c, 1, n)
           b == Drop(c, n)
<1>1. Len(w) \in Nat /\ Len(c) \in Nat
  BY LenProperties
<1>2. /\ a \in Seq(Byte) /\ Len(a) = n /\ \A i \in 1 .. n : a[i] = c[i]
      /\ b \in Seq(Byte)
  BY TakeAndDrop
<1>3. a \o b = c
  <2>1. SubSeq(c, 1, n) \o SubSeq(c, n + 1, Len(c)) = SubSeq(c, 1, Len(c))
    <3>1. /\ 1 \in 1 .. Len(c) + 1 /\ n \in 1 - 1 .. Len(c)
          /\ Len(c) \in n .. Len(c)
      BY <1>1
    <3> QED
      BY <3>1, ConcatAdjacentSubSeq
  <2> QED
    BY <2>1, SubSeqFull DEF Drop
<1>4. /\ Len(w \o c) = Len(w) + Len(c)
      /\ \A i \in 1 .. Len(w) + Len(c) :
           (w \o c)[i] = IF i <= Len(w) THEN w[i] ELSE c[i - Len(w)]
  BY ConcatProperties
<1>5. ASSUME NEW i \in 1 .. n PROVE a[i] # Nul
  <2>1. Len(w) + i \in 1 .. Len(w) + Len(c) /\ ~(Len(w) + i <= Len(w))
        /\ Len(w) + i - Len(w) = i
    BY <1>1
  <2>2. (w \o c)[Len(w) + i] = c[i]
    BY <1>4, <2>1
  <2> QED
    BY <1>2, <1>4, <2>1, <2>2
<1>6. BeforeNul(a) = a
  <2> HIDE DEF a
  <2> QED
    BY <1>2, <1>5, NoNul
<1>7. (w \o a) \o b = w \o (a \o b)
  <2>1. a \in Seq(Byte) /\ b \in Seq(Byte) /\ w \in Seq(Byte)
    BY <1>2
  <2> HIDE DEF a, b
  <2>2. PICK t \in Seq(Byte) : t = a
    BY <2>1
  <2>3. PICK u \in Seq(Byte) : u = b
    BY <2>1
  <2>4. (w \o t) \o u = w \o (t \o u)
    BY Rejoined
  <2> QED
    BY <2>2, <2>3, <2>4
<1> QED
  BY <1>3, <1>6, <1>7

\* An ACK in front of a message.
LEMMA AckFirst ==
  ASSUME NEW e \in Seq(Byte)
  PROVE  /\ <<ACK>> \in Seq(Byte) /\ <<ACK>> # <<>>
         /\ Head(<<ACK>>) = ACK /\ Tail(<<ACK>>) = <<>>
         /\ <<ACK>> \o e # <<>>
         /\ Head(<<ACK>> \o e) = ACK /\ Tail(<<ACK>> \o e) = e
         /\ Append(<<>>, ACK) = <<ACK>>
<1>1. ACK \in Byte
  BY StreamAssumption
<1>2. <<ACK>> \in Seq(Byte) /\ Len(<<ACK>>) = 1 /\ <<ACK>>[1] = ACK
  BY <1>1
<1> DEFINE s == <<ACK>> \o e
<1>3. /\ s \in Seq(Byte) /\ Len(s) = 1 + Len(e)
      /\ \A i \in 1 .. 1 + Len(e) :
           s[i] = IF i <= 1 THEN <<ACK>>[i] ELSE e[i - 1]
  BY <1>2, ConcatProperties
<1>4. Len(e) \in Nat
  BY LenProperties
<1> HIDE DEF s
<1>5. s # <<>> /\ Head(s) = ACK
  BY <1>2, <1>3, <1>4
<1>6. Tail(s) = e
  <2>1. /\ Tail(s) \in Seq(Byte) /\ Len(Tail(s)) = Len(s) - 1
        /\ \A i \in 1 .. Len(Tail(s)) : Tail(s)[i] = s[i + 1]
    BY <1>3, <1>5, HeadTailProperties
  <2>2. Len(Tail(s)) = Len(e)
    BY <1>3, <1>4, <2>1
  <2>3. \A i \in 1 .. Len(e) : Tail(s)[i] = e[i]
    BY <1>3, <1>4, <2>1, <2>2
  <2> QED
    BY <2>1, <2>2, <2>3, SeqEqual
<1> QED
  BY <1>2, <1>5, <1>6 DEF s

-----------------------------------------------------------------------------
(* What a step of an end changes, of its own and of the other end's.       *)

\* A thread makes the step of the place where it stands.
LEMMA StepOf ==
  ASSUME NEW p \in Peer, Step(p)
  PROVE  /\ pc[p] = "idle" =>
              /\ script[p] # <<>>
              /\ \/ Current(p).op = "send" /\ BeginSend(p)
                 \/ Current(p).op = "receive" /\ BeginReceive(p)
                 \/ Current(p).op = "close" /\ CloseConnection(p)
         /\ pc[p] = "sending" => PutPiece(p) \/ SendReturns(p) \/ SendBreaks(p)
         /\ pc[p] = "getack" => GetAck(p)
         /\ pc[p] = "reading" => Read(p) \/ ReadEnd(p)
         /\ pc[p] = "peek" => Peek(p)
         /\ pc[p] = "sendack" => SendAck(p)
BY DEF Step, BeginSend, PutPiece, SendReturns, SendBreaks, GetAck, BeginReceive,
       Read, ReadEnd, Peek, SendAck, CloseConnection, CloseAfterStop, Begins, At

\* No step of an end calls shutdown().
LEMMA StepKeepsPlan ==
  ASSUME NEW p \in Peer, Step(p)
  PROVE  shut' = shut /\ plan' = plan
BY DEF Step, BeginSend, PutPiece, SendReturns, SendBreaks, GetAck, BeginReceive,
       Read, ReadEnd, Peek, SendAck, CloseConnection, CloseAfterStop, Close,
       kernel, history

LEMMA BeginSendDoes ==
  ASSUME NEW p \in Peer, NEW q \in Peer \ {p}, StreamInv, BeginSend(p)
  PROVE  /\ pc'[p] = "sending" /\ pc'[q] = pc[q] /\ script' = script
         /\ out'[p] = Encode(Current(p)) /\ out'[q] = out[q]
         /\ sent'[p] = Append(sent[p], Current(p).data) /\ sent'[q] = sent[q]
         /\ Len(sent'[p]) = Len(sent[p]) + 1
         /\ sent'[p][Len(sent'[p])] = Current(p).data
         /\ sent' = [sent EXCEPT ![p] = Append(@, Current(p).data)]
         /\ UNCHANGED <<payload, chan, open, acked, received>>
<1>1. /\ pc' = [pc EXCEPT ![p] = "sending"] /\ script' = script
      /\ out' = [out EXCEPT ![p] = Encode(Current(p))]
      /\ sent' = [sent EXCEPT ![p] = Append(@, Current(p).data)]
      /\ UNCHANGED <<payload, chan, open, acked, received>>
  BY DEF BeginSend, Goto, kernel
<1>2. Current(p).data \in Sent
  BY CurrentCall DEF StreamInv, BeginSend, Begins
<1>3. /\ pc \in [Peer -> Label] /\ out \in [Peer -> Seq(Byte)]
      /\ sent \in [Peer -> Seq(Sent)]
  BY DEF StreamInv, ThreadInv, BufferInv, HistoryInv
<1>4. /\ Len(Append(sent[p], Current(p).data)) = Len(sent[p]) + 1
      /\ Append(sent[p], Current(p).data)[Len(sent[p]) + 1] = Current(p).data
  BY <1>2, <1>3, AppendProperties
<1> QED
  BY <1>1, <1>3, <1>4

\* A message of at most a segment enters the stream at once.
LEMMA PutPieceDoes ==
  ASSUME NEW p \in Peer, StreamInv, PutPiece(p), Len(out[p]) <= Segment
  PROVE  /\ out'[p] = <<>> /\ out'[Other(p)] = out[Other(p)]
         /\ chan'[Other(p)] = chan[Other(p)] \o out[p] /\ chan'[p] = chan[p]
         /\ UNCHANGED <<script, pc, payload, open, sent, acked, received>>
<1> DEFINE q == Other(p)
<1>1. q \in Peer /\ q # p
  BY Others
<1>2. /\ out \in [Peer -> Seq(Byte)] /\ chan \in [Peer -> Seq(Byte)]
  BY DEF StreamInv, BufferInv, KernelInv
<1>3. Len(out[p]) \in Nat
  BY <1>2, LenProperties
<1>4. Least(Segment, Len(out[p])) = Len(out[p])
  BY <1>3, StreamAssumption DEF Least
<1>5. SubSeq(out[p], 1, Len(out[p])) = out[p]
  BY <1>2, SubSeqFull
<1>6. Drop(out[p], Len(out[p])) = <<>>
  BY <1>3, SubSeqEmpty DEF Drop
<1>7. /\ chan' = [chan EXCEPT ![q] = @ \o out[p]]
      /\ out' = [out EXCEPT ![p] = <<>>]
      /\ UNCHANGED <<script, pc, payload, open, sent, acked, received>>
  BY <1>4, <1>5, <1>6 DEF PutPiece, history
<1> HIDE DEF q
<1> QED
  BY <1>1, <1>2, <1>7 DEF q

\* A thread that has put its synchronous message goes on to wait for its ACK.
LEMMA SendReturnsDoes ==
  ASSUME NEW p \in Peer, NEW q \in Peer \ {p}, StreamInv, SendReturns(p),
         Current(p).sync
  PROVE  /\ pc'[p] = "getack" /\ pc'[q] = pc[q]
         /\ out'[p] = <<>> /\ out'[q] = out[q]
         /\ UNCHANGED <<script, payload, chan, open, sent, acked, received>>
<1>1. /\ pc' = [pc EXCEPT ![p] = "getack"]
      /\ out' = [out EXCEPT ![p] = <<>>]
      /\ UNCHANGED <<script, payload, chan, open, sent, acked, received>>
  BY DEF SendReturns, Goto, kernel, history
<1> QED
  BY <1>1 DEF StreamInv, ThreadInv, BufferInv

LEMMA GetAckDoes ==
  ASSUME NEW p \in Peer, NEW q \in Peer \ {p}, StreamInv, GetAck(p),
         chan[p] # <<>>, Head(chan[p]) = ACK
  PROVE  /\ pc'[p] = "idle" /\ pc'[q] = pc[q]
         /\ script'[p] = Tail(script[p]) /\ script'[q] = script[q]
         /\ chan'[p] = Tail(chan[p]) /\ chan'[q] = chan[q]
         /\ acked'[p] = acked[p] + 1 /\ acked'[q] = acked[q]
         /\ acked' = [acked EXCEPT ![p] = @ + 1]
         /\ UNCHANGED <<out, payload, open, sent, received>>
<1>1. /\ pc' = [pc EXCEPT ![p] = "idle"]
      /\ script' = [script EXCEPT ![p] = Tail(@)]
      /\ chan' = [chan EXCEPT ![p] = Tail(@)]
      /\ acked' = [acked EXCEPT ![p] = @ + 1]
      /\ UNCHANGED <<out, payload, open, sent, received>>
  BY DEF GetAck, Return, Goto
<1> QED
  BY <1>1 DEF StreamInv, ThreadInv, KernelInv, HistoryInv

LEMMA BeginReceiveDoes ==
  ASSUME NEW p \in Peer, NEW q \in Peer \ {p}, StreamInv, BeginReceive(p)
  PROVE  /\ pc'[p] = "reading" /\ pc'[q] = pc[q]
         /\ payload'[p] = <<>> /\ payload'[q] = payload[q]
         /\ UNCHANGED <<script, out, chan, open, sent, acked, received>>
<1>1. /\ pc' = [pc EXCEPT ![p] = "reading"]
      /\ payload' = [payload EXCEPT ![p] = <<>>]
      /\ UNCHANGED <<script, out, chan, open, sent, acked, received>>
  BY DEF BeginReceive, Goto, kernel, history
<1> QED
  BY <1>1 DEF StreamInv, ThreadInv, BufferInv

\* What is read moves from the stream to the payload, if it has no '\0'.
LEMMA ReadDoes ==
  ASSUME NEW p \in Peer, NEW q \in Peer \ {p}, StreamInv, Read(p),
         \A i \in 1 .. Len(payload[p] \o chan[p]) : (payload[p] \o chan[p])[i] # Nul
  PROVE  /\ pc'[p] = "peek" /\ pc'[q] = pc[q]
         /\ payload'[p] \o chan'[p] = payload[p] \o chan[p]
         /\ payload'[q] = payload[q] /\ chan'[q] = chan[q]
         /\ UNCHANGED <<script, out, open, sent, acked, received>>
<1> DEFINE n == Least(ReadMax, Len(chan[p]))
           s == payload[p] \o BeforeNul(SubSeq(chan[p], 1, n))
<1>1. /\ payload \in [Peer -> Seq(Byte)] /\ chan \in [Peer -> Seq(Byte)]
  BY DEF StreamInv, BufferInv, KernelInv
<1>2. Len(chan[p]) \in Nat /\ n \in 0 .. Len(chan[p])
  BY <1>1, StreamAssumption, LenProperties, LeastOf
<1>3. /\ pc' = [pc EXCEPT ![p] = "peek"]
      /\ payload' = [payload EXCEPT ![p] = s]
      /\ chan' = [chan EXCEPT ![p] = Drop(chan[p], n)]
      /\ UNCHANGED <<script, out, open, sent, acked, received>>
  BY DEF Read, Goto, history
<1> HIDE DEF n
<1>4. s \o Drop(chan[p], n) = payload[p] \o chan[p]
  BY <1>1, <1>2, ReadOn
<1> HIDE DEF s
<1> QED
  BY <1>1, <1>3, <1>4 DEF StreamInv, ThreadInv

\* A synchronous receive call that finds nothing more returns its payload.
LEMMA PeekDoes ==
  ASSUME NEW p \in Peer, NEW q \in Peer \ {p}, StreamInv, Peek(p), Current(p).sync
  PROVE  /\ pc'[q] = pc[q]
         /\ UNCHANGED <<script, out, payload, chan, open, sent, acked>>
         /\ IF chan[p] # <<>> THEN pc'[p] = "reading" /\ received' = received
            ELSE /\ pc'[p] = "sendack"
                 /\ received' = [received EXCEPT ![p] = Append(@, Decode(p))]
                 /\ Len(received'[p]) = Len(received[p]) + 1
                 /\ received'[q] = received[q]
<1>1. /\ pc' = [pc EXCEPT ![p] = IF chan[p] # <<>> THEN "reading" ELSE "sendack"]
      /\ UNCHANGED <<script, out, payload, chan, open, sent, acked>>
      /\ IF chan[p] # <<>> THEN received' = received ELSE Received(p)
  BY DEF Peek, Received, Goto, kernel
<1>2. chan[p] = <<>> =>
        /\ received' = [received EXCEPT ![p] = Append(@, Decode(p))]
        /\ Len(received'[p]) = Len(received[p]) + 1
        /\ received'[q] = received[q]
  BY <1>1, OneMore DEF Received, StreamInv
<1>3. pc \in [Peer -> Label]
  BY DEF StreamInv, ThreadInv
<1> QED
  BY <1>1, <1>2, <1>3

LEMMA SendAckDoes ==
  ASSUME NEW p \in Peer, StreamInv, SendAck(p), ~Gone(Other(p))
  PROVE  /\ pc'[p] = "idle" /\ pc'[Other(p)] = pc[Other(p)]
         /\ script'[p] = Tail(script[p]) /\ script'[Other(p)] = script[Other(p)]
         /\ chan'[Other(p)] = Append(chan[Other(p)], ACK) /\ chan'[p] = chan[p]
         /\ UNCHANGED <<out, payload, open, sent, acked, received>>
<1> DEFINE q == Other(p)
<1>1. q \in Peer /\ q # p
  BY Others
<1>2. /\ pc' = [pc EXCEPT ![p] = "idle"]
      /\ script' = [script EXCEPT ![p] = Tail(@)]
      /\ chan' = [chan EXCEPT ![q] = Append(@, ACK)]
      /\ UNCHANGED <<out, payload, open, sent, acked, received>>
  BY DEF SendAck, Return, Goto, history
<1> HIDE DEF q
<1> QED
  BY <1>1, <1>2 DEF StreamInv, ThreadInv, KernelInv, q

LEMMA CloseDoes ==
  ASSUME NEW p \in Peer, NEW q \in Peer \ {p}, StreamInv, CloseConnection(p)
  PROVE  /\ pc'[p] = "idle" /\ pc'[q] = pc[q]
         /\ script'[p] = Tail(script[p]) /\ script'[q] = script[q]
         /\ chan'[q] = chan[q]
         /\ UNCHANGED <<out, payload, sent, acked, received>>
<1>1. /\ pc' = [pc EXCEPT ![p] = "idle"]
      /\ script' = [script EXCEPT ![p] = Tail(@)]
      /\ chan' = [chan EXCEPT ![p] = <<>>]
      /\ UNCHANGED <<out, payload, sent, acked, received>>
  BY DEF CloseConnection, Close, Return, Goto, history
<1> QED
  BY <1>1 DEF StreamInv, ThreadInv, KernelInv

-----------------------------------------------------------------------------
(* The turns: each step leads from one to the next, and is a step of the    *)
(* exchange of whole messages or leaves it alone.                          *)

Exchange == INSTANCE Rendezvous

Turns == \E p \in Peer : Turn(p, Other(p))
Onward == Turns' /\ [Exchange!Next]_Exchange!vars

LEMMA Counts ==
  ASSUME NEW p \in Peer, StreamInv
  PROVE  acked[p] \in Nat /\ Len(sent[p]) \in Nat /\ Len(received[p]) \in Nat
<1>1. PICK S : received \in [Peer -> Seq(S)]
  BY DEF StreamInv, HistoryInv
<1> QED
  BY <1>1, LenProperties DEF StreamInv, HistoryInv

LEMMA InStepFacts ==
  ASSUME NEW p \in Peer, NEW q \in Peer, StreamInv, InStep(p, q)
  PROVE  /\ script[p] # <<>> /\ Current(p).op = "send" /\ Current(p).sync
         /\ script[q] # <<>> /\ Current(q).op = "receive" /\ Current(q).sync
         /\ Carried(Current(p)) /\ Current(p).vector = Current(q).vector
         /\ Together(Tail(script[p]), Tail(script[q]))
<1>1. script[p] \in Seq(Call) /\ script[q] \in Seq(Call)
  BY DEF StreamInv, ThreadInv
<1>2. Current(p).op = "send"
  BY DEF InStep, Matches
<1> QED
  BY <1>1, <1>2, FirstCalls DEF InStep, Matches, Current

LEMMA ApartFacts ==
  ASSUME NEW p \in Peer, NEW q \in Peer, StreamInv,
         script[p] # <<>>, Together(Tail(script[p]), script[q])
  PROVE  /\ script[q] # <<>>
         /\ \/ /\ Upcoming(p).op = "close" /\ Current(q).op = "close"
               /\ Tail(Tail(script[p])) = <<>> /\ Tail(script[q]) = <<>>
            \/ Matches(Upcoming(p), Current(q))
            \/ Matches(Current(q), Upcoming(p))
<1>1. Tail(script[p]) \in Seq(Call) /\ script[q] \in Seq(Call)
  BY HeadTailProperties DEF StreamInv, ThreadInv
<1> QED
  BY <1>1, FirstCalls DEF Upcoming, Current

\* A sender that has put its message can only wait for its ACK.
LEMMA PutSteps ==
  ASSUME NEW p \in Peer, NEW q \in Peer \ {p}, StreamInv, Put(p), Current(p).sync,
         Step(p)
  PROVE  \/ /\ Put(p)' /\ pc'[q] = pc[q] /\ out'[q] = out[q]
            /\ UNCHANGED <<script, payload, chan, open, sent, acked, received>>
         \/ GetAck(p)
<1>1. SendReturns(p) \/ GetAck(p)
  BY StepOf DEF Put, At, PutPiece, SendBreaks
<1>2. ASSUME SendReturns(p)
      PROVE  /\ Put(p)' /\ pc'[q] = pc[q] /\ out'[q] = out[q]
             /\ UNCHANGED <<script, payload, chan, open, sent, acked, received>>
  BY <1>2, SendReturnsDoes DEF Put, At
<1> QED
  BY <1>1, <1>2

\* A receiver to which nothing has come can only begin to wait.
LEMMA WaitSteps ==
  ASSUME NEW q \in Peer, StreamInv, Waits(q), Current(q).op = "receive",
         chan[q] = <<>>, ~Gone(Other(q)), Step(q)
  PROVE  BeginReceive(q)
BY StepOf DEF Waits, At, Read, ReadEnd

LEMMA FromFresh ==
  ASSUME NEW p \in Peer, NEW q \in Peer, q = Other(p), StreamInv, ~shut,
         Fresh(p, q), Step(p) \/ Step(q)
  PROVE  Onward
<1>1. q # p /\ Other(q) = p
  BY Others
<1>2. /\ Current(p).op = "send" /\ Carried(Current(p)) /\ Current(q).op = "receive"
      /\ script[p] # <<>> /\ InStep(p, q)
  BY InStepFacts DEF Fresh
<1>3. Len(sent[p]) \in Nat /\ acked[p] \in Nat
  BY Counts
<1>4. CASE Step(p)
  <2>1. BeginSend(p)
    BY <1>2, <1>4, StepOf DEF Fresh, At
  <2>2. Begun(p, q)'
    BY <1>1, <1>2, <1>3, <2>1, BeginSendDoes
    DEF Fresh, Begun, InStep, Waits, Quiet, Asked, At, Current
  <2>3. Exchange!Offer(p)
    <3>1. Current(p).data \in Message
      BY <1>2 DEF Carried
    <3> QED
      BY <1>1, <2>1, <3>1, BeginSendDoes
      DEF Fresh, Quiet, Exchange!Offer, Exchange!Delivered, Exchange!Other, Other
  <2> QED
    BY <2>2, <2>3 DEF Onward, Turns, Turn, Exchange!Next
<1>5. CASE Step(q)
  <2>1. BeginReceive(q)
    BY <1>1, <1>2, <1>5, WaitSteps DEF Fresh, InStep, Gone
  <2>2. Fresh(p, q)'
    BY <1>1, <2>1, BeginReceiveDoes
    DEF Fresh, InStep, Waits, Quiet, At, Current
  <2>3. UNCHANGED Exchange!vars
    BY <1>1, <2>1, BeginReceiveDoes DEF Exchange!vars
  <2> QED
    BY <2>2, <2>3 DEF Onward, Turns, Turn
<1> QED
  BY <1>4, <1>5

LEMMA FromBegun ==
  ASSUME NEW p \in Peer, NEW q \in Peer, q = Other(p), StreamInv, ~shut,
         Begun(p, q), Step(p) \/ Step(q)
  PROVE  Onward
<1>1. q # p /\ Other(q) = p
  BY Others
<1>2. /\ Carried(Current(p)) /\ Current(q).op = "receive" /\ InStep(p, q)
  BY InStepFacts DEF Begun
<1>3. /\ out[p] \in Seq(Byte) /\ out[p] # <<>> /\ Len(out[p]) <= Segment
      /\ out[p] = Encode(Current(p))
  BY <1>2, CarriedBytes DEF Begun
<1>4. CASE Step(p)
  <2>1. PutPiece(p)
    BY <1>2, <1>3, <1>4, StepOf
    DEF Begun, At, InStep, Gone, SendReturns, SendBreaks
  <2>2. /\ out'[p] = <<>> /\ chan'[q] = out[p] /\ chan'[p] = chan[p]
        /\ UNCHANGED <<script, pc, payload, open, sent, acked, received>>
    <3>1. <<>> \o out[p] = out[p]
      BY <1>3, ConcatEmptySeq
    <3> QED
      BY <1>3, <2>1, <3>1, PutPieceDoes DEF Begun
  <2>3. UnderWay(p, q)'
    <3>1. Takes(q, Encode(Current(p)))'
      <4>1. <<>> \o out[p] = out[p]
        BY <1>3, ConcatEmptySeq
      <4> QED
        BY <1>3, <2>2, <4>1 DEF Begun, Waits, Takes, At, Current
    <3>2. Put(p)'
      BY <2>2 DEF Begun, Put, At
    <3> QED
      BY <1>2, <2>2, <3>1, <3>2
      DEF Begun, UnderWay, InStep, Quiet, Asked, Current
  <2>4. UNCHANGED Exchange!vars
    BY <2>2 DEF Exchange!vars
  <2> QED
    BY <2>3, <2>4 DEF Onward, Turns, Turn
<1>5. CASE Step(q)
  <2>1. BeginReceive(q)
    BY <1>1, <1>2, <1>5, WaitSteps DEF Begun, InStep, Gone
  <2>2. Begun(p, q)'
    BY <1>1, <2>1, BeginReceiveDoes
    DEF Begun, InStep, Waits, Quiet, Asked, At, Current
  <2>3. UNCHANGED Exchange!vars
    BY <1>1, <2>1, BeginReceiveDoes DEF Exchange!vars
  <2> QED
    BY <2>2, <2>3 DEF Onward, Turns, Turn
<1> QED
  BY <1>4, <1>5

LEMMA FromUnderWay ==
  ASSUME NEW p \in Peer, NEW q \in Peer, q = Other(p), StreamInv, ~shut,
         UnderWay(p, q), Step(p) \/ Step(q)
  PROVE  Onward
<1> PICK e : e = Encode(Current(p))
  OBVIOUS
<1>1. q # p /\ Other(q) = p
  BY Others
<1>2. /\ Carried(Current(p)) /\ Current(p).sync
      /\ Current(q).op = "receive" /\ Current(q).sync
      /\ Current(p).vector = Current(q).vector /\ InStep(p, q)
  BY InStepFacts DEF UnderWay
<1>3. e \in Seq(Byte) /\ \A i \in 1 .. Len(e) : e[i] # Nul
  BY <1>2, CarriedBytes
<1>4. payload[q] \in Seq(Byte) /\ chan[q] \in Seq(Byte)
  BY DEF StreamInv, BufferInv, KernelInv
<1>5. ~Gone(p) /\ ~Gone(q)
  BY <1>2 DEF InStep, Gone
<1>6. CASE Step(p)
  <2>1. ~GetAck(p)
    BY <1>5 DEF UnderWay, GetAck
  <2>2. /\ Put(p)' /\ pc'[q] = pc[q] /\ out'[q] = out[q]
        /\ UNCHANGED <<script, payload, chan, open, sent, acked, received>>
    BY <1>1, <1>2, <1>6, <2>1, PutSteps DEF UnderWay
  <2>3. UnderWay(p, q)'
    BY <2>2 DEF UnderWay, InStep, Takes, At, Quiet, Asked, Current
  <2>4. UNCHANGED Exchange!vars
    BY <2>2 DEF Exchange!vars
  <2> QED
    BY <2>3, <2>4 DEF Onward, Turns, Turn
<1>7. ASSUME Step(q), Takes(q, e)', pc'[p] = pc[p], chan'[p] = chan[p],
             UNCHANGED <<script, out, open, sent, acked, received>>
      PROVE  Onward
  <2>1. UnderWay(p, q)'
    BY <1>2, <1>7 DEF UnderWay, InStep, Put, At, Quiet, Asked, Current
  <2>2. UNCHANGED Exchange!vars
    BY <1>7 DEF Exchange!vars
  <2> QED
    BY <2>1, <2>2 DEF Onward, Turns, Turn
<1>8. CASE Step(q) /\ At(q, "idle")
  <2>1. BeginReceive(q)
    BY <1>2, <1>8, StepOf DEF At
  <2>2. chan[q] = e
    BY <1>8 DEF UnderWay, Takes, At
  <2>3. <<>> \o e = e
    BY <1>3, ConcatEmptySeq
  <2>4. Takes(q, e)'
    BY <1>1, <2>1, <2>2, <2>3, BeginReceiveDoes DEF Takes, At
  <2> QED
    BY <1>1, <1>7, <1>8, <2>1, <2>4, BeginReceiveDoes
<1>9. CASE Step(q) /\ At(q, "reading")
  <2>1. Read(q)
    BY <1>1, <1>5, <1>9, StepOf DEF At, ReadEnd
  <2>2. payload[q] \o chan[q] = e
    BY <1>9 DEF UnderWay, Takes, At
  <2>3. /\ pc'[q] = "peek" /\ pc'[p] = pc[p]
        /\ payload'[q] \o chan'[q] = e /\ chan'[p] = chan[p]
        /\ UNCHANGED <<script, out, open, sent, acked, received>>
    BY <1>1, <1>3, <2>1, <2>2, ReadDoes
  <2>4. Takes(q, e)'
    BY <2>3 DEF Takes, At
  <2> QED
    BY <1>7, <1>9, <2>3, <2>4
<1>10. CASE Step(q) /\ At(q, "peek")
  <2>1. Peek(q) /\ payload[q] \o chan[q] = e
    BY <1>10, StepOf DEF At, UnderWay, Takes
  <2>2. CASE chan[q] # <<>>
    <3>1. Takes(q, e)'
      BY <1>1, <1>2, <2>1, <2>2, PeekDoes DEF Takes, At
    <3> QED
      BY <1>1, <1>2, <1>7, <1>10, <2>1, <2>2, <3>1, PeekDoes
  <2>3. CASE chan[q] = <<>>
    <3>1. /\ pc'[p] = pc[p] /\ pc'[q] = "sendack"
          /\ UNCHANGED <<script, out, payload, chan, open, sent, acked>>
          /\ received' = [received EXCEPT ![q] = Append(@, Decode(q))]
          /\ Len(received'[q]) = Len(received[q]) + 1
          /\ received'[p] = received[p]
      BY <1>1, <1>2, <2>1, <2>3, PeekDoes
    <3>2. payload[q] = e
      BY <1>4, <2>1, <2>3, ConcatEmptySeq
    <3>3. Decode(q) = Current(p).data
      BY <1>2, <3>2 DEF Decode, Carried, Encode
    <3>4. /\ acked[p] + 1 = Len(sent[p]) /\ Len(received[q]) = acked[p]
          /\ sent[p][Len(sent[p])] = Current(p).data
          /\ acked[p] \in Nat
      BY Counts DEF UnderWay, Asked
    <3>5. Answering(p, q)'
      BY <1>2, <2>3, <3>1, <3>4
      DEF UnderWay, Answering, InStep, Put, At, Quiet, Heard, Current
    <3>6. Exchange!Deliver(p)
      <4>1. /\ Len(received[q]) + 1 = Len(sent[p]) /\ Len(received[q]) # Len(sent[p])
            /\ Decode(q) = sent[p][Len(received[q]) + 1]
        BY <3>3, <3>4
      <4>2. Exchange!Other(p) = q
        BY DEF Exchange!Other, Other
      <4> QED
        BY <3>1, <4>1, <4>2 DEF Exchange!Deliver, Exchange!Delivered
    <3> QED
      BY <3>5, <3>6 DEF Onward, Turns, Turn, Exchange!Next
  <2> QED
    BY <2>2, <2>3
<1> QED
  BY <1>6, <1>8, <1>9, <1>10 DEF UnderWay, Takes

LEMMA FromAnswering ==
  ASSUME NEW p \in Peer, NEW q \in Peer, q = Other(p), StreamInv, ~shut,
         Answering(p, q), Step(p) \/ Step(q)
  PROVE  Onward
<1>1. q # p /\ Other(q) = p
  BY Others
<1>2. /\ script[p] # <<>> /\ Current(p).op = "send" /\ Current(p).sync /\ InStep(p, q)
      /\ Together(Tail(script[p]), Tail(script[q]))
  BY InStepFacts DEF Answering
<1>3. ~Gone(p) /\ ~Gone(q)
  BY <1>2 DEF InStep, Gone
<1>4. CASE Step(p)
  <2>1. ~GetAck(p)
    BY <1>3 DEF Answering, GetAck
  <2>2. /\ Put(p)' /\ pc'[q] = pc[q] /\ out'[q] = out[q]
        /\ UNCHANGED <<script, payload, chan, open, sent, acked, received>>
    BY <1>1, <1>2, <1>4, <2>1, PutSteps DEF Answering
  <2>3. Answering(p, q)'
    BY <2>2 DEF Answering, InStep, At, Quiet, Heard, Current
  <2>4. UNCHANGED Exchange!vars
    BY <2>2 DEF Exchange!vars
  <2> QED
    BY <2>3, <2>4 DEF Onward, Turns, Turn
<1>5. CASE Step(q)
  <2>1. SendAck(q)
    BY <1>5, StepOf DEF Answering, At
  <2>2. /\ pc'[q] = "idle" /\ pc'[p] = pc[p]
        /\ script'[q] = Tail(script[q]) /\ script'[p] = script[p]
        /\ chan'[p] = Append(chan[p], ACK) /\ chan'[q] = chan[q]
        /\ UNCHANGED <<out, payload, open, sent, acked, received>>
    BY <1>1, <1>3, <2>1, SendAckDoes
  <2>3. chan'[p] = <<ACK>>
    BY <2>2, EmptySeq, AckFirst DEF Answering
  <2>4. Answered(p, q)'
    BY <1>2, <2>2, <2>3
    DEF Answering, Answered, Apart, Behind, InStep, Put, At, Quiet, Heard, Current
  <2>5. UNCHANGED Exchange!vars
    BY <2>2 DEF Exchange!vars
  <2> QED
    BY <2>4, <2>5 DEF Onward, Turns, Turn
<1> QED
  BY <1>4, <1>5

\* The ACK at the head of the stream ends the sender's call.
LEMMA AckTaken ==
  ASSUME NEW p \in Peer, NEW q \in Peer, q = Other(p), StreamInv,
         Behind(p, q), GetAck(p), NEW e \in Seq(Byte), chan[p] = <<ACK>> \o e
  PROVE  /\ pc'[p] = "idle" /\ pc'[q] = pc[q]
         /\ script'[p] = Tail(script[p]) /\ script'[q] = script[q]
         /\ chan'[p] = e /\ chan'[q] = chan[q]
         /\ acked'[p] = acked[p] + 1 /\ acked'[q] = acked[q]
         /\ UNCHANGED <<out, payload, open, sent, received>>
         /\ Quiet(p, q)'
         /\ Exchange!Next
<1>1. q \in Peer \ {p}
  BY Others
<1>2. chan[p] # <<>> /\ Head(chan[p]) = ACK /\ Tail(chan[p]) = e
  BY AckFirst
<1>3. /\ pc'[p] = "idle" /\ pc'[q] = pc[q]
      /\ script'[p] = Tail(script[p]) /\ script'[q] = script[q]
      /\ chan'[p] = e /\ chan'[q] = chan[q]
      /\ acked'[p] = acked[p] + 1 /\ acked'[q] = acked[q]
      /\ acked' = [acked EXCEPT ![p] = @ + 1]
      /\ UNCHANGED <<out, payload, open, sent, received>>
  <2>1. chan[p] # <<>> /\ Head(chan[p]) = ACK
    BY <1>2
  <2>2. chan'[p] = Tail(chan[p])
    BY <1>1, <2>1, GetAckDoes
  <2>3. /\ pc'[p] = "idle" /\ pc'[q] = pc[q]
        /\ script'[p] = Tail(script[p]) /\ script'[q] = script[q]
        /\ chan'[q] = chan[q]
        /\ acked'[p] = acked[p] + 1 /\ acked'[q] = acked[q]
        /\ acked' = [acked EXCEPT ![p] = @ + 1]
        /\ UNCHANGED <<out, payload, open, sent, received>>
    BY <1>1, <2>1, GetAckDoes
  <2> QED
    BY <1>2, <2>2, <2>3
<1>4. acked[p] + 1 = Len(sent[p]) /\ Len(received[q]) = Len(sent[p])
      /\ acked[p] \in Nat
  BY Counts DEF Behind, Heard
<1>5. Quiet(p, q)'
  BY <1>3, <1>4 DEF Quiet
<1>6. Exchange!Acknowledge(p)
  BY <1>3, <1>4 DEF Exchange!Acknowledge, Exchange!Other, Other
<1> QED
  BY <1>3, <1>5, <1>6 DEF Exchange!Next

LEMMA FromAnswered ==
  ASSUME NEW p \in Peer, NEW q \in Peer, q = Other(p), StreamInv, ~shut,
         Answered(p, q), Step(p) \/ Step(q)
  PROVE  Onward
<1>1. q # p /\ Other(q) = p /\ Other(p) = q
  BY Others
<1>2. /\ Behind(p, q) /\ Together(Tail(script[p]), script[q])
      /\ open[p] /\ open[q] /\ chan[q] = <<>> /\ chan[p] = <<ACK>> /\ Quiet(q, p)
  BY DEF Answered, Apart
<1>3. /\ script[q] # <<>>
      /\ \/ /\ Upcoming(p).op = "close" /\ Current(q).op = "close"
            /\ Tail(Tail(script[p])) = <<>> /\ Tail(script[q]) = <<>>
         \/ Matches(Upcoming(p), Current(q))
         \/ Matches(Current(q), Upcoming(p))
  BY <1>2, ApartFacts DEF Behind
<1>4. At(q, "reading") => Current(q).op = "receive"
  BY DEF Answered, Matches, At
<1>5. ~Gone(p)
  BY <1>2 DEF Gone
<1>6. CASE Step(p) /\ ~GetAck(p)
  <2>1. /\ Put(p)' /\ pc'[q] = pc[q]
        /\ UNCHANGED <<script, payload, chan, open, sent, acked, received>>
    BY <1>1, <1>2, <1>6, PutSteps DEF Behind
  <2>2. Answered(p, q)'
    BY <2>1
    DEF Answered, Apart, Behind, At, Quiet, Heard, Current, Upcoming
  <2>3. UNCHANGED Exchange!vars
    BY <2>1 DEF Exchange!vars
  <2> QED
    BY <2>2, <2>3 DEF Onward, Turns, Turn
<1>7. CASE GetAck(p)
  <2>1. <<>> \in Seq(Byte) /\ chan[p] = <<ACK>> \o <<>>
    BY <1>2, EmptySeq, AckFirst, ConcatEmptySeq
  <2>2. /\ pc'[p] = "idle" /\ pc'[q] = pc[q]
        /\ script'[p] = Tail(script[p]) /\ script'[q] = script[q]
        /\ chan'[p] = <<>> /\ chan'[q] = chan[q]
        /\ acked'[q] = acked[q]
        /\ UNCHANGED <<out, payload, open, sent, received>>
        /\ Quiet(p, q)' /\ Exchange!Next
    BY <1>2, <1>7, <2>1, AckTaken
  <2>3. Current(p)' = Upcoming(p) /\ Current(q)' = Current(q) /\ Quiet(q, p)'
    BY <1>2, <2>2 DEF Current, Upcoming, Quiet
  <2>4. CASE Upcoming(p).op = "close" /\ Current(q).op = "close"
             /\ Tail(Tail(script[p])) = <<>> /\ Tail(script[q]) = <<>>
    <3>1. Done(p, q)'
      BY <1>4, <2>2, <2>3, <2>4 DEF Done, Closes, At, Answered
    <3> QED
      BY <2>2, <3>1 DEF Onward, Turns, Turn
  <2>5. CASE Matches(Upcoming(p), Current(q))
    <3>1. Fresh(p, q)'
      BY <1>2, <2>2, <2>3, <2>5 DEF Fresh, InStep, Waits, At, Answered
    <3> QED
      BY <2>2, <3>1 DEF Onward, Turns, Turn
  <2>6. CASE Matches(Current(q), Upcoming(p))
    <3>1. Together(script[q], Tail(script[p]))
      BY <1>2, Together2
    <3>2. At(q, "idle")
      BY <1>4, <2>6 DEF Answered, Matches
    <3>3. Fresh(q, p)'
      BY <1>2, <2>2, <2>3, <2>6, <3>1, <3>2 DEF Fresh, InStep, Waits, At
    <3> QED
      BY <1>1, <2>2, <3>3 DEF Onward, Turns, Turn
  <2> QED
    BY <1>3, <2>4, <2>5, <2>6
<1>8. CASE Step(q) /\ At(q, "reading")
  BY <1>1, <1>2, <1>5, <1>8, StepOf DEF At, Read, ReadEnd
<1>9. CASE Step(q) /\ At(q, "idle")
  <2>1. \/ Current(q).op = "send" /\ BeginSend(q)
        \/ Current(q).op = "receive" /\ BeginReceive(q)
        \/ Current(q).op = "close" /\ CloseConnection(q)
    BY <1>9, StepOf DEF At
  <2>2. CASE Current(q).op = "send" /\ BeginSend(q)
    <3>1. Matches(Current(q), Upcoming(p))
      BY <1>3, <2>2 DEF Matches
    <3>2. acked[q] = Len(sent[q]) /\ Len(received[p]) = Len(sent[q])
          /\ Len(sent[q]) \in Nat /\ Len(received[q]) = Len(sent[p])
      BY <1>2, Counts DEF Quiet, Behind, Heard
    <3>3. Overtaking(p, q)'
      <4>1. /\ pc'[q] = "sending" /\ pc'[p] = pc[p] /\ script' = script
            /\ out'[q] = Encode(Current(q)) /\ out'[p] = out[p]
            /\ sent'[p] = sent[p] /\ Len(sent'[q]) = Len(sent[q]) + 1
            /\ sent'[q][Len(sent'[q])] = Current(q).data
            /\ UNCHANGED <<payload, chan, open, acked, received>>
        BY <1>1, <2>2, BeginSendDoes
      <4>2. Asked(q, p)'
        BY <3>2, <4>1 DEF Asked, Current
      <4>3. Behind(p, q)'
        BY <1>2, <4>1 DEF Behind, Put, At, Heard, Current
      <4> QED
        BY <1>2, <3>1, <4>1, <4>2, <4>3
        DEF Overtaking, Apart, At, Current, Upcoming
    <3>4. Exchange!Offer(q)
      <4>1. Current(q).data \in Message
        BY <3>1 DEF Matches, Carried
      <4>2. Exchange!Other(p) = q /\ Exchange!Other(q) = p
        BY <1>1 DEF Exchange!Other, Other
      <4>3. sent' = [sent EXCEPT ![q] = Append(@, Current(q).data)]
            /\ UNCHANGED <<acked, received>>
        BY <1>1, <2>2, BeginSendDoes
      <4> QED
        BY <3>2, <4>1, <4>2, <4>3 DEF Exchange!Offer, Exchange!Delivered
    <3> QED
      BY <3>3, <3>4 DEF Onward, Turns, Turn, Exchange!Next
  <2>3. CASE Current(q).op = "receive" /\ BeginReceive(q)
    <3>1. Matches(Upcoming(p), Current(q))
      BY <1>3, <2>3 DEF Matches
    <3>2. Answered(p, q)'
      BY <1>1, <1>2, <2>3, <3>1, BeginReceiveDoes
      DEF Answered, Apart, Behind, Put, At, Quiet, Heard, Current, Upcoming
    <3>3. UNCHANGED Exchange!vars
      BY <1>1, <2>3, BeginReceiveDoes DEF Exchange!vars
    <3> QED
      BY <3>2, <3>3 DEF Onward, Turns, Turn
  <2>4. CASE Current(q).op = "close" /\ CloseConnection(q)
    <3>1. Upcoming(p).op = "close" /\ Tail(Tail(script[p])) = <<>>
          /\ Tail(script[q]) = <<>>
      BY <1>3, <2>4 DEF Matches
    <3>2. Left(p, q)'
      BY <1>1, <1>2, <2>4, <3>1, CloseDoes
      DEF Left, Behind, Put, At, Heard, Quiet, Current, Upcoming
    <3>3. UNCHANGED Exchange!vars
      BY <1>1, <2>4, CloseDoes DEF Exchange!vars
    <3> QED
      BY <3>2, <3>3 DEF Onward, Turns, Turn
  <2> QED
    BY <2>1, <2>2, <2>3, <2>4
<1> QED
  BY <1>6, <1>7, <1>8, <1>9 DEF Answered

LEMMA FromOvertaking ==
  ASSUME NEW p \in Peer, NEW q \in Peer, q = Other(p), StreamInv, ~shut,
         Overtaking(p, q), Step(p) \/ Step(q)
  PROVE  Onward
<1>1. q # p /\ Other(q) = p /\ Other(p) = q
  BY Others
<1>2. /\ Behind(p, q) /\ Together(Tail(script[p]), script[q])
      /\ open[p] /\ open[q] /\ chan[q] = <<>> /\ chan[p] = <<ACK>>
      /\ Matches(Current(q), Upcoming(p)) /\ Asked(q, p)
      /\ pc[q] = "sending" /\ out[q] = Encode(Current(q))
  BY DEF Overtaking, Apart, At
<1>3. /\ out[q] \in Seq(Byte) /\ out[q] # <<>> /\ Len(out[q]) <= Segment
  BY <1>2, CarriedBytes DEF Matches
<1>4. ~Gone(p)
  BY <1>2 DEF Gone
<1>5. CASE Step(p) /\ ~GetAck(p)
  <2>1. /\ Put(p)' /\ pc'[q] = pc[q] /\ out'[q] = out[q]
        /\ UNCHANGED <<script, payload, chan, open, sent, acked, received>>
    BY <1>1, <1>2, <1>5, PutSteps DEF Behind
  <2>2. Overtaking(p, q)'
    BY <1>2, <2>1
    DEF Overtaking, Apart, Behind, At, Asked, Heard, Current, Upcoming
  <2>3. UNCHANGED Exchange!vars
    BY <2>1 DEF Exchange!vars
  <2> QED
    BY <2>2, <2>3 DEF Onward, Turns, Turn
<1>6. CASE GetAck(p)
  <2>1. <<>> \in Seq(Byte) /\ chan[p] = <<ACK>> \o <<>>
    BY <1>2, EmptySeq, AckFirst, ConcatEmptySeq
  <2>2. /\ pc'[p] = "idle" /\ pc'[q] = pc[q]
        /\ script'[p] = Tail(script[p]) /\ script'[q] = script[q]
        /\ chan'[p] = <<>> /\ chan'[q] = chan[q]
        /\ acked'[q] = acked[q]
        /\ UNCHANGED <<out, payload, open, sent, received>>
        /\ Quiet(p, q)' /\ Exchange!Next
    BY <1>2, <1>6, <2>1, AckTaken
  <2>3. Together(script[q], Tail(script[p]))
    BY <1>2, Together2
  <2>4. Begun(q, p)'
    BY <1>2, <2>2, <2>3 DEF Begun, InStep, Waits, At, Asked, Current, Upcoming
  <2> QED
    BY <1>1, <2>2, <2>4 DEF Onward, Turns, Turn
<1>7. CASE Step(q)
  <2>1. PutPiece(q)
    BY <1>1, <1>2, <1>3, <1>4, <1>7, StepOf DEF SendReturns, SendBreaks
  <2>2. /\ out'[q] = <<>> /\ chan'[p] = chan[p] \o out[q] /\ chan'[q] = chan[q]
        /\ UNCHANGED <<script, pc, payload, open, sent, acked, received>>
        /\ out'[p] = out[p]
    BY <1>1, <1>3, <2>1, PutPieceDoes
  <2>3. Overtaken(p, q)'
    BY <1>2, <2>2
    DEF Overtaken, Apart, Behind, Put, At, Asked, Heard, Current, Upcoming
  <2>4. UNCHANGED Exchange!vars
    BY <2>2 DEF Exchange!vars
  <2> QED
    BY <2>3, <2>4 DEF Onward, Turns, Turn
<1> QED
  BY <1>5, <1>6, <1>7

LEMMA FromOvertaken ==
  ASSUME NEW p \in Peer, NEW q \in Peer, q = Other(p), StreamInv, ~shut,
         Overtaken(p, q), Step(p) \/ Step(q)
  PROVE  Onward
<1>1. q # p /\ Other(q) = p /\ Other(p) = q
  BY Others
<1>2. /\ Behind(p, q) /\ Together(Tail(script[p]), script[q])
      /\ open[p] /\ open[q] /\ chan[q] = <<>>
      /\ chan[p] = <<ACK>> \o Encode(Current(q))
      /\ Matches(Current(q), Upcoming(p)) /\ Asked(q, p) /\ Put(q)
  BY DEF Overtaken, Apart
<1>3. Encode(Current(q)) \in Seq(Byte) /\ Current(q).sync
  BY <1>2, CarriedBytes DEF Matches
<1>4. ~Gone(p)
  BY <1>2 DEF Gone
<1>5. CASE Step(p) /\ ~GetAck(p)
  <2>1. /\ Put(p)' /\ pc'[q] = pc[q] /\ out'[q] = out[q]
        /\ UNCHANGED <<script, payload, chan, open, sent, acked, received>>
    BY <1>1, <1>2, <1>5, PutSteps DEF Behind
  <2>2. Overtaken(p, q)'
    BY <1>2, <2>1
    DEF Overtaken, Apart, Behind, Put, At, Asked, Heard, Current, Upcoming
  <2>3. UNCHANGED Exchange!vars
    BY <2>1 DEF Exchange!vars
  <2> QED
    BY <2>2, <2>3 DEF Onward, Turns, Turn
<1>6. CASE GetAck(p)
  <2> PICK e : e = Encode(Current(q))
    OBVIOUS
  <2>1. e \in Seq(Byte) /\ chan[p] = <<ACK>> \o e
    BY <1>2, <1>3
  <2>2. /\ pc'[p] = "idle" /\ pc'[q] = pc[q]
        /\ script'[p] = Tail(script[p]) /\ script'[q] = script[q]
        /\ chan'[p] = e /\ chan'[q] = chan[q]
        /\ acked'[q] = acked[q]
        /\ UNCHANGED <<out, payload, open, sent, received>>
        /\ Quiet(p, q)' /\ Exchange!Next
    BY <1>2, <1>6, <2>1, AckTaken
  <2>3. Together(script[q], Tail(script[p]))
    BY <1>2, Together2
  <2>4. Takes(p, Encode(Current(q)))'
    BY <2>2 DEF Takes, At, Current
  <2>5. UnderWay(q, p)'
    BY <1>2, <2>2, <2>3, <2>4
    DEF UnderWay, InStep, Put, At, Asked, Current, Upcoming
  <2> QED
    BY <1>1, <2>2, <2>5 DEF Onward, Turns, Turn
<1>7. CASE Step(q)
  <2>1. ~GetAck(q)
    BY <1>1, <1>2, <1>4 DEF GetAck
  <2>2. /\ Put(q)' /\ pc'[p] = pc[p] /\ out'[p] = out[p]
        /\ UNCHANGED <<script, payload, chan, open, sent, acked, received>>
    BY <1>1, <1>2, <1>3, <1>7, <2>1, PutSteps
  <2>3. Overtaken(p, q)'
    BY <1>2, <2>2
    DEF Overtaken, Apart, Behind, Put, At, Asked, Heard, Current, Upcoming
  <2>4. UNCHANGED Exchange!vars
    BY <2>2 DEF Exchange!vars
  <2> QED
    BY <2>3, <2>4 DEF Onward, Turns, Turn
<1> QED
  BY <1>5, <1>6, <1>7

\* The last ACK arrives although its sender has closed.
LEMMA FromLeft ==
  ASSUME NEW p \in Peer, NEW q \in Peer, q = Other(p), StreamInv,
         Left(p, q), Step(p) \/ Step(q)
  PROVE  Onward
<1>1. q # p
  BY Others
<1>2. ~Step(q)
  BY StepOf DEF Left, At
<1>3. CASE Step(p) /\ ~GetAck(p)
  <2>1. /\ Put(p)' /\ pc'[q] = pc[q]
        /\ UNCHANGED <<script, payload, chan, open, sent, acked, received>>
    BY <1>1, <1>3, PutSteps DEF Left, Behind
  <2>2. Left(p, q)'
    BY <2>1 DEF Left, Behind, At, Heard, Quiet, Current, Upcoming
  <2>3. UNCHANGED Exchange!vars
    BY <2>1 DEF Exchange!vars
  <2> QED
    BY <2>2, <2>3 DEF Onward, Turns, Turn
<1>4. CASE GetAck(p)
  <2>1. <<>> \in Seq(Byte) /\ chan[p] = <<ACK>> \o <<>>
    BY EmptySeq, AckFirst, ConcatEmptySeq DEF Left
  <2>2. /\ pc'[p] = "idle" /\ pc'[q] = pc[q]
        /\ script'[p] = Tail(script[p]) /\ script'[q] = script[q]
        /\ acked'[q] = acked[q] /\ UNCHANGED <<sent, received>>
        /\ Quiet(p, q)' /\ Exchange!Next
    BY <1>4, <2>1, AckTaken DEF Left
  <2>3. Done(p, q)'
    BY <2>2 DEF Left, Done, Closes, At, Quiet, Current, Upcoming
  <2> QED
    BY <2>2, <2>3 DEF Onward, Turns, Turn
<1> QED
  BY <1>2, <1>3, <1>4

LEMMA FromDone ==
  ASSUME NEW p \in Peer, NEW q \in Peer, q = Other(p), StreamInv,
         Done(p, q), NEW r \in {p, q}, Step(r)
  PROVE  Onward
<1>1. q # p /\ r \in Peer
  BY Others
<1>2. CloseConnection(r) /\ script[r] # <<>>
  BY <1>1, StepOf DEF Done, Closes, At
<1>3. /\ pc'[r] = "idle" /\ script'[r] = <<>>
      /\ \A s \in {p, q} : s # r => pc'[s] = pc[s] /\ script'[s] = script[s]
      /\ UNCHANGED <<sent, acked, received>>
  <2>1. PICK o \in Peer \ {r} : o \in {p, q} /\ \A s \in {p, q} : s # r => s = o
    BY <1>1
  <2>2. Tail(script[r]) = <<>>
    BY <1>2 DEF Done, Closes
  <2>3. /\ pc'[r] = "idle" /\ pc'[o] = pc[o]
        /\ script'[r] = Tail(script[r]) /\ script'[o] = script[o]
        /\ UNCHANGED <<sent, acked, received>>
    BY <1>1, <1>2, CloseDoes
  <2> QED
    BY <2>1, <2>2, <2>3
<1>4. Done(p, q)'
  BY <1>3 DEF Done, Closes, At, Quiet, Current
<1>5. UNCHANGED Exchange!vars
  BY <1>3 DEF Exchange!vars
<1> QED
  BY <1>4, <1>5 DEF Onward, Turns, Turn

\* While the ends take turns, no step leaves the turns.
LEMMA StepOnward ==
  ASSUME StreamInv, Turns, ~shut, NEW r \in Peer, Step(r)
  PROVE  Onward
<1> PICK p \in Peer : Turn(p, Other(p))
  BY DEF Turns
<1> DEFINE q == Other(p)
<1>1. q \in Peer /\ (r = p \/ r = q)
  BY Others
<1> HIDE DEF q
<1>2. q = Other(p) /\ Turn(p, q)
  BY DEF q
<1>3. Step(p) \/ Step(q)
  BY <1>1
<1>4. CASE Done(p, q)
  BY <1>1, <1>2, <1>4, FromDone
<1> QED
  BY <1>1, <1>2, <1>3, <1>4, FromFresh, FromBegun, FromUnderWay, FromAnswering,
     FromAnswered, FromOvertaking, FromOvertaken, FromLeft DEF Turn

TurnInv == TakingTurns => ~shut /\ Turns

\* Two ends that agree begin at the first of their turns.
LEMMA InitTurns ==
  ASSUME Init
  PROVE  TurnInv
<1> SUFFICES ASSUME TakingTurns PROVE ~shut /\ Turns
  BY DEF TurnInv
<1>1. script \in Agreed
  BY DEF Init, TakingTurns
<1>2. PICK p \in Peer : TRUE
  BY StreamAssumption
<1> DEFINE q == Other(p)
<1>3. q \in Peer /\ q # p /\ Other(q) = p
  BY Others
<1> HIDE DEF q
<1>4. script[p] \in Seq(Call) /\ script[q] \in Seq(Call)
  BY <1>3, StreamAssumption DEF Init
<1>5. Together(script[p], script[q]) /\ Together(script[q], script[p])
  BY <1>1, <1>3, AgreedAssumption
<1>6. Quiet(p, q) /\ Quiet(q, p)
  BY <1>3, EmptySeq DEF Init, Quiet
<1>7. Turn(p, q) \/ Turn(q, p)
  <2>1. \A r \in {p, q} : pc[r] = "idle" /\ chan[r] = <<>> /\ open[r]
    BY <1>3 DEF Init
  <2>2. CASE Current(p).op = "close" /\ Current(q).op = "close"
             /\ Tail(script[p]) = <<>> /\ Tail(script[q]) = <<>>
    BY <1>6, <2>1, <2>2 DEF Turn, Done, Closes, At
  <2>3. CASE Matches(Current(p), Current(q))
    BY <1>5, <1>6, <2>1, <2>3 DEF Turn, Fresh, InStep, Waits, At
  <2>4. CASE Matches(Current(q), Current(p))
    BY <1>5, <1>6, <2>1, <2>4 DEF Turn, Fresh, InStep, Waits, At
  <2> QED
    BY <1>4, <1>5, <2>2, <2>3, <2>4, FirstCalls DEF Current
<1> QED
  BY <1>3, <1>7 DEF Init, Turns, q

\* Every step of two ends that take turns is a step of the exchange.
LEMMA NextTurns ==
  ASSUME StreamInv, TurnInv, [Next]_vars
  PROVE  /\ TurnInv' /\ (TakingTurns' <=> TakingTurns)
         /\ TakingTurns => [Exchange!Next]_Exchange!vars
<1>1. CASE UNCHANGED vars
  <2>1. UNCHANGED <<script, pc, out, payload, chan, open, shut, plan, sent, acked, received>>
    BY <1>1 DEF vars, kernel, history
  <2>2. Turns' <=> Turns
    BY <2>1
    DEF Turns, Turn, Fresh, Begun, UnderWay, Answering, Answered, Overtaking,
        Overtaken, Left, Done, Closes, InStep, Apart, Behind, Upcoming, Put, Waits, Takes,
        Quiet, Asked, Heard, At, Current
  <2> QED
    BY <2>1, <2>2 DEF TurnInv, TakingTurns, Exchange!vars
<1>2. CASE Shutdown
  BY <1>2 DEF Shutdown, TurnInv, TakingTurns, history
<1>3. ASSUME NEW p \in Peer, Step(p)
      PROVE  /\ TurnInv' /\ (TakingTurns' <=> TakingTurns)
             /\ TakingTurns => [Exchange!Next]_Exchange!vars
  <2>1. shut' = shut /\ (TakingTurns' <=> TakingTurns)
    BY <1>3, StepKeepsPlan DEF TakingTurns
  <2>2. TakingTurns => Onward
    BY <1>3, StepOnward DEF TurnInv
  <2> QED
    BY <2>1, <2>2 DEF TurnInv, Onward
<1> QED
  BY <1>1, <1>2, <1>3 DEF Next

LEMMA TurnInvariant ==
  Spec => [](StreamInv /\ TurnInv)
<1>1. Init => StreamInv /\ TurnInv
  BY InitStream, InitTurns
<1>2. (StreamInv /\ TurnInv) /\ [Next]_vars => (StreamInv /\ TurnInv)'
  BY NextStream, NextTurns
<1> QED
  BY <1>1, <1>2, PTL DEF Spec

\* If the ends agree, the stream implements the exchange of whole messages.
THEOREM Refinement == Spec => Refines
<1>1. Init => Promise!Init
  BY DEF Init, Promise!Init, Unheard
<1>2. ASSUME StreamInv, TurnInv, [Next]_vars
      PROVE  [Promise!Next]_Promise!vars
  <2>1. TakingTurns' <=> TakingTurns
    BY <1>2, NextTurns
  <2>2. CASE ~TakingTurns
    BY <2>1, <2>2 DEF Promise!vars, Unheard
  <2>3. CASE TakingTurns
    <3>1. [Exchange!Next]_Exchange!vars
      BY <1>2, <2>3, NextTurns
    <3>2. CASE UNCHANGED Exchange!vars
      BY <2>1, <2>3, <3>2 DEF Exchange!vars, Promise!vars
    <3>3. ASSUME NEW p \in Peer, Exchange!Offer(p)
          PROVE  Promise!Next
      <4>1. Promise!Offer(p)
        BY <2>1, <2>3, <3>3
        DEF Exchange!Offer, Exchange!Delivered, Exchange!Other,
            Promise!Offer, Promise!Delivered, Promise!Other
      <4> QED
        BY <4>1 DEF Promise!Next
    <3>4. ASSUME NEW p \in Peer, Exchange!Deliver(p)
          PROVE  Promise!Next
      <4>1. Promise!Deliver(p)
        BY <2>1, <2>3, <3>4
        DEF Exchange!Deliver, Exchange!Delivered, Exchange!Other,
            Promise!Deliver, Promise!Delivered, Promise!Other
      <4> QED
        BY <4>1 DEF Promise!Next
    <3>5. ASSUME NEW p \in Peer, Exchange!Acknowledge(p)
          PROVE  Promise!Next
      <4>1. Promise!Acknowledge(p)
        BY <2>1, <2>3, <3>5
        DEF Exchange!Acknowledge, Exchange!Other, Promise!Acknowledge, Promise!Other
      <4> QED
        BY <4>1 DEF Promise!Next
    <3> QED
      BY <3>1, <3>2, <3>3, <3>4, <3>5 DEF Exchange!Next
  <2> QED
    BY <2>2, <2>3
<1> QED
  BY <1>1, <1>2, TurnInvariant, PTL DEF Spec, Refines, Promise!Spec

-----------------------------------------------------------------------------
(* What the refinement means for the two ends.                             *)

\* The variables' types, and what has been received and acknowledged.
ExchangeInv ==
  /\ sent \in [Peer -> Seq(Message)]
  /\ received \in [Peer -> Seq(Message)]
  /\ acked \in [Peer -> Nat]
  /\ Exchange!ReceivedAsSent
  /\ Exchange!AckedMeansReceived
  /\ Exchange!TakesTurns

\* Rendezvous names the other end in the same way.
LEMMA ExchangeOther ==
  ASSUME NEW p \in Peer
  PROVE  /\ Other(p) \in Peer /\ Other(p) # p /\ Other(Other(p)) = p
         /\ \A q \in Peer : q = p \/ q = Other(p)
         /\ \A q : Exchange!Other(q) = Other(q)
<1> QED
  BY Others DEF Other, Exchange!Other

LEMMA InitWhole ==
  ASSUME Exchange!Init
  PROVE  ExchangeInv
<1>1. \A p \in Peer : /\ Exchange!Other(p) \in Peer
                      /\ sent[p] = <<>> /\ received[p] = <<>> /\ acked[p] = 0
  BY ExchangeOther DEF Exchange!Init
<1>2. \A p \in Peer : Len(sent[p]) = 0 /\ Len(received[p]) = 0
  BY <1>1
<1> QED
  BY <1>1, <1>2 DEF Exchange!Init, ExchangeInv, Exchange!ReceivedAsSent,
                    Exchange!AckedMeansReceived, Exchange!TakesTurns, Exchange!Delivered

LEMMA OfferWhole ==
  ASSUME NEW p \in Peer, ExchangeInv, Exchange!Offer(p)
  PROVE  ExchangeInv'
<1> DEFINE q == Other(p)
<1>1. PICK m \in Message : sent' = [sent EXCEPT ![p] = Append(@, m)]
  BY DEF Exchange!Offer
<1>2. /\ received' = received /\ acked' = acked
      /\ q \in Peer /\ q # p /\ Other(q) = p
      /\ \A r \in Peer : r = p \/ r = q
      /\ \A r : Exchange!Other(r) = Other(r)
  BY ExchangeOther DEF Exchange!Offer
<1>3. /\ sent' \in [Peer -> Seq(Message)]
      /\ sent'[p] = Append(sent[p], m)
      /\ sent'[q] = sent[q]
  BY <1>1, <1>2 DEF ExchangeInv
<1>4. /\ Len(sent'[p]) = Len(sent[p]) + 1
      /\ \A i \in 1 .. Len(sent[p]) : sent'[p][i] = sent[p][i]
  BY <1>3 DEF ExchangeInv
<1>5. Exchange!ReceivedAsSent'
  <2>1. /\ Len(received[q]) <= Len(sent[p])
        /\ \A i \in 1 .. Len(received[q]) : received[q][i] = sent[p][i]
    BY <1>2 DEF ExchangeInv, Exchange!ReceivedAsSent
  <2>2. Len(received[q]) \in Nat /\ Len(sent[p]) \in Nat
    BY <1>2 DEF ExchangeInv
  <2>3. /\ Len(received'[q]) <= Len(sent'[p])
        /\ \A i \in 1 .. Len(received'[q]) : received'[q][i] = sent'[p][i]
    BY <2>1, <2>2, <1>2, <1>4
  <2>4. /\ Len(received'[p]) <= Len(sent'[q])
        /\ \A i \in 1 .. Len(received'[p]) : received'[p][i] = sent'[q][i]
    BY <1>2, <1>3 DEF ExchangeInv, Exchange!ReceivedAsSent
  <2> QED
    BY <2>3, <2>4, <1>2 DEF Exchange!ReceivedAsSent
<1>6. Exchange!TakesTurns'
  BY <1>2, <1>3 DEF ExchangeInv, Exchange!TakesTurns, Exchange!Delivered, Exchange!Offer
<1> QED
  BY <1>2, <1>3, <1>5, <1>6, ExchangeOther DEF ExchangeInv, Exchange!AckedMeansReceived

LEMMA DeliverWhole ==
  ASSUME NEW p \in Peer, ExchangeInv, Exchange!Deliver(p)
  PROVE  ExchangeInv'
<1> DEFINE q == Other(p)
           n == Len(received[q]) + 1
<1>1. /\ q \in Peer /\ q # p /\ Other(q) = p
      /\ \A r \in Peer : r = p \/ r = q
      /\ \A r : Exchange!Other(r) = Other(r)
  BY ExchangeOther
<1>2. /\ sent' = sent /\ acked' = acked
      /\ received' = [received EXCEPT ![q] = Append(@, sent[p][n])]
      /\ Len(received[q]) # Len(sent[p])
  BY <1>1 DEF Exchange!Deliver, Exchange!Delivered
<1>3. n \in 1 .. Len(sent[p])
  BY <1>1, <1>2 DEF ExchangeInv, Exchange!ReceivedAsSent
<1>4. sent[p][n] \in Message
  BY <1>3 DEF ExchangeInv
<1>5. /\ received' \in [Peer -> Seq(Message)]
      /\ received'[q] = Append(received[q], sent[p][n])
      /\ received'[p] = received[p]
  BY <1>1, <1>2, <1>4 DEF ExchangeInv
<1>6. /\ Len(received'[q]) = n
      /\ received'[q][n] = sent[p][n]
      /\ \A i \in 1 .. Len(received[q]) : received'[q][i] = received[q][i]
  BY <1>1, <1>5 DEF ExchangeInv
<1>7. Exchange!ReceivedAsSent'
  <2>1. \A i \in 1 .. n : received'[q][i] = sent[p][i]
    <3>1. \A i \in 1 .. Len(received[q]) : received[q][i] = sent[p][i]
      BY <1>1 DEF ExchangeInv, Exchange!ReceivedAsSent
    <3>2. \A i \in 1 .. n : i = n \/ i \in 1 .. Len(received[q])
      BY <1>1 DEF ExchangeInv
    <3> QED
      BY <3>1, <3>2, <1>6
  <2>2. Len(received'[q]) <= Len(sent'[p])
    BY <1>2, <1>3, <1>6
  <2>3. /\ Len(received'[p]) <= Len(sent'[q])
        /\ \A i \in 1 .. Len(received'[p]) : received'[p][i] = sent'[q][i]
    BY <1>1, <1>2, <1>5 DEF ExchangeInv, Exchange!ReceivedAsSent
  <2> QED
    BY <2>1, <2>2, <2>3, <1>1, <1>2, <1>6 DEF Exchange!ReceivedAsSent
<1>8. Exchange!AckedMeansReceived'
  BY <1>1, <1>2, <1>5, <1>6 DEF ExchangeInv, Exchange!AckedMeansReceived
<1>9. Exchange!TakesTurns'
  BY <1>1, <1>2, <1>5 DEF ExchangeInv, Exchange!TakesTurns, Exchange!Delivered
<1> QED
  BY <1>2, <1>5, <1>7, <1>8, <1>9 DEF ExchangeInv

LEMMA AcknowledgeWhole ==
  ASSUME NEW p \in Peer, ExchangeInv, Exchange!Acknowledge(p)
  PROVE  ExchangeInv'
<1> QED
  BY ExchangeOther
  DEF Exchange!Acknowledge, ExchangeInv, Exchange!ReceivedAsSent,
      Exchange!AckedMeansReceived, Exchange!TakesTurns, Exchange!Delivered

LEMMA NextWhole ==
  ASSUME ExchangeInv, [Exchange!Next]_Exchange!vars
  PROVE  ExchangeInv'
<1>1. ASSUME NEW p \in Peer, Exchange!Offer(p) PROVE ExchangeInv'
  BY <1>1, OfferWhole
<1>2. ASSUME NEW p \in Peer, Exchange!Deliver(p) PROVE ExchangeInv'
  BY <1>2, DeliverWhole
<1>3. ASSUME NEW p \in Peer, Exchange!Acknowledge(p) PROVE ExchangeInv'
  BY <1>3, AcknowledgeWhole
<1>4. CASE UNCHANGED Exchange!vars
  BY <1>4
  DEF Exchange!vars, ExchangeInv, Exchange!ReceivedAsSent,
      Exchange!AckedMeansReceived, Exchange!TakesTurns, Exchange!Delivered
<1> QED
  BY <1>1, <1>2, <1>3, <1>4 DEF Exchange!Next

\* Two ends that exchange messages as Rendezvous says receive what the other
\* sent, message by message, what is acknowledged was received, and only the
\* message of one end is under way.
THEOREM WholeMessages ==
  Exchange!Spec => [](/\ Exchange!ReceivedAsSent
                      /\ Exchange!AckedMeansReceived
                      /\ Exchange!TakesTurns)
<1>1. ExchangeInv => /\ Exchange!ReceivedAsSent
                     /\ Exchange!AckedMeansReceived
                     /\ Exchange!TakesTurns
  BY DEF ExchangeInv
<1> QED
  BY <1>1, InitWhole, NextWhole, PTL DEF Exchange!Spec

ReceivedPrefix ==
  \A p \in Peer : LET q == Other(p)
                  IN  /\ Len(received[q]) <= Len(sent[p])
                      /\ \A i \in 1 .. Len(received[q]) : received[q][i] = sent[p][i]

\* If the ends agree, what an end receives is what the other end sent: message by
\* message, in order, none cut, joined with its neighbour or mixed with an ACK.
THEOREM ConversationCorrect == Spec => [](TakingTurns => ReceivedPrefix)
<1>1. Init => ExchangeInv
  BY InitWhole DEF Init, Exchange!Init
<1>2. ASSUME StreamInv, TurnInv, TakingTurns => ExchangeInv, [Next]_vars
      PROVE  (TakingTurns => ExchangeInv)'
  BY <1>2, NextTurns, NextWhole
<1>3. ASSUME ExchangeInv PROVE ReceivedPrefix
  <2>1. \A p : Exchange!Other(p) = Other(p)
    BY DEF Exchange!Other, Other
  <2> QED
    BY <1>3, <2>1 DEF ExchangeInv, Exchange!ReceivedAsSent, ReceivedPrefix
<1>4. StreamInv /\ TurnInv /\ (TakingTurns => ExchangeInv) /\ [Next]_vars
        => (TakingTurns => ExchangeInv)'
  BY <1>2
<1>5. (TakingTurns => ExchangeInv) => (TakingTurns => ReceivedPrefix)
  BY <1>3
<1>6. Init => (TakingTurns => ExchangeInv)
  BY <1>1
<1> QED
  BY <1>4, <1>5, <1>6, TurnInvariant, PTL DEF Spec

\* When both ends that agree have made all their calls, nothing is missing: each
\* has received all that the other sent, and all of it is acknowledged.
THEOREM NothingMissing ==
  Spec => [](TakingTurns /\ (\A p \in Peer : script[p] = <<>>) =>
               \A p \in Peer : received[Other(p)] = sent[p] /\ acked[p] = Len(sent[p]))
<1>1. ASSUME StreamInv, TurnInv, TakingTurns => ReceivedPrefix,
             TakingTurns, \A p \in Peer : script[p] = <<>>, NEW r \in Peer
      PROVE  received[Other(r)] = sent[r] /\ acked[r] = Len(sent[r])
  <2>1. PICK p \in Peer : Turn(p, Other(p))
    BY <1>1 DEF TurnInv, Turns
  <2>2. /\ Other(p) \in Peer /\ Other(Other(p)) = p /\ (r = p \/ r = Other(p))
        /\ Other(r) \in Peer
    BY Others
  <2>3. Done(p, Other(p))
    BY <1>1, <2>1, <2>2
    DEF Turn, Fresh, Begun, UnderWay, Answering, Answered, Overtaking, Overtaken,
        Left, InStep, Together, Apart, Behind
  <2>4. acked[r] = Len(sent[r]) /\ Len(received[Other(r)]) = Len(sent[r])
    BY <2>2, <2>3 DEF Done, Quiet
  <2>5. \A i \in 1 .. Len(sent[r]) : received[Other(r)][i] = sent[r][i]
    BY <1>1, <2>4 DEF ReceivedPrefix
  <2>6. PICK S : received \in [Peer -> Seq(S)]
    BY <1>1 DEF StreamInv, HistoryInv
  <2>7. received[Other(r)] \in Seq(S \cup Sent) /\ sent[r] \in Seq(S \cup Sent)
    BY <1>1, <2>2, <2>6, SeqMonotonic DEF StreamInv, HistoryInv
  <2>8. received[Other(r)] = sent[r]
    BY <2>4, <2>5, <2>7, SeqEqual
  <2> QED
    BY <2>4, <2>8
<1>2. StreamInv /\ TurnInv /\ (TakingTurns => ReceivedPrefix) =>
        (TakingTurns /\ (\A p \in Peer : script[p] = <<>>) =>
           \A p \in Peer : received[Other(p)] = sent[p] /\ acked[p] = Len(sent[p]))
  BY <1>1
<1> QED
  BY <1>2, TurnInvariant, ConversationCorrect, PTL
=============================================================================
