----------------------- MODULE SocketDescriptorsProofs -----------------------
(***************************************************************************)
(* Theorems about SocketDescriptors for any servers, clients, paths and    *)
(* numbers of descriptors.                                                 *)
(***************************************************************************)
EXTENDS SocketDescriptors, TLAPS, SequenceTheorems

Indices(s) == 1 .. Len(conns[s])

\* What an object has while it is constructed, alive and destroyed.
StageInv ==
  /\ TypeOK
  /\ \A o \in Object : life[o] = "none" <=> fd[o] = Unset
  /\ \A s \in Server : life[s] \notin {"live", "closing"} => conns[s] = <<>>

\* Before the first close_connection() the descriptors an object keeps track of
\* are its own, each known once.
OwnInv ==
  ~early =>
    /\ ~strayed
    /\ \A o \in Object : life[o] # "none" => holder[fd[o]] = o
    /\ \A s \in Server :
         /\ \A i \in Indices(s) : holder[conns[s][i]] = s /\ conns[s][i] # fd[s]
         /\ \A i, j \in Indices(s) : conns[s][i] = conns[s][j] => i = j

-----------------------------------------------------------------------------
(* Types and stages.                                                       *)

\* A process starts without sockets.
LEMMA StageInit == Init => StageInv
<1> SUFFICES ASSUME Init PROVE StageInv
  OBVIOUS
<1>1. PICK taken \in SUBSET (Fd \cap {0}) :
        holder = [f \in Fd |-> IF f \in taken THEN Others ELSE Free]
  BY DEF Init
<1>2. holder \in [Fd -> Object \cup {Free, Others}]
  BY <1>1
<1>3. <<>> \in Seq(Fd)
  OBVIOUS
<1> QED
  BY <1>2, <1>3 DEF Init, StageInv, TypeOK, Stages, Object

\* A descriptor is a number, which Unset is not.
LEMMA UnsetIsNoFd == Unset \notin Fd
BY DescriptorAssumption DEF Unset

\* Every step keeps the types and the stages of construction.
LEMMA StageNext == StageInv /\ [Next]_vars => StageInv'
<1> SUFFICES ASSUME StageInv, [Next]_vars PROVE StageInv'
  OBVIOUS
<1> USE UnsetIsNoFd, DescriptorAssumption
<1> USE DEF StageInv, TypeOK, Reach, Object, Stages
<1>1. ASSUME NEW s \in Server, Bind(s) PROVE StageInv'
  <2>1. inode' \in [Paths -> Server \cup {NoServer}]
    BY <1>1 DEF Bind
  <2>2. \E l \in {"bound", "base"} : life' = [life EXCEPT ![s] = l]
    BY <1>1 DEF Bind
  <2> QED
    BY <1>1, <2>1, <2>2 DEF Bind
<1>2. ASSUME NEW s \in Server, Listen(s) PROVE StageInv'
  BY <1>2 DEF Listen, Paths
<1>3. ASSUME NEW s \in Server, WaitForConnection(s) PROVE StageInv'
  <2>1. PICK f \in Fd : /\ Open(s, f)
                        /\ conns' = [conns EXCEPT ![s] = Append(@, f)]
                        /\ io' = [io EXCEPT ![s] = f]
    BY <1>3 DEF WaitForConnection
  <2>2. Append(conns[s], f) \in Seq(Fd)
    BY AppendProperties
  <2> QED
    BY <1>3, <2>1, <2>2 DEF WaitForConnection, Open
<1>4. ASSUME NEW s \in Server, CloseNext(s) PROVE StageInv'
  <2>1. Tail(conns[s]) \in Seq(Fd)
    BY <1>4, HeadTailProperties DEF CloseNext
  <2> QED
    BY <1>4, <2>1 DEF CloseNext, Close
<1>5. ASSUME NEW s \in Server, Unlink(s) PROVE StageInv'
  BY <1>5 DEF Unlink, Paths
<1>6. ASSUME NEW c \in Client, SetAddress(c) PROVE StageInv'
  BY <1>6 DEF SetAddress
<1>7. ASSUME NEW o \in Object, OpenSocket(o) PROVE StageInv'
  BY <1>7 DEF OpenSocket, Open
<1>8. ASSUME NEW o \in Object, CloseConnection(o) PROVE StageInv'
  BY <1>8 DEF CloseConnection, Close
<1>9. ASSUME NEW o \in Object, Destroy(o) PROVE StageInv'
  BY <1>9 DEF Destroy
<1>10. ASSUME NEW o \in Object, CloseSocket(o) PROVE StageInv'
  BY <1>10 DEF CloseSocket, Close
<1>11. CASE OtherOpens
  BY <1>11 DEF OtherOpens, Open
<1>12. CASE OtherCloses
  BY <1>12 DEF OtherCloses
<1>13. CASE UNCHANGED vars
  BY <1>13 DEF vars
<1> QED
  BY <1>1, <1>2, <1>3, <1>4, <1>5, <1>6, <1>7, <1>8, <1>9, <1>10, <1>11, <1>12,
     <1>13 DEF Next, ServerStep, ObjectStep

\* StageInv holds throughout, for use in the theorems below.
LEMMA StageInvariance == Spec => []StageInv
BY StageInit, StageNext, PTL DEF Spec

\* Types of the descriptors, the inodes and the objects.
THEOREM TypeCorrect == Spec => []TypeOK
<1>1. StageInv => TypeOK
  BY DEF StageInv
<1> QED
  BY <1>1, StageInvariance, PTL
-----------------------------------------------------------------------------
(* Nothing is left open.                                                   *)

\* NothingLeaks, without the sets.
Keeps(o, f) ==
  \/ f = fd[o]
  \/ o \in Server /\ \E i \in Indices(o) : conns[o][i] = f

LeakInv ==
  \A f \in Fd : holder[f] \in Object =>
    life[holder[f]] # "none" /\ Keeps(holder[f], f)

\* A step that gives f to nobody keeps LeakInv for f if it leaves the holder's
\* life and lists alone, or only moves the object to another stage.
LEMMA Untouched ==
  ASSUME LeakInv, NEW f \in Fd, holder'[f] \in Object, holder'[f] = holder[f],
         life'[holder[f]] # "none", fd'[holder[f]] = fd[holder[f]],
         conns' = conns
  PROVE  (life[holder[f]] # "none" /\ Keeps(holder[f], f))'
BY DEF LeakInv, Keeps, Indices

\* A descriptor that is given to somebody was free, and so in nobody's lists.
LEMMA LeakNext == StageInv /\ LeakInv /\ [Next]_vars => LeakInv'
<1> SUFFICES ASSUME StageInv, LeakInv, [Next]_vars,
                    NEW f \in Fd, holder'[f] \in Object
             PROVE (life[holder[f]] # "none" /\ Keeps(holder[f], f))'
  BY DEF LeakInv
<1> DEFINE Goal == (life[holder[f]] # "none" /\ Keeps(holder[f], f))'
           Same == /\ holder'[f] = holder[f]
                   /\ life'[holder[f]] # "none"
                   /\ fd'[holder[f]] = fd[holder[f]]
                   /\ conns' = conns
<1> USE DescriptorAssumption
<1>0. /\ holder \in [Fd -> Object \cup {Free, Others}]
      /\ life \in [Object -> Stages]
      /\ fd \in [Object -> Fd \cup {Unset}]
      /\ conns \in [Server -> Seq(Fd)]
      /\ Free \notin Object /\ Others \notin Object
      /\ Server \subseteq Object /\ Client \subseteq Object
      /\ holder[f] \in Object => life[holder[f]] # "none"
  BY DEF StageInv, TypeOK, LeakInv, Object
<1>same. Same => Goal
  BY Untouched
<1> HIDE DEF Goal
<1>1. ASSUME NEW s \in Server, Bind(s) PROVE Goal
  BY <1>0, <1>1, <1>same DEF Bind, Reach
<1>2. ASSUME NEW s \in Server, Listen(s) PROVE Goal
  BY <1>0, <1>2, <1>same DEF Listen, Reach
<1>3. ASSUME NEW s \in Server, WaitForConnection(s) PROVE Goal
  <2>1. PICK g \in Fd : /\ Open(s, g)
                        /\ conns' = [conns EXCEPT ![s] = Append(@, g)]
    BY <1>3 DEF WaitForConnection
  <2>2. life' = life /\ fd' = fd /\ life[s] = "live"
    BY <1>3 DEF WaitForConnection
  <2>3. /\ conns[s] \in Seq(Fd)
        /\ Len(conns[s]) \in Nat
        /\ conns'[s] = Append(conns[s], g)
        /\ \A t \in Server : t # s => conns'[t] = conns[t]
    BY <1>0, <2>1, LenProperties
  <2>4. /\ Len(conns'[s]) = Len(conns[s]) + 1
        /\ conns'[s][Len(conns[s]) + 1] = g
        /\ \A i \in 1 .. Len(conns[s]) : conns'[s][i] = conns[s][i]
    BY <2>3, AppendProperties
  <2>5. CASE f = g
    <3>1. holder'[f] = s
      BY <1>0, <2>1, <2>5 DEF Open
    <3>2. Keeps(s, f)'
      BY <2>3, <2>4, <2>5 DEF Keeps, Indices
    <3> QED
      BY <2>2, <3>1, <3>2 DEF Goal
  <2>6. CASE f # g
    <3>1. holder'[f] = holder[f] /\ Keeps(holder[f], f)
      BY <1>0, <2>1, <2>6 DEF Open, LeakInv
    <3>2. CASE holder[f] = s
      <4>1. f = fd'[s] \/ \E i \in 1 .. Len(conns[s]) : conns[s][i] = f
        BY <2>2, <3>1, <3>2 DEF Keeps, Indices
      <4>2. (\E i \in 1 .. Len(conns[s]) : conns[s][i] = f)
              => \E i \in 1 .. Len(conns'[s]) : conns'[s][i] = f
        BY <2>3, <2>4
      <4>3. holder'[f] = s /\ life'[s] # "none"
        BY <2>2, <3>1, <3>2
      <4> QED
        BY <4>1, <4>2, <4>3 DEF Goal, Keeps, Indices
    <3>3. ASSUME NEW t \in Object, holder[f] = t, t # s PROVE Goal
      <4>1. life'[t] # "none" /\ fd'[t] = fd[t] /\ (t \in Server => conns'[t] = conns[t])
        BY <1>0, <2>2, <2>3, <3>1, <3>3
      <4> QED
        BY <3>1, <3>3, <4>1 DEF Goal, Keeps, Indices
    <3> QED
      BY <3>1, <3>2, <3>3
  <2> QED
    BY <2>5, <2>6
<1>4. ASSUME NEW s \in Server, CloseNext(s) PROVE Goal
  <2>1. /\ conns[s] \in Seq(Fd) /\ conns[s] # <<>>
        /\ conns'[s] = Tail(conns[s])
        /\ \A t \in Server : t # s => conns'[t] = conns[t]
        /\ life' = life /\ fd' = fd
    BY <1>0, <1>4 DEF CloseNext
  <2>2. /\ Len(conns[s]) \in Nat \ {0}
        /\ Len(conns'[s]) = Len(conns[s]) - 1
        /\ \A i \in 1 .. Len(conns[s]) - 1 : conns'[s][i] = conns[s][i + 1]
        /\ Head(conns[s]) = conns[s][1]
    BY <2>1, HeadTailProperties, EmptySeq, LenProperties
  <2>3. f # conns[s][1] /\ holder'[f] = holder[f] /\ Keeps(holder[f], f)
    BY <1>0, <1>4, <2>2 DEF CloseNext, Close, LeakInv
  <2>4. CASE holder[f] = s /\ f # fd[s]
    <3>1. PICK i \in 1 .. Len(conns[s]) : conns[s][i] = f
      BY <2>3, <2>4 DEF Keeps, Indices
    <3>2. i - 1 \in 1 .. Len(conns'[s]) /\ conns'[s][i - 1] = f
      BY <2>2, <2>3, <3>1
    <3> QED
      BY <1>0, <2>1, <2>3, <2>4, <3>2 DEF Goal, Keeps, Indices
  <2>5. ASSUME NEW t \in Object, holder[f] = t, t # s \/ f = fd[t] PROVE Goal
    <3>1. life'[t] # "none" /\ fd'[t] = fd[t] /\ (t # s /\ t \in Server => conns'[t] = conns[t])
      BY <1>0, <2>1, <2>3, <2>5
    <3> QED
      BY <2>3, <2>5, <3>1 DEF Goal, Keeps, Indices
  <2> QED
    BY <2>3, <2>4, <2>5
<1>5. ASSUME NEW s \in Server, Unlink(s) PROVE Goal
  BY <1>0, <1>5, <1>same DEF Unlink, Reach
<1>6. ASSUME NEW c \in Client, SetAddress(c) PROVE Goal
  BY <1>0, <1>6, <1>same DEF SetAddress, Reach
<1>7. ASSUME NEW o \in Object, OpenSocket(o) PROVE Goal
  <2>1. PICK g \in Fd : Open(o, g) /\ fd' = [fd EXCEPT ![o] = g]
    BY <1>7 DEF OpenSocket
  <2>2. CASE f = g
    <3>1. holder'[f] = o /\ life'[o] = "socket" /\ fd'[o] = f
      BY <1>0, <1>7, <2>1, <2>2 DEF OpenSocket, Open, Reach
    <3> QED
      BY <3>1 DEF Goal, Keeps
  <2>3. CASE f # g
    BY <1>0, <1>7, <2>1, <2>3, <1>same DEF OpenSocket, Open, Reach
  <2> QED
    BY <2>2, <2>3
<1>8. ASSUME NEW o \in Object, CloseConnection(o) PROVE Goal
  BY <1>0, <1>8, <1>same DEF CloseConnection, Close
<1>9. ASSUME NEW o \in Object, Destroy(o) PROVE Goal
  BY <1>0, <1>9, <1>same DEF Destroy, Reach
<1>10. ASSUME NEW o \in Object, CloseSocket(o) PROVE Goal
  <2>1. f # fd[o] /\ holder'[f] = holder[f]
    BY <1>0, <1>10 DEF CloseSocket, Close
  <2>2. o \in Server => conns[o] = <<>>
    BY <1>10 DEF CloseSocket, StageInv
  <2>3. holder[f] # o
    BY <2>1, <2>2, EmptySeq DEF LeakInv, Keeps, Indices
  <2> QED
    BY <1>0, <1>10, <2>1, <2>3, <1>same DEF CloseSocket, Reach
<1>11. CASE OtherOpens
  BY <1>0, <1>11, <1>same DEF OtherOpens, Open, Goal
<1>12. CASE OtherCloses
  BY <1>0, <1>12, <1>same DEF OtherCloses, Goal
<1>13. CASE UNCHANGED vars
  BY <1>0, <1>13, <1>same DEF vars, Goal
<1> QED
  BY <1>1, <1>2, <1>3, <1>4, <1>5, <1>6, <1>7, <1>8, <1>9, <1>10, <1>11, <1>12,
     <1>13 DEF Next, ServerStep, ObjectStep, Goal

\* NothingLeaks: destructors leave none of their object's descriptors open.
THEOREM NoneLeaks == Spec => []NothingLeaks
<1>1. Init => LeakInv
  BY DescriptorAssumption DEF Init, LeakInv, Object
<1>2. LeakInv => NothingLeaks
  BY DEF LeakInv, NothingLeaks, Keeps, Listed, Indices
<1> QED
  BY <1>1, <1>2, LeakNext, StageInvariance, PTL DEF Spec
-----------------------------------------------------------------------------
(* Paths.                                                                  *)

PathInv ==
  /\ PathLeadsHere
  /\ PathComesBack
  /\ \A p \in Paths : inode[p] # NoServer => PathOf[inode[p]] = p

\* bind() takes a path nobody has, and unlink() removes only the server's own
\* inode, as its path leads to it until then.
LEMMA PathNext == StageInv /\ PathInv /\ [Next]_vars => PathInv'
<1> SUFFICES ASSUME StageInv, PathInv, [Next]_vars PROVE PathInv'
  OBVIOUS
<1> USE DescriptorAssumption
<1> USE DEF PathInv, PathLeadsHere, PathComesBack
<1>0. /\ life \in [Object -> Stages]
      /\ inode \in [Paths -> Server \cup {NoServer}]
      /\ \A c \in Client : life[c] \notin {"bound", "closing"}
      /\ \A s \in Server : PathOf[s] \in Paths
      /\ \A s \in Server : s # NoServer /\ s \in Object
      /\ \A c \in Client : c \notin Server /\ c \in Object
  BY DEF StageInv, TypeOK, Object, Paths
<1>1. ASSUME NEW s \in Server, Bind(s) PROVE PathInv'
  BY <1>0, <1>1 DEF Bind, Reach
<1>2. ASSUME NEW s \in Server, Listen(s) PROVE PathInv'
  <2>1. CASE life' = [life EXCEPT ![s] = "live"] /\ UNCHANGED <<inode, left>>
    BY <1>0, <1>2, <2>1 DEF Listen
  <2>2. CASE /\ life' = [life EXCEPT ![s] = "base"]
             /\ left' = left \cup {PathOf[s]} /\ UNCHANGED inode
    BY <1>0, <1>2, <2>2 DEF Listen
  <2> QED
    BY <1>2, <2>1, <2>2 DEF Listen, Reach
<1>3. ASSUME NEW s \in Server, WaitForConnection(s) PROVE PathInv'
  BY <1>3 DEF WaitForConnection
<1>4. ASSUME NEW s \in Server, CloseNext(s) PROVE PathInv'
  BY <1>4 DEF CloseNext
<1>5. ASSUME NEW s \in Server, Unlink(s) PROVE PathInv'
  <2>1. /\ inode[PathOf[s]] = s /\ life[s] = "closing"
        /\ inode' = [inode EXCEPT ![PathOf[s]] = NoServer]
        /\ life' = [life EXCEPT ![s] = "base"] /\ left' = left
    BY <1>5 DEF Unlink, Reach
  <2> QED
    BY <1>0, <2>1
<1>6. ASSUME NEW c \in Client, SetAddress(c) PROVE PathInv'
  BY <1>0, <1>6 DEF SetAddress, Reach
<1>7. ASSUME NEW o \in Object, OpenSocket(o) PROVE PathInv'
  BY <1>0, <1>7 DEF OpenSocket, Reach
<1>8. ASSUME NEW o \in Object, CloseConnection(o) PROVE PathInv'
  BY <1>8 DEF CloseConnection
<1>9. ASSUME NEW o \in Object, Destroy(o) PROVE PathInv'
  BY <1>0, <1>9 DEF Destroy, Reach
<1>10. ASSUME NEW o \in Object, CloseSocket(o) PROVE PathInv'
  BY <1>0, <1>10 DEF CloseSocket, Reach
<1>11. CASE OtherOpens
  BY <1>11 DEF OtherOpens
<1>12. CASE OtherCloses
  BY <1>12 DEF OtherCloses
<1>13. CASE UNCHANGED vars
  BY <1>13 DEF vars
<1> QED
  BY <1>1, <1>2, <1>3, <1>4, <1>5, <1>6, <1>7, <1>8, <1>9, <1>10, <1>11, <1>12,
     <1>13 DEF Next, ServerStep, ObjectStep

LEMMA PathInvariance == Spec => []PathInv
<1>1. Init => PathInv
  BY DescriptorAssumption DEF Init, PathInv, PathLeadsHere, PathComesBack, Object, Paths
<1> QED
  BY <1>1, PathNext, StageInvariance, PTL DEF Spec

\* PathLeadsHere: a server has its path to itself from bind() to unlink(), so
\* that its destructor unlinks no other server's inode.
THEOREM PathsCorrect == Spec => []PathLeadsHere
<1>1. PathInv => PathLeadsHere
  BY DEF PathInv
<1> QED
  BY <1>1, PathInvariance, PTL

\* PathComesBack: a server that is gone has left its path free, unless its
\* listen() failed.
THEOREM PathsReturn == Spec => []PathComesBack
<1>1. PathInv => PathComesBack
  BY DEF PathInv
<1> QED
  BY <1>1, PathInvariance, PTL

-----------------------------------------------------------------------------
(* Nobody else's descriptor is closed.                                     *)

\* Before close_connection() each close finds the descriptor its object was
\* given, and takes it off that object's lists.
LEMMA OwnNext == StageInv /\ OwnInv /\ [Next]_vars => OwnInv'
<1> SUFFICES ASSUME StageInv, OwnInv, [Next]_vars, ~early' PROVE OwnInv'
  BY DEF OwnInv
<1> USE DescriptorAssumption
<1>0. /\ holder \in [Fd -> Object \cup {Free, Others}]
      /\ life \in [Object -> Stages]
      /\ fd \in [Object -> Fd \cup {Unset}]
      /\ conns \in [Server -> Seq(Fd)]
      /\ Free \notin Object /\ Others \notin Object /\ Free # Others
      /\ \A s \in Server : s \in Object
      /\ \A c \in Client : c \in Object
      /\ \A o \in Object : life[o] = "none" <=> fd[o] = Unset
      /\ \A s \in Server : life[s] \notin {"live", "closing"} => conns[s] = <<>>
  BY DEF StageInv, TypeOK, Object, Free, Others
<1>early. ~early
  BY DEF Next, ServerStep, ObjectStep, vars, Bind, Listen, WaitForConnection,
         CloseNext, Unlink, SetAddress, OpenSocket, CloseConnection, Destroy,
         CloseSocket, OtherOpens, OtherCloses
<1>own. /\ ~strayed
        /\ \A o \in Object : life[o] # "none" => fd[o] \in Fd /\ holder[fd[o]] = o
        /\ \A s \in Server :
             /\ \A i \in Indices(s) :
                  conns[s][i] \in Fd /\ holder[conns[s][i]] = s /\ conns[s][i] # fd[s]
             /\ \A i, j \in Indices(s) : conns[s][i] = conns[s][j] => i = j
  <2>1. \A s \in Server : \A i \in Indices(s) : conns[s][i] \in Fd
    BY <1>0, ElementOfSeq DEF Indices
  <2> QED
    BY <1>0, <1>early, <2>1 DEF OwnInv
<1>same. ASSUME conns' = conns, fd' = fd, strayed' = strayed,
                \A o \in Object : life'[o] # "none" => life[o] # "none",
                \A f \in Fd : holder[f] \in Object => holder'[f] = holder[f]
         PROVE OwnInv'
  BY <1>0, <1>own, <1>same DEF OwnInv, Indices
<1>1. ASSUME NEW s \in Server, Bind(s) PROVE OwnInv'
  BY <1>0, <1>1, <1>same DEF Bind, Reach
<1>2. ASSUME NEW s \in Server, Listen(s) PROVE OwnInv'
  BY <1>0, <1>2, <1>same DEF Listen, Reach
<1>3. ASSUME NEW s \in Server, WaitForConnection(s) PROVE OwnInv'
  <2>1. PICK g \in Fd : /\ Open(s, g)
                        /\ conns' = [conns EXCEPT ![s] = Append(@, g)]
    BY <1>3 DEF WaitForConnection
  <2>2. life' = life /\ fd' = fd /\ strayed' = strayed /\ life[s] = "live"
    BY <1>3 DEF WaitForConnection
  <2>3. /\ conns[s] \in Seq(Fd)
        /\ Len(conns[s]) \in Nat
        /\ conns'[s] = Append(conns[s], g)
        /\ \A t \in Server : t # s => conns'[t] = conns[t]
    BY <1>0, <2>1, LenProperties
  <2>4. /\ Len(conns'[s]) = Len(conns[s]) + 1
        /\ conns'[s][Len(conns[s]) + 1] = g
        /\ \A i \in 1 .. Len(conns[s]) : conns'[s][i] = conns[s][i]
    BY <2>3, AppendProperties
  <2>5. /\ holder[g] = Free /\ holder'[g] = s
        /\ \A f \in Fd : f # g => holder'[f] = holder[f]
    BY <1>0, <2>1 DEF Open, Lowest
  <2>6. \A o \in Object : life'[o] # "none" => holder'[fd'[o]] = o
    BY <1>0, <1>own, <2>2, <2>5
  <2>7. ASSUME NEW i \in 1 .. Len(conns'[s])
        PROVE holder'[conns'[s][i]] = s /\ conns'[s][i] # fd'[s]
    <3>1. CASE i = Len(conns[s]) + 1
      <4>1. conns'[s][i] = g /\ fd'[s] = fd[s] /\ holder[fd[s]] = s /\ s \in Object
        BY <1>0, <1>own, <2>2, <2>4, <3>1
      <4> QED
        BY <1>0, <2>5, <4>1
    <3>2. CASE i \in Indices(s)
      <4>1. conns'[s][i] = conns[s][i]
        BY <2>4, <3>2 DEF Indices
      <4>2. conns[s][i] \in Fd /\ holder[conns[s][i]] = s /\ conns[s][i] # fd[s]
        BY <1>own, <3>2
      <4> QED
        BY <1>0, <2>2, <2>5, <4>1, <4>2
    <3> QED
      BY <2>3, <2>4, <3>1, <3>2 DEF Indices
  <2>8. \A i, j \in 1 .. Len(conns'[s]) : conns'[s][i] = conns'[s][j] => i = j
    BY <1>0, <1>own, <2>3, <2>4, <2>5 DEF Indices
  <2>9. ASSUME NEW t \in Server, t # s
        PROVE \A i \in 1 .. Len(conns'[t]) :
                holder'[conns'[t][i]] = t /\ conns'[t][i] # fd'[t]
    <3> TAKE i \in 1 .. Len(conns'[t])
    <3>1. conns[t][i] \in Fd /\ holder[conns[t][i]] = t /\ conns[t][i] # fd[t]
      BY <1>own, <2>3, <2>9 DEF Indices
    <3> QED
      BY <1>0, <2>2, <2>3, <2>5, <2>9, <3>1
  <2>10. ASSUME NEW t \in Server, t # s
         PROVE \A i, j \in 1 .. Len(conns'[t]) : conns'[t][i] = conns'[t][j] => i = j
    BY <1>own, <2>3, <2>10 DEF Indices
  <2> QED
    BY <1>own, <2>2, <2>6, <2>7, <2>8, <2>9, <2>10 DEF OwnInv, Indices
<1>4. ASSUME NEW s \in Server, CloseNext(s) PROVE OwnInv'
  <2>1. /\ conns[s] \in Seq(Fd) /\ conns[s] # <<>>
        /\ conns'[s] = Tail(conns[s])
        /\ \A t \in Server : t # s => conns'[t] = conns[t]
        /\ life' = life /\ fd' = fd /\ life[s] = "closing"
    BY <1>0, <1>4 DEF CloseNext
  <2>2. /\ Len(conns[s]) \in Nat \ {0}
        /\ Len(conns'[s]) = Len(conns[s]) - 1
        /\ \A i \in 1 .. Len(conns[s]) - 1 : conns'[s][i] = conns[s][i + 1]
        /\ Head(conns[s]) = conns[s][1]
    BY <2>1, HeadTailProperties, EmptySeq, LenProperties
  <2>3. /\ holder[conns[s][1]] = s /\ conns[s][1] \in Fd
        /\ conns[s][1] # fd[s]
        /\ \A f \in Fd : f # conns[s][1] => holder'[f] = holder[f]
        /\ ~strayed'
    <3>1. 1 \in Indices(s)
      BY <2>2 DEF Indices
    <3>2. holder[conns[s][1]] = s /\ conns[s][1] \in Fd /\ conns[s][1] # fd[s]
      BY <1>own, <3>1
    <3> QED
      BY <1>4, <1>own, <2>2, <3>2 DEF CloseNext, Close
  <2>4. \A o \in Object : life'[o] # "none" => holder'[fd'[o]] = o
    <3> SUFFICES ASSUME NEW o \in Object, life'[o] # "none"
                 PROVE holder'[fd'[o]] = o
      OBVIOUS
    <3>1. fd'[o] = fd[o] /\ fd[o] \in Fd /\ holder[fd[o]] = o
      BY <1>own, <2>1
    <3> QED
      BY <2>3, <3>1
  <2>5. ASSUME NEW i \in 1 .. Len(conns'[s])
        PROVE /\ i + 1 \in Indices(s)
              /\ conns'[s][i] = conns[s][i + 1]
              /\ conns[s][i + 1] # conns[s][1]
    <3>1. i \in Nat /\ i + 1 \in Indices(s) /\ 1 \in Indices(s) /\ i + 1 # 1
      BY <2>2 DEF Indices
    <3>2. conns'[s][i] = conns[s][i + 1]
      BY <2>2
    <3> QED
      BY <1>own, <3>1, <3>2
  <2>6. ASSUME NEW i \in 1 .. Len(conns'[s])
        PROVE holder'[conns'[s][i]] = s /\ conns'[s][i] # fd'[s]
    <3>1. /\ conns[s][i + 1] \in Fd /\ holder[conns[s][i + 1]] = s
          /\ conns[s][i + 1] # fd[s]
      BY <1>own, <2>5
    <3> QED
      BY <2>1, <2>3, <2>5, <3>1
  <2>7. \A i, j \in 1 .. Len(conns'[s]) : conns'[s][i] = conns'[s][j] => i = j
    <3> SUFFICES ASSUME NEW i \in 1 .. Len(conns'[s]), NEW j \in 1 .. Len(conns'[s]),
                        conns'[s][i] = conns'[s][j]
                 PROVE i = j
      OBVIOUS
    <3>1. i + 1 = j + 1
      BY <1>own, <2>5
    <3> QED
      BY <2>2, <3>1
  <2>8. ASSUME NEW t \in Server, t # s
        PROVE \A i \in 1 .. Len(conns'[t]) :
                holder'[conns'[t][i]] = t /\ conns'[t][i] # fd'[t]
    <3> TAKE i \in 1 .. Len(conns'[t])
    <3>1. conns[t][i] \in Fd /\ holder[conns[t][i]] = t /\ conns[t][i] # fd[t]
      BY <1>own, <2>1, <2>8 DEF Indices
    <3> QED
      BY <2>1, <2>3, <2>8, <3>1
  <2>9. ASSUME NEW t \in Server, t # s
        PROVE \A i, j \in 1 .. Len(conns'[t]) : conns'[t][i] = conns'[t][j] => i = j
    BY <1>own, <2>1, <2>9 DEF Indices
  <2> QED
    BY <2>3, <2>4, <2>6, <2>7, <2>8, <2>9 DEF OwnInv, Indices
<1>5. ASSUME NEW s \in Server, Unlink(s) PROVE OwnInv'
  BY <1>0, <1>5, <1>same DEF Unlink, Reach
<1>6. ASSUME NEW c \in Client, SetAddress(c) PROVE OwnInv'
  BY <1>0, <1>6, <1>same DEF SetAddress, Reach
<1>7. ASSUME NEW o \in Object, OpenSocket(o) PROVE OwnInv'
  <2>1. PICK g \in Fd : Open(o, g) /\ fd' = [fd EXCEPT ![o] = g]
    BY <1>7 DEF OpenSocket
  <2>2. /\ holder[g] = Free /\ holder'[g] = o
        /\ \A f \in Fd : f # g => holder'[f] = holder[f]
    BY <1>0, <2>1 DEF Open, Lowest
  <2>3. /\ conns' = conns /\ strayed' = strayed
        /\ life' = [life EXCEPT ![o] = "socket"] /\ life[o] = "none"
    BY <1>7 DEF OpenSocket, Reach
  <2>4. \A p \in Object : life'[p] # "none" => holder'[fd'[p]] = p
    BY <1>0, <1>own, <2>1, <2>2, <2>3
  <2>5. \A s \in Server : \A i \in Indices(s) : s # o
    BY <1>0, <2>3, EmptySeq DEF Indices
  <2>6. \A s \in Server : \A i \in Indices(s) :
          holder'[conns[s][i]] = s /\ conns[s][i] # fd'[s]
    <3> TAKE s \in Server
    <3> TAKE i \in Indices(s)
    <3>1. s # o /\ conns[s][i] \in Fd /\ holder[conns[s][i]] = s /\ conns[s][i] # fd[s]
      BY <1>own, <2>5
    <3> QED
      BY <1>0, <2>1, <2>2, <3>1
  <2> QED
    BY <1>own, <2>3, <2>4, <2>6 DEF OwnInv, Indices
<1>8. ASSUME NEW o \in Object, CloseConnection(o) PROVE OwnInv'
  BY <1>8 DEF CloseConnection
<1>9. ASSUME NEW o \in Object, Destroy(o) PROVE OwnInv'
  BY <1>0, <1>9, <1>same DEF Destroy, Reach
<1>10. ASSUME NEW o \in Object, CloseSocket(o) PROVE OwnInv'
  <2>1. /\ conns' = conns /\ life[o] = "base"
        /\ life' = [life EXCEPT ![o] = "none"] /\ fd' = [fd EXCEPT ![o] = Unset]
    BY <1>10 DEF CloseSocket, Reach
  <2>2. /\ holder[fd[o]] = o /\ ~strayed'
        /\ \A f \in Fd : f # fd[o] => holder'[f] = holder[f]
    BY <1>0, <1>10, <1>own, <2>1 DEF CloseSocket, Close
  <2>3. \A p \in Object : life'[p] # "none" => holder'[fd'[p]] = p
    BY <1>0, <1>own, <2>1, <2>2
  <2>4. \A s \in Server : \A i \in Indices(s) : s # o
    BY <1>0, <2>1, EmptySeq DEF Indices
  <2>5. \A s \in Server : \A i \in Indices(s) :
          holder'[conns[s][i]] = s /\ conns[s][i] # fd'[s]
    BY <1>0, <1>own, <2>1, <2>2, <2>4
  <2> QED
    BY <1>own, <2>1, <2>2, <2>3, <2>5 DEF OwnInv, Indices
<1>11. CASE OtherOpens
  BY <1>0, <1>11, <1>same DEF OtherOpens, Open, Lowest
<1>12. CASE OtherCloses
  BY <1>0, <1>12, <1>same DEF OtherCloses
<1>13. CASE UNCHANGED vars
  BY <1>0, <1>13, <1>same DEF vars
<1> QED
  BY <1>1, <1>2, <1>3, <1>4, <1>5, <1>6, <1>7, <1>8, <1>9, <1>10, <1>11, <1>12,
     <1>13 DEF Next, ServerStep, ObjectStep

\* ClosesItsOwn: without close_connection() nobody else's descriptor is closed.
THEOREM OwnClosed == Spec => []ClosesItsOwn
<1>1. Init => OwnInv
  BY DescriptorAssumption, EmptySeq DEF Init, OwnInv, Indices
<1>2. OwnInv => ClosesItsOwn
  BY DEF OwnInv, ClosesItsOwn
<1> QED
  BY <1>1, <1>2, OwnNext, StageInvariance, PTL DEF Spec
=============================================================================
