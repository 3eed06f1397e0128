-------------------------- MODULE SocketDescriptors --------------------------
(***************************************************************************)
(* Who opens and closes which descriptor: UnixSocketServer,                *)
(* UnixSocketClient and their base SocketBase (src/src/incl/45d/socket) in  *)
(* one process, whose other code opens and closes files of its own.  The   *)
(* kernel gives out the lowest free number, so a number soon comes back.    *)
(* The steps of constructors and destructors interleave, as those of       *)
(* different threads do.                                                   *)
(***************************************************************************)
EXTENDS Integers, Sequences

CONSTANTS
  Server,       \* UnixSocketServer objects
  Client,       \* UnixSocketClient objects
  PathOf,       \* the path a server is constructed with
  Fd,           \* descriptors the process may have
  MaxConns      \* bound: connections one server accepts

Object == Server \cup Client
Free == "free"          \* not open
Others == "others"      \* opened by other code of the process
NoServer == "none"      \* no inode at a path
Unset == -1             \* an int that was never assigned

ASSUME DescriptorAssumption ==
  /\ Server \cap Client = {}
  /\ {Free, Others, NoServer} \cap Object = {}
  /\ Fd \subseteq Nat
  /\ MaxConns \in Nat

Paths == {PathOf[s] : s \in Server}

VARIABLES
  holder,       \* who was given each descriptor that is open
  inode,        \* which server's bind() made the inode at a path
  life,         \* how far an object's constructor or destructor has come
  fd, io,       \* fd_ and io_fd_
  conns,        \* connections_; in the destructor, those still to be closed
  early,        \* history: has close_connection() been called?
  strayed,      \* history: has an object closed a descriptor it was not given?
  left          \* history: paths at which listen() failed after bind()

vars == <<holder, inode, life, fd, io, conns, early, strayed, left>>

\* Descriptor 0, standard input, may have been closed.
Init ==
  /\ \E taken \in SUBSET (Fd \cap {0}) :
       holder = [f \in Fd |-> IF f \in taken THEN Others ELSE Free]
  /\ inode = [p \in Paths |-> NoServer]
  /\ life = [o \in Object |-> "none"]
  /\ fd = [o \in Object |-> Unset]
  /\ io = [o \in Object |-> Unset]
  /\ conns = [s \in Server |-> <<>>]
  /\ early = FALSE
  /\ strayed = FALSE
  /\ left = {}

-----------------------------------------------------------------------------
(* The kernel.                                                             *)

Lowest(f) == holder[f] = Free /\ \A g \in Fd : g < f => holder[g] # Free

\* o gets the lowest free descriptor; without one the call fails.
Open(o, f) == Lowest(f) /\ holder' = [holder EXCEPT ![f] = o]

\* o calls close(f), which frees f whoever was given it.
Close(o, f) ==
  /\ holder' = [g \in Fd |-> IF g = f THEN Free ELSE holder[g]]
  /\ strayed' = (strayed \/ (f \in Fd /\ holder[f] \notin {o, Free}))

Reach(o, stage) == life' = [life EXCEPT ![o] = stage]

-----------------------------------------------------------------------------
(* Constructors.  When one throws, SocketBase's destructor runs and those  *)
(* of the derived classes do not.                                          *)

\* SocketBase's constructor; io_fd_ is not initialized.
OpenSocket(o) ==
  /\ life[o] = "none"
  /\ \E f \in Fd : Open(o, f) /\ fd' = [fd EXCEPT ![o] = f]
  /\ Reach(o, "socket")
  /\ UNCHANGED <<inode, io, conns, early, strayed, left>>

\* Mutant of Bind: the server's destructor runs when bind() has failed.
Bind_ThenDestructor(s) ==
  /\ life[s] = "socket"
  /\ \/ /\ inode[PathOf[s]] = NoServer
        /\ inode' = [inode EXCEPT ![PathOf[s]] = s] /\ Reach(s, "bound")
     \/ Reach(s, "closing") /\ UNCHANGED inode
  /\ UNCHANGED <<holder, fd, io, conns, early, strayed, left>>

\* bind() fails when there is an inode at the path, and for other reasons: the
\* path is too long, or the directory refuses.
Bind(s) ==
  /\ life[s] = "socket"
  /\ \/ /\ inode[PathOf[s]] = NoServer
        /\ inode' = [inode EXCEPT ![PathOf[s]] = s] /\ Reach(s, "bound")
     \/ Reach(s, "base") /\ UNCHANGED inode
  /\ UNCHANGED <<holder, fd, io, conns, early, strayed, left>>

Listen(s) ==
  /\ life[s] = "bound"
  /\ \/ Reach(s, "live") /\ UNCHANGED left
     \/ Reach(s, "base") /\ left' = left \cup {PathOf[s]}
  /\ UNCHANGED <<holder, inode, fd, io, conns, early, strayed>>

\* The rest of UnixSocketClient's constructor: the path may be too long.
SetAddress(c) ==
  /\ life[c] = "socket"
  /\ \/ Reach(c, "live") /\ io' = [io EXCEPT ![c] = fd[c]]
     \/ Reach(c, "base") /\ UNCHANGED io
  /\ UNCHANGED <<holder, inode, fd, conns, early, strayed, left>>

-----------------------------------------------------------------------------
(* Calls.                                                                  *)

\* Mutants of WaitForConnection: accept()'s -1 is not looked at; connections_
\* is not told.
WaitForConnection_Unchecked(s) ==
  /\ life[s] = "live" /\ Len(conns[s]) < MaxConns
  /\ \E f \in Fd \cup {Unset} :
       /\ IF f = Unset THEN (\A g \in Fd : holder[g] # Free) /\ UNCHANGED holder
          ELSE Open(s, f)
       /\ conns' = [conns EXCEPT ![s] = Append(@, f)]
       /\ io' = [io EXCEPT ![s] = f]
  /\ UNCHANGED <<inode, life, fd, early, strayed, left>>

WaitForConnection_Unlisted(s) ==
  /\ life[s] = "live" /\ Len(conns[s]) < MaxConns
  /\ \E f \in Fd : Open(s, f) /\ io' = [io EXCEPT ![s] = f]
  /\ UNCHANGED <<inode, life, fd, conns, early, strayed, left>>

WaitForConnection(s) ==
  /\ life[s] = "live" /\ Len(conns[s]) < MaxConns
  /\ \E f \in Fd :
       /\ Open(s, f)
       /\ conns' = [conns EXCEPT ![s] = Append(@, f)]
       /\ io' = [io EXCEPT ![s] = f]
  /\ UNCHANGED <<inode, life, fd, early, strayed, left>>

\* What an argument fd stands for; io_fd_ may never have been assigned.
Meant(o, arg) ==
  IF arg # 0 THEN {arg} ELSE IF io[o] = Unset THEN Fd ELSE {io[o]}

\* Arguments that a caller has from wait_for_connection() or connect().
Arguments(o) ==
  {0, io[o]} \cup IF o \in Server THEN {conns[o][i] : i \in 1 .. Len(conns[o])} ELSE {}

\* close_connection(fd) does not touch io_fd_ or connections_.
CloseConnection(o) ==
  /\ life[o] = "live"
  /\ \E arg \in Arguments(o) \ {Unset} : \E f \in Meant(o, arg) : Close(o, f)
  /\ early' = TRUE
  /\ UNCHANGED <<inode, life, fd, io, conns, left>>

-----------------------------------------------------------------------------
(* Destructors.                                                            *)

Destroy(o) ==
  /\ life[o] = "live"
  /\ Reach(o, IF o \in Server THEN "closing" ELSE "base")
  /\ UNCHANGED <<holder, inode, fd, io, conns, early, strayed, left>>

\* One iteration of ~UnixSocketServer's loop.
CloseNext(s) ==
  /\ life[s] = "closing" /\ conns[s] # <<>>
  /\ Close(s, Head(conns[s]))
  /\ conns' = [conns EXCEPT ![s] = Tail(@)]
  /\ UNCHANGED <<inode, life, fd, io, early, left>>

\* Mutant of Unlink: the inode stays.
Unlink_Forgotten(s) ==
  /\ life[s] = "closing" /\ conns[s] = <<>>
  /\ Reach(s, "base")
  /\ UNCHANGED <<holder, inode, fd, io, conns, early, strayed, left>>

Unlink(s) ==
  /\ life[s] = "closing" /\ conns[s] = <<>>
  /\ inode' = [inode EXCEPT ![PathOf[s]] = NoServer]
  /\ Reach(s, "base")
  /\ UNCHANGED <<holder, fd, io, conns, early, strayed, left>>

\* Mutant of CloseSocket: io_fd_ is closed as well.
CloseSocket_AndIO(o) ==
  /\ life[o] = "base"
  /\ holder' = [g \in Fd |-> IF g \in {fd[o], io[o]} THEN Free ELSE holder[g]]
  /\ strayed' = (strayed \/ (io[o] \in Fd /\ holder[io[o]] \notin {o, Free}))
  /\ fd' = [fd EXCEPT ![o] = Unset]
  /\ io' = [io EXCEPT ![o] = Unset]
  /\ Reach(o, "none")
  /\ UNCHANGED <<inode, conns, early, left>>

\* ~SocketBase
CloseSocket(o) ==
  /\ life[o] = "base"
  /\ Close(o, fd[o])
  /\ fd' = [fd EXCEPT ![o] = Unset]
  /\ io' = [io EXCEPT ![o] = Unset]
  /\ Reach(o, "none")
  /\ UNCHANGED <<inode, conns, early, left>>

-----------------------------------------------------------------------------
(* Other code of the process.                                              *)

OtherOpens ==
  /\ \E f \in Fd : Open(Others, f)
  /\ UNCHANGED <<inode, life, fd, io, conns, early, strayed, left>>

OtherCloses ==
  /\ \E f \in Fd : holder[f] = Others /\ holder' = [holder EXCEPT ![f] = Free]
  /\ UNCHANGED <<inode, life, fd, io, conns, early, strayed, left>>

-----------------------------------------------------------------------------
ServerStep(s) ==
  \/ Bind(s) \/ Listen(s) \/ WaitForConnection(s) \/ CloseNext(s) \/ Unlink(s)

ObjectStep(o) ==
  OpenSocket(o) \/ CloseConnection(o) \/ Destroy(o) \/ CloseSocket(o)

Next ==
  \/ \E s \in Server : ServerStep(s)
  \/ \E c \in Client : SetAddress(c)
  \/ \E o \in Object : ObjectStep(o)
  \/ OtherOpens \/ OtherCloses

Spec == Init /\ [][Next]_vars

-----------------------------------------------------------------------------
(* Properties.                                                             *)

Stages == {"none", "socket", "bound", "live", "closing", "base"}

\* The types of the variables.
TypeOK ==
  /\ holder \in [Fd -> Object \cup {Free, Others}]
  /\ inode \in [Paths -> Server \cup {NoServer}]
  /\ life \in [Object -> Stages]
  /\ \A c \in Client : life[c] \notin {"bound", "closing"}
  /\ fd \in [Object -> Fd \cup {Unset}]
  /\ io \in [Object -> Fd \cup {Unset}]
  /\ conns \in [Server -> Seq(Fd)]
  /\ early \in BOOLEAN /\ strayed \in BOOLEAN
  /\ left \subseteq Paths

Listed(o) ==
  {fd[o]} \cup IF o \in Server THEN {conns[o][i] : i \in 1 .. Len(conns[o])} ELSE {}

\* An object keeps track of every descriptor it was given, whatever was closed
\* early or failed, so its destructors leave none open.
NothingLeaks ==
  \A f \in Fd : holder[f] \in Object =>
    life[holder[f]] # "none" /\ f \in Listed(holder[f])

\* Constructors and destructors, failed and complete ones in any order, close
\* only what their object was given; it takes a close_connection() before for
\* a descriptor of somebody else to be closed.
ClosesItsOwn == strayed => early

\* A server that has been constructed is the one its path leads to, until its
\* destructor removes the inode.
PathLeadsHere ==
  \A s \in Server : life[s] \in {"bound", "live", "closing"} => inode[PathOf[s]] = s

\* An inode is there only as long as its server, so that the path can be bound
\* again; except where listen() failed.
PathComesBack ==
  \A p \in Paths : inode[p] # NoServer =>
    life[inode[p]] \in {"bound", "live", "closing"} \/ p \in left
=============================================================================
