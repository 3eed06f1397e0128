---------------------------- MODULE MTDirCrawler ----------------------------
(***************************************************************************)
(* ffd::MTDirCrawler (src/src/incl/45d/MTDirCrawler.hpp): worker threads   *)
(* share one queue of directory entries, one mutex and one condition       *)
(* variable, and detect by themselves that no work is left.                *)
(*                                                                         *)
(* An entry is known by its path, so the entries below a base path form a  *)
(* tree whatever links the file system holds.  A critical section of       *)
(* mutex_ is one step: everything it touches is touched under the mutex,   *)
(* except the loop condition's read of done_, which is a step of its own.  *)
(***************************************************************************)
EXTENDS Integers, Sequences, FiniteSets

CONSTANTS
  Worker,         \* identities of worker threads
  Entry,          \* directory entries
  Children,       \* what iterating over a directory finds, in any order
  Expanded,       \* entries with callback(e) && is_directory(e)
  Unreadable,     \* entries whose callback, is_directory or iterator may throw
  Bases,          \* base paths a crawl may be given
  ThreadCounts,   \* values of crawl_async's argument `threads`
  SpawnMayFail,   \* may constructing a std::thread throw?
  MaxLeftOver,    \* bound: seeds that crawls without a worker leave queued
  NoEntry         \* a default-constructed directory_entry

ASSUME EntryAssumption ==
  /\ NoEntry \notin Entry
  /\ Children \in [Entry -> SUBSET Entry]
  /\ Expanded \subseteq Entry
  /\ Unreadable \subseteq Entry
  /\ Bases \subseteq Entry
  /\ \A p, q \in Entry : p # q => Children[p] \cap Children[q] = {}
  /\ \A b \in Bases, p \in Entry : b \notin Children[p]

ASSUME ThreadAssumption ==
  /\ IsFiniteSet(Worker)
  /\ ThreadCounts \subseteq 0 .. Cardinality(Worker)
  /\ SpawnMayFail \in BOOLEAN
  /\ MaxLeftOver \in Nat

VARIABLES
  queue,     \* queue_
  running,   \* threads_running_
  done,      \* done_
  pc,        \* where each worker stands; "none" when there is no such thread
  node,      \* a worker's local variable `node`
  todo,      \* entries its directory_iterator has still to yield
  main,      \* where the thread that owns the crawler stands
  toSpawn,   \* threads - i in crawl_async's loop
  base,      \* history: base path of the current or last crawl
  calls      \* history: how often this crawl called the callback on an entry

vars == <<queue, running, done, pc, node, todo, main, toSpawn, base, calls>>

Labels == {"none", "test", "enter", "wait", "woken", "call", "list", "notify",
           "exit"}

Init ==
  /\ queue = <<>>
  /\ running = 0
  /\ done = FALSE
  /\ pc = [w \in Worker |-> "none"]
  /\ node = [w \in Worker |-> NoEntry]
  /\ todo = [w \in Worker |-> {}]
  /\ main = "idle"
  /\ toSpawn = 0
  /\ base = NoEntry
  /\ calls = [e \in Entry |-> 0]

At(w, label) == pc[w] = label
Goto(w, label) == pc' = [pc EXCEPT ![w] = label]

-----------------------------------------------------------------------------
(* The thread that owns the crawler.                                       *)

\* crawl_async() up to its loop.
CrawlAsync(b, threads) ==
  /\ main = "idle"
  /\ Len(queue) <= MaxLeftOver
  /\ queue' = Append(queue, b)
  /\ running' = threads
  /\ toSpawn' = threads
  /\ main' = IF threads = 0 THEN "join" ELSE "spawn"
  /\ base' = b
  /\ calls' = [e \in Entry |-> 0]
  /\ UNCHANGED <<done, pc, node, todo>>

\* One iteration of the loop: workers_.emplace_back starts a thread.
Spawn(w) ==
  /\ main = "spawn"
  /\ At(w, "none")
  /\ Goto(w, "test")
  /\ toSpawn' = toSpawn - 1
  /\ main' = IF toSpawn = 1 THEN "join" ELSE "spawn"
  /\ UNCHANGED <<queue, running, done, node, todo, base, calls>>

\* std::thread's constructor throws; the caller catches it and, as the
\* documentation of crawl_async() demands, still calls wait().
SpawnFails ==
  /\ SpawnMayFail
  /\ main = "spawn"
  /\ main' = "join"
  /\ UNCHANGED <<queue, running, done, pc, node, todo, toSpawn, base, calls>>

\* Mutant of Wait: done_ keeps its value.
Wait_KeepsDone ==
  /\ main = "join"
  /\ \A w \in Worker : At(w, "none") \/ At(w, "exit")
  /\ pc' = [w \in Worker |-> "none"]
  /\ node' = [w \in Worker |-> NoEntry]
  /\ main' = "idle"
  /\ toSpawn' = 0
  /\ UNCHANGED <<queue, running, done, todo, base, calls>>

\* wait(): every thread is joined, then done_ is reset.
Wait ==
  /\ main = "join"
  /\ \A w \in Worker : At(w, "none") \/ At(w, "exit")
  /\ done' = FALSE
  /\ pc' = [w \in Worker |-> "none"]
  /\ node' = [w \in Worker |-> NoEntry]
  /\ main' = "idle"
  /\ toSpawn' = 0
  /\ UNCHANGED <<queue, running, todo, base, calls>>

-----------------------------------------------------------------------------
(* A worker.                                                               *)

\* while (!done_), read without holding mutex_
Test(w) ==
  /\ At(w, "test")
  /\ Goto(w, IF done THEN "exit" ELSE "enter")
  /\ UNCHANGED <<queue, running, done, node, todo, main, toSpawn, base, calls>>

\* Mutants of NoWorkLeft: an off-by-one, and a forgotten look at the queue.
NoWorkLeft_OffByOne(r) == r <= 1 /\ queue = <<>>
NoWorkLeft_IgnoresQueue(r) == r <= 0

\* threads_running_ <= 0 && queue_.empty(), after its decrement to r
NoWorkLeft(r) == r <= 0 /\ queue = <<>>

\* Mutant of WakeAllAndExit: notify_one() for notify_all().
WakeAllAndExit_WakesOne(w) ==
  LET waiting == {v \in Worker : At(v, "wait")}
  IN  IF waiting = {} THEN Goto(w, "exit")
      ELSE \E v \in waiting : pc' = [pc EXCEPT ![w] = "exit", ![v] = "woken"]

\* cv_.notify_all(), and w returns
WakeAllAndExit(w) ==
  pc' = [v \in Worker |-> IF v = w THEN "exit"
                          ELSE IF At(v, "wait") THEN "woken" ELSE pc[v]]

\* No other thread runs and nothing is queued: announce the end.
Finish(w, r) ==
  /\ NoWorkLeft(r)
  /\ running' = r
  /\ done' = TRUE
  /\ WakeAllAndExit(w)
  /\ UNCHANGED <<queue, node>>

\* Mutant of TakeFront: no pop_front().
TakeFront_Keeps(w) ==
  /\ node' = [node EXCEPT ![w] = Head(queue)]
  /\ UNCHANGED queue

\* queue_.front() and queue_.pop_front()
TakeFront(w) ==
  /\ node' = [node EXCEPT ![w] = Head(queue)]
  /\ queue' = Tail(queue)

\* Mutants of AwaitWork: threads_running_ is not raised; the condition of the
\* loop around cv_.wait() leaves done_ out.
AwaitWork_NotCounted(w, r) ==
  /\ running' = r
  /\ UNCHANGED done
  /\ \/ queue = <<>> /\ ~done /\ Goto(w, "wait") /\ UNCHANGED <<queue, node>>
     \/ queue = <<>> /\ done /\ Goto(w, "exit") /\ UNCHANGED <<queue, node>>
     \/ queue # <<>> /\ TakeFront(w) /\ Goto(w, "call")

AwaitWork_IgnoresDone(w, r) ==
  /\ UNCHANGED done
  /\ \/ queue = <<>> /\ Goto(w, "wait") /\ running' = r /\ UNCHANGED <<queue, node>>
     \/ queue # <<>> /\ TakeFront(w) /\ running' = r + 1 /\ Goto(w, "call")

\* The rest of the critical section, entered with threads_running_ = r: sleep
\* on cv_, or return, or take the entry at the front.
AwaitWork(w, r) ==
  \/ /\ queue = <<>> /\ ~done
     /\ Goto(w, "wait")
     /\ running' = r
     /\ UNCHANGED <<queue, done, node>>
  \/ /\ queue = <<>> /\ done
     /\ Goto(w, "exit")
     /\ running' = r
     /\ UNCHANGED <<queue, done, node>>
  \/ /\ queue # <<>>
     /\ TakeFront(w)
     /\ running' = r + 1
     /\ Goto(w, "call")
     /\ UNCHANGED done

\* The critical section at the top of the loop.
Enter(w) ==
  /\ At(w, "enter")
  /\ \/ Finish(w, running - 1)
     \/ ~NoWorkLeft(running - 1) /\ AwaitWork(w, running - 1)
  /\ UNCHANGED <<todo, main, toSpawn, base, calls>>

\* Mutant of Relock: the counter is lowered after the wait as well.
Relock_LowersAgain(w) ==
  /\ At(w, "woken")
  /\ AwaitWork(w, running - 1)
  /\ UNCHANGED <<todo, main, toSpawn, base, calls>>

\* cv_.wait() returns, holding mutex_ again, and the condition is re-tested.
Relock(w) ==
  /\ At(w, "woken")
  /\ AwaitWork(w, running)
  /\ UNCHANGED <<todo, main, toSpawn, base, calls>>

\* cv_.wait() may return without a notification.
SpuriousWake(w) ==
  /\ At(w, "wait")
  /\ Goto(w, "woken")
  /\ UNCHANGED <<queue, running, done, node, todo, main, toSpawn, base, calls>>

\* Mutant of Call: the callback's answer is ignored.
Call_AlwaysRecurses(w) ==
  /\ At(w, "call")
  /\ calls' = [calls EXCEPT ![node[w]] = @ + 1]
  /\ todo' = [todo EXCEPT ![w] = Children[node[w]]]
  /\ Goto(w, IF Children[node[w]] = {} THEN "test" ELSE "list")
  /\ UNCHANGED <<queue, running, done, node, main, toSpawn, base>>

\* callback(node) && is_directory(node), and the directory_iterator opened.
Call(w) ==
  /\ At(w, "call")
  /\ calls' = [calls EXCEPT ![node[w]] = @ + 1]
  /\ LET found == IF node[w] \in Expanded THEN Children[node[w]] ELSE {}
     IN  /\ todo' = [todo EXCEPT ![w] = found]
         /\ Goto(w, IF found = {} THEN "test" ELSE "list")
  /\ UNCHANGED <<queue, running, done, node, main, toSpawn, base>>

\* Nothing in the thread's function catches an exception, so std::terminate()
\* ends the process.
Terminate ==
  /\ main' = "terminated"
  /\ pc' = [v \in Worker |-> "none"]
  /\ UNCHANGED <<queue, running, done, node, todo, toSpawn, base>>

\* One of the three throws.
CallThrows(w) ==
  /\ At(w, "call")
  /\ node[w] \in Unreadable
  /\ calls' = [calls EXCEPT ![node[w]] = @ + 1]
  /\ Terminate

\* In the middle of a directory, queueing an entry or going on to the next one
\* throws.
ListThrows(w) ==
  /\ pc[w] \in {"list", "notify"}
  /\ node[w] \in Unreadable
  /\ Terminate
  /\ UNCHANGED calls

\* The iterator yields an entry, which is queued under mutex_ ...
Push(w) ==
  /\ At(w, "list")
  /\ \E e \in todo[w] :
       /\ queue' = Append(queue, e)
       /\ todo' = [todo EXCEPT ![w] = @ \ {e}]
  /\ Goto(w, "notify")
  /\ UNCHANGED <<running, done, node, main, toSpawn, base, calls>>

\* ... and cv_.notify_one() is called after mutex_ is released.
Notify(w) ==
  /\ At(w, "notify")
  /\ LET next == IF todo[w] = {} THEN "test" ELSE "list"
         waiting == {v \in Worker : At(v, "wait")}
     IN  IF waiting = {} THEN Goto(w, next)
         ELSE \E v \in waiting : pc' = [pc EXCEPT ![w] = next, ![v] = "woken"]
  /\ UNCHANGED <<queue, running, done, node, todo, main, toSpawn, base, calls>>

-----------------------------------------------------------------------------
(* A worker's own step, which the scheduler owes it; not so a spurious     *)
(* return of cv_.wait().                                                   *)
Step(w) ==
  Test(w) \/ Enter(w) \/ Relock(w) \/ Call(w) \/ CallThrows(w)
  \/ Push(w) \/ Notify(w) \/ ListThrows(w)

\* The owner's step once it has started a crawl.
OwnerStep == (\E w \in Worker : Spawn(w)) \/ SpawnFails \/ Wait

Next ==
  \/ \E b \in Bases, n \in ThreadCounts : CrawlAsync(b, n)
  \/ OwnerStep
  \/ \E w \in Worker : Step(w) \/ SpuriousWake(w)

Spec == Init /\ [][Next]_vars

FairSpec == Spec /\ WF_vars(OwnerStep) /\ \A w \in Worker : WF_vars(Step(w))
-----------------------------------------------------------------------------
(* Properties.                                                             *)

Crawling == main \in {"spawn", "join"}

\* Threads that are neither asleep, nor about to re-test the condition, nor gone.
Active == {w \in Worker : pc[w] \in {"test", "enter", "call", "list", "notify"}}

Called == {e \in Entry : calls[e] > 0}
Queued == {queue[i] : i \in 1 .. Len(queue)}
InHand == {node[w] : w \in {v \in Worker : At(v, "call")}}

\* What the workers have still to call the callback on.
Listed == UNION {todo[w] : w \in Worker}
Pending == Queued \cup InHand \cup Listed

\* The base path and every entry of every directory recursed into so far.
Known == {base} \cup UNION {Children[e] : e \in Called \cap Expanded}

\* The types of the variables; threads_running_ never becomes negative.
TypeOK ==
  /\ queue \in Seq(Entry)
  /\ running \in Nat
  /\ done \in BOOLEAN
  /\ pc \in [Worker -> Labels]
  /\ node \in [Worker -> Entry \cup {NoEntry}]
  /\ todo \in [Worker -> SUBSET Entry]
  /\ main \in {"idle", "spawn", "join", "terminated"}
  /\ toSpawn \in Nat
  /\ base \in Entry \cup {NoEntry}
  /\ calls \in [Entry -> Nat]

\* threads_running_, which is lowered on entry to the critical section and
\* raised when an entry is taken, counts the threads that may still queue
\* something, those crawl_async() has yet to start, or has failed to, included.
RunningCount == Crawling => running = Cardinality(Active) + toSpawn

\* done_ is a plain bool that `while (!done_)` reads without the mutex: no
\* thread is about to write it while another is about to read it.
DoneRaceFree ==
  ~ \E v, w \in Worker :
      v # w /\ At(v, "test") /\ At(w, "enter") /\ NoWorkLeft(running - 1)

\* std::thread's constructor threw: threads_running_ counts workers that will
\* never be started, and nothing lowers it again.
Understaffed == main = "join" /\ toSpawn > 0

\* A worker asleep on cv_ has another one that will wake it up, at work or about
\* to be started by crawl_async(); unless starting them failed half-way, when
\* those that were started may all sleep for ever.
NoStall ==
  ~Understaffed /\ (\E w \in Worker : At(w, "wait"))
    => Active # {} \/ main = "spawn"

\* However the threads interleave, no entry is handed to the callback twice.
CalledAtMostOnce == \A e \in Entry : calls[e] <= 1

\* Once a worker has announced the end, every entry the crawl should visit has
\* been visited and no thread can find another one.
CompleteWhenDone == Crawling /\ done => Known \subseteq Called /\ Pending = {}

\* After wait() the object is as its constructor left it: the next crawl starts
\* with nothing queued, no thread counted and done_ false.
IdleIsClean == main = "idle" => queue = <<>> /\ running = 0 /\ ~done

\* The crawler implements the sequential description of a traversal.
Abstract == INSTANCE Traversal WITH
  called <- Called,
  status <- IF Crawling THEN "crawling" ELSE main,
  root <- base

Refines == Abstract!Spec

\* crawl() returns (or the process is terminated by an exception).
Returns == Crawling ~> ~Crawling
-----------------------------------------------------------------------------
(* The inductive invariants behind these properties.                       *)

\* The caller starts at least one worker, and the system lets it.
ProperUse == ~SpawnMayFail /\ 0 \notin ThreadCounts

\* Threads and their counter; this part holds however the class is used.  After
\* the announcement nobody is active or asleep, and before it whoever sleeps or
\* has just been woken is not alone.
ThreadInv ==
  /\ TypeOK
  /\ RunningCount
  /\ ~Crawling => \A w \in Worker : At(w, "none")
  /\ main = "spawn" => toSpawn > 0
  /\ main = "idle" => ~done
  /\ Crawling /\ done =>
       running = 0 /\ queue = <<>> /\ \A w \in Worker : ~At(w, "wait")
  /\ \A w \in Worker :
       /\ pc[w] \in {"wait", "woken"} /\ ~done => running > 0
       /\ At(w, "exit") => done
       /\ main # "terminated" /\ pc[w] \notin {"list", "notify"} => todo[w] = {}

\* A worker has called the callback on the directory it is listing.
ListInv ==
  \A w \in Worker :
    /\ At(w, "call") => node[w] \in Entry
    /\ pc[w] \in {"list", "notify"} => node[w] \in Called

\* Every entry waiting for its call waits in one place only.
QueuedOnce == \A i, j \in 1 .. Len(queue) : queue[i] = queue[j] => i = j

PendingOnce ==
  /\ QueuedOnce
  /\ Queued \cap InHand = {}
  /\ \A w \in Worker : todo[w] \cap (Queued \cup InHand) = {}
  /\ \A v, w \in Worker : v # w =>
       /\ todo[v] \cap todo[w] = {}
       /\ At(v, "call") /\ At(w, "call") => node[v] # node[w]

\* The entries the crawl knows of are those it has called the callback on and
\* those pending, and the two never overlap.
Accounted ==
  /\ base \in Bases
  /\ Known = Called \cup Pending
  /\ Called \cap Pending = {}
  /\ PendingOnce

WorkInv ==
  /\ CalledAtMostOnce
  /\ IdleIsClean
  /\ Crawling =>
       /\ Accounted
       /\ main = "join" => toSpawn = 0
       /\ ~done => running > 0

IInv == ThreadInv /\ ListInv /\ WorkInv
=============================================================================
