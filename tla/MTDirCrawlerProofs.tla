-------------------------- MODULE MTDirCrawlerProofs --------------------------
(***************************************************************************)
(* Theorems about MTDirCrawler for any number of workers, any directory     *)
(* tree and any base path.  The first part needs no hypothesis on how the   *)
(* class is used.                                                          *)
(***************************************************************************)
EXTENDS MTDirCrawler, TLAPS, FiniteSetTheorems, SequenceTheorems

-----------------------------------------------------------------------------
(* Counting the active workers.                                            *)

\* A set of workers is finite, and so has a cardinality.
LEMMA WorkersFinite ==
  ASSUME NEW S \in SUBSET Worker
  PROVE  IsFiniteSet(S) /\ Cardinality(S) \in Nat
BY ThreadAssumption, FS_Subset, FS_CardinalityType

\* One worker joining or leaving a set changes its size by one.
LEMMA CountChanges ==
  ASSUME NEW S \in SUBSET Worker, NEW w \in Worker
  PROVE  /\ w \in S => Cardinality(S \ {w}) = Cardinality(S) - 1
         /\ w \notin S => Cardinality(S \cup {w}) = Cardinality(S) + 1
BY WorkersFinite, FS_AddElement, FS_RemoveElement

\* An active worker is counted.
LEMMA CountOne ==
  ASSUME NEW w \in Active
  PROVE  Cardinality(Active) >= 1
<1>1. Active \in SUBSET Worker /\ w \in Worker
  BY DEF Active
<1>2. Cardinality(Active \ {w}) \in Nat
  BY <1>1, WorkersFinite
<1> QED
  BY <1>1, <1>2, WorkersFinite, CountChanges

\* Two active workers are counted as two.
LEMMA CountTwo ==
  ASSUME NEW v \in Active, NEW w \in Active, v # w
  PROVE  Cardinality(Active) >= 2
<1>1. Active \in SUBSET Worker /\ v \in Worker /\ w \in Worker
  BY DEF Active
<1>2. Active \ {v} \in SUBSET Worker /\ w \in Active \ {v}
  BY <1>1
<1>3. Cardinality((Active \ {v}) \ {w}) \in Nat
  BY <1>1, WorkersFinite
<1>4. /\ Cardinality(Active \ {v}) = Cardinality(Active) - 1
      /\ Cardinality((Active \ {v}) \ {w}) = Cardinality(Active \ {v}) - 1
  BY <1>1, <1>2, CountChanges
<1>5. Cardinality(Active) \in Nat /\ Cardinality(Active \ {v}) \in Nat
  BY <1>1, WorkersFinite
<1> QED
  BY <1>3, <1>4, <1>5

\* A set of workers that counts none is empty.
LEMMA NoneCounted ==
  ASSUME Cardinality(Active) = 0
  PROVE  Active = {}
BY CountOne

\* Lemma: while a worker is active, the end has not been announced.
LEMMA ActiveNotDone ==
  ASSUME ThreadInv, NEW w \in Active
  PROVE  Crawling /\ ~done /\ running >= 1
<1>1. Crawling
  BY DEF ThreadInv, Active, At
<1>2. Cardinality(Active) \in Nat /\ Cardinality(Active) >= 1
  BY CountOne, WorkersFinite DEF Active
<1>3. running >= 1
  BY <1>1, <1>2 DEF ThreadInv, RunningCount, TypeOK
<1> QED
  BY <1>1, <1>3 DEF ThreadInv

-----------------------------------------------------------------------------
(* The thread invariant.                                                   *)

\* The constructor establishes the thread invariant.
LEMMA ThreadInvInit == Init => ThreadInv
<1> SUFFICES ASSUME Init PROVE ThreadInv
  OBVIOUS
<1>1. TypeOK
  <2>1. queue \in Seq(Entry)
    BY EmptySeq DEF Init
  <2>2. /\ pc \in [Worker -> Labels]
        /\ node \in [Worker -> Entry \cup {NoEntry}]
        /\ todo \in [Worker -> SUBSET Entry]
    BY DEF Init, Labels
  <2>3. calls \in [Entry -> Nat]
    BY DEF Init
  <2> QED
    BY <2>1, <2>2, <2>3 DEF Init, TypeOK
<1>2. ~Crawling /\ main = "idle" /\ ~done
  BY DEF Init, Crawling
<1>3. \A w \in Worker : pc[w] = "none" /\ todo[w] = {}
  BY DEF Init
<1> QED
  BY <1>1, <1>2, <1>3 DEF ThreadInv, RunningCount, At

\* The critical section's second half, entered afresh or after cv_.wait(),
\* keeps ThreadInv.
LEMMA AwaitWorkThreadInv ==
  ASSUME ThreadInv, NEW w \in Worker, NEW r \in Nat,
         \/ At(w, "enter") /\ r = running - 1 /\ ~NoWorkLeft(r)
         \/ At(w, "woken") /\ r = running,
         AwaitWork(w, r), UNCHANGED <<todo, main, toSpawn, base, calls>>
  PROVE  ThreadInv'
<1> USE DEF At, Goto
<1>1. TypeOK /\ RunningCount /\ Crawling /\ (At(w, "enter") => w \in Active)
  BY DEF ThreadInv, Active, Crawling
<1>2. Active \in SUBSET Worker
  BY DEF Active
<1>3. At(w, "enter") => ~done
  BY <1>1, ActiveNotDone
<1>4. CASE queue = <<>> /\ ~done /\ Goto(w, "wait") /\ running' = r
            /\ UNCHANGED <<queue, done, node>>
  <2>1. r > 0
    BY <1>4 DEF ThreadInv, NoWorkLeft
  <2>2. TypeOK'
    BY <1>1, <1>4 DEF TypeOK, Labels
  <2>3. Active' = Active \ {w}
    BY <1>1, <1>4 DEF Active, TypeOK
  <2>4. running' = Cardinality(Active') + toSpawn'
    <3>1. CASE At(w, "enter")
      BY <1>1, <1>2, <1>4, <2>3, <3>1, CountChanges, WorkersFinite
      DEF RunningCount, TypeOK
    <3>2. CASE At(w, "woken")
      <4>1. Active' = Active /\ r = running
        BY <2>3, <3>2 DEF Active
      <4> QED
        BY <1>1, <1>4, <4>1 DEF RunningCount
    <3> QED
      BY <3>1, <3>2
  <2> QED
    BY <1>1, <1>4, <2>1, <2>2, <2>4
    DEF ThreadInv, RunningCount, Crawling, TypeOK
<1>5. CASE queue = <<>> /\ done /\ Goto(w, "exit") /\ running' = r
            /\ UNCHANGED <<queue, done, node>>
  <2>1. At(w, "woken") /\ r = running
    BY <1>3, <1>5
  <2>2. TypeOK'
    BY <1>1, <1>5 DEF TypeOK, Labels
  <2>3. Active' = Active
    BY <1>1, <1>5, <2>1 DEF Active, TypeOK
  <2> QED
    BY <1>1, <1>5, <2>1, <2>2, <2>3
    DEF ThreadInv, RunningCount, Crawling, TypeOK
<1>6. CASE queue # <<>> /\ TakeFront(w) /\ running' = r + 1 /\ Goto(w, "call")
            /\ UNCHANGED done
  <2>1. ~done
    BY <1>1, <1>6 DEF ThreadInv
  <2>2. Head(queue) \in Entry /\ Tail(queue) \in Seq(Entry)
    BY <1>1, <1>6 DEF TypeOK
  <2>3. TypeOK'
    BY <1>1, <1>6, <2>2 DEF TypeOK, Labels, TakeFront
  <2>4. Active' = Active \cup {w}
    BY <1>1, <1>6 DEF Active, TypeOK
  <2>5. running' = Cardinality(Active') + toSpawn'
    <3>1. CASE At(w, "enter")
      <4>1. Active' = Active
        BY <1>1, <2>4, <3>1
      <4>2. running' = running
        BY <1>1, <1>6, <3>1 DEF TypeOK
      <4> QED
        BY <1>1, <4>1, <4>2 DEF RunningCount
    <3>2. CASE At(w, "woken")
      <4>1. w \notin Active /\ r = running
        BY <3>2 DEF Active
      <4>2. Cardinality(Active \cup {w}) = Cardinality(Active) + 1
        BY <1>2, <4>1, CountChanges
      <4>3. Cardinality(Active) \in Nat
        BY <1>2, WorkersFinite
      <4> QED
        BY <1>1, <1>6, <2>4, <4>1, <4>2, <4>3 DEF RunningCount, TypeOK
    <3> QED
      BY <3>1, <3>2
  <2>6. running' > 0 /\ ~done'
    BY <1>6, <2>1
  <2>7. ASSUME NEW v \in Worker
        PROVE  /\ At(v, "exit")' => done'
               /\ main' # "terminated" /\ pc'[v] \notin {"list", "notify"}
                    => todo'[v] = {}
    BY <1>1, <1>6 DEF ThreadInv, TypeOK
  <2> QED
    BY <1>1, <2>3, <2>5, <2>6, <2>7 DEF ThreadInv, RunningCount, Crawling
<1> QED
  BY <1>4, <1>5, <1>6 DEF AwaitWork

\* A step of the owner preserves the thread invariant.
LEMMA OwnerThreadInv ==
  ASSUME ThreadInv,
         \/ \E b \in Bases, n \in ThreadCounts : CrawlAsync(b, n)
         \/ OwnerStep
  PROVE  ThreadInv'
<1> USE DEF At, Goto
<1>1. TypeOK
  BY DEF ThreadInv
<1>2. CASE \E b \in Bases, n \in ThreadCounts : CrawlAsync(b, n)
  <2> SUFFICES ASSUME NEW b \in Bases, NEW n \in ThreadCounts, CrawlAsync(b, n)
               PROVE  ThreadInv'
    BY <1>2
  <2>1. b \in Entry
    BY EntryAssumption
  <2>2. n \in Nat /\ Cardinality(Worker) \in Nat
    BY ThreadAssumption, FS_CardinalityType
  <2>3. Append(queue, b) \in Seq(Entry)
    BY <1>1, <2>1 DEF TypeOK
  <2>4. TypeOK'
    BY <1>1, <2>1, <2>2, <2>3 DEF TypeOK, CrawlAsync
  <2>5. \A w \in Worker : pc'[w] = "none"
    BY DEF ThreadInv, Crawling, CrawlAsync
  <2>6. Active' = {}
    BY <2>5 DEF Active
  <2>7. running' = Cardinality(Active') + toSpawn'
    BY <2>2, <2>6, FS_EmptySet DEF CrawlAsync
  <2> QED
    BY <2>2, <2>4, <2>5, <2>7 DEF ThreadInv, RunningCount, Crawling, CrawlAsync
<1>3. CASE \E w \in Worker : Spawn(w)
  <2> SUFFICES ASSUME NEW w \in Worker, Spawn(w) PROVE ThreadInv'
    BY <1>3
  <2>1. TypeOK' /\ toSpawn > 0
    BY <1>1 DEF ThreadInv, TypeOK, Spawn, Labels
  <2>2. w \notin Active /\ Active \in SUBSET Worker /\ Active' = Active \cup {w}
    BY <1>1 DEF TypeOK, Active, Spawn
  <2>3. Cardinality(Active') = Cardinality(Active) + 1
    BY <2>2, CountChanges
  <2>4. Cardinality(Active) \in Nat
    BY <2>2, WorkersFinite
  <2>5. running' = Cardinality(Active') + toSpawn'
    BY <1>1, <2>3, <2>4 DEF ThreadInv, RunningCount, Crawling, TypeOK, Spawn
  <2>6. ~done
    BY <1>1, <2>1, <2>4 DEF ThreadInv, RunningCount, Crawling, TypeOK, Spawn
  <2> QED
    BY <1>1, <2>1, <2>5, <2>6 DEF ThreadInv, RunningCount, Crawling, TypeOK, Spawn
<1>4. CASE SpawnFails
  <2>1. TypeOK' /\ Active' = Active
    BY <1>1, <1>4 DEF TypeOK, SpawnFails, Active
  <2> QED
    BY <1>4, <2>1 DEF ThreadInv, RunningCount, Crawling, SpawnFails
<1>5. CASE Wait
  <2>1. TypeOK'
    BY <1>1, <1>5 DEF TypeOK, Wait, Labels
  <2>2. \A w \in Worker : todo[w] = {}
    BY <1>5 DEF ThreadInv, Wait
  <2> QED
    BY <1>5, <2>1, <2>2 DEF ThreadInv, RunningCount, Crawling, Wait
<1> QED
  BY <1>2, <1>3, <1>4, <1>5 DEF OwnerStep

\* Counting a call leaves the counters natural numbers.
LEMMA CountedCall ==
  ASSUME NEW f \in [Entry -> Nat], NEW e
  PROVE  [f EXCEPT ![e] = @ + 1] \in [Entry -> Nat]
<1>1. \A d \in Entry : [f EXCEPT ![e] = @ + 1][d] \in Nat
  <2> SUFFICES ASSUME NEW d \in Entry PROVE [f EXCEPT ![e] = @ + 1][d] \in Nat
    OBVIOUS
  <2>1. CASE d = e
    BY <2>1
  <2>2. CASE d # e
    BY <2>2
  <2> QED
    BY <2>1, <2>2
<1> QED
  BY <1>1

\* A step of a worker preserves the thread invariant.
LEMMA WorkerThreadInv ==
  ASSUME ThreadInv, NEW w \in Worker, Step(w) \/ SpuriousWake(w)
  PROVE  ThreadInv'
<1> USE DEF At, Goto
<1>1. TypeOK /\ Active \in SUBSET Worker
  BY DEF ThreadInv, Active
<1>2. pc[w] # "none" /\ Crawling
  BY DEF ThreadInv, Step, Test, Enter, Relock, Call, CallThrows, ListThrows,
         Push, Notify, SpuriousWake
<1>3. CASE Test(w)
  <2>1. w \in Active
    BY <1>3 DEF Active, Test
  <2>2. ~done
    BY <2>1, ActiveNotDone
  <2>3. TypeOK' /\ Active' = Active
    BY <1>1, <1>3, <2>2 DEF TypeOK, Test, Labels, Active
  <2> QED
    BY <1>1, <1>3, <2>2, <2>3 DEF ThreadInv, RunningCount, Crawling, Test, TypeOK
<1>4. CASE Enter(w)
  <2>1. w \in Active
    BY <1>4 DEF Active, Enter
  <2>2. running - 1 \in Nat /\ ~done
    BY <1>1, <2>1, ActiveNotDone DEF TypeOK
  <2>3. CASE Finish(w, running - 1)
    <3>1. TypeOK'
      BY <1>1, <1>4, <2>2, <2>3 DEF TypeOK, Enter, Finish, WakeAllAndExit, Labels
    <3>2. Active' = Active \ {w}
      BY <1>1, <2>3 DEF TypeOK, Active, Finish, WakeAllAndExit
    <3>3. Cardinality(Active') = Cardinality(Active) - 1
      BY <1>1, <2>1, <3>2, CountChanges
    <3>4. running' = 0 /\ queue' = <<>> /\ done' = TRUE
      <4>1. running' = 0
        BY <1>1, <2>2, <2>3 DEF Finish, NoWorkLeft, TypeOK
      <4>2. queue' = <<>>
        BY <2>3 DEF Finish, NoWorkLeft
      <4>3. done' = TRUE
        BY <2>3 DEF Finish
      <4> QED
        BY <4>1, <4>2, <4>3
    <3>5. UNCHANGED <<todo, main, toSpawn>>
      BY <1>4 DEF Enter
    <3>6. running' = Cardinality(Active') + toSpawn'
      <4>1. running = Cardinality(Active) + toSpawn /\ Cardinality(Active) \in Nat
        BY <1>1, <1>2, WorkersFinite DEF ThreadInv, RunningCount
      <4> QED
        BY <1>1, <2>3, <3>3, <3>5, <4>1 DEF TypeOK, Finish
    <3>7. ASSUME NEW v \in Worker
          PROVE  /\ pc'[v] # "wait"
                 /\ main' # "terminated" /\ pc'[v] \notin {"list", "notify"}
                      => todo'[v] = {}
      <4>1. pc'[v] = IF v = w THEN "exit"
                     ELSE IF pc[v] = "wait" THEN "woken" ELSE pc[v]
        BY <2>3 DEF Finish, WakeAllAndExit
      <4> QED
        BY <1>4, <3>5, <4>1 DEF ThreadInv, Enter
    <3> QED
      BY <1>2, <3>1, <3>4, <3>5, <3>6, <3>7
      DEF ThreadInv, RunningCount, Crawling
  <2>4. CASE ~NoWorkLeft(running - 1) /\ AwaitWork(w, running - 1)
    BY <1>4, <2>2, <2>4, AwaitWorkThreadInv DEF Enter
  <2> QED
    BY <1>4, <2>3, <2>4 DEF Enter
<1>5. CASE Relock(w)
  BY <1>1, <1>5, AwaitWorkThreadInv DEF Relock, TypeOK
<1>6. CASE SpuriousWake(w)
  <2>1. TypeOK' /\ Active' = Active
    BY <1>1, <1>6 DEF TypeOK, SpuriousWake, Labels, Active
  <2> QED
    BY <1>1, <1>6, <2>1 DEF ThreadInv, RunningCount, Crawling, SpuriousWake, TypeOK
<1>7. CASE Call(w)
  <2>1. w \in Active
    BY <1>7 DEF Active, Call
  <2>2. ~done
    BY <2>1, ActiveNotDone
  <2>3. TypeOK' /\ Active' = Active
    <3>1. node[w] \in Expanded => Children[node[w]] \in SUBSET Entry
      BY EntryAssumption
    <3>2. /\ todo' \in [Worker -> SUBSET Entry]
          /\ pc' \in [Worker -> Labels]
      BY <1>1, <1>7, <3>1 DEF TypeOK, Call, Labels
    <3>3. calls' \in [Entry -> Nat]
      BY <1>1, <1>7, CountedCall DEF TypeOK, Call
    <3> QED
      BY <1>1, <1>7, <3>2, <3>3 DEF TypeOK, Call, Active
  <2>4. todo' = [todo EXCEPT ![w] = todo'[w]]
        /\ (pc'[w] \notin {"list", "notify"} => todo'[w] = {})
    BY <1>1, <1>7 DEF TypeOK, Call
  <2> QED
    BY <1>1, <1>2, <1>7, <2>2, <2>3, <2>4
    DEF ThreadInv, RunningCount, Crawling, Call, TypeOK
<1>8. CASE CallThrows(w)
  <2>1. TypeOK'
    <3>1. calls' \in [Entry -> Nat]
      BY <1>1, <1>8, CountedCall DEF TypeOK, CallThrows
    <3>2. pc' \in [Worker -> Labels]
      BY <1>8 DEF CallThrows, Terminate, Labels
    <3> QED
      BY <1>1, <1>8, <3>1, <3>2 DEF TypeOK, CallThrows, Terminate
  <2> QED
    BY <1>8, <2>1 DEF ThreadInv, RunningCount, Crawling, CallThrows, Terminate
<1>9. CASE Push(w)
  <2>1. w \in Active
    BY <1>9 DEF Active, Push
  <2>2. ~done
    BY <2>1, ActiveNotDone
  <2>3. PICK e \in todo[w] : queue' = Append(queue, e)
                             /\ todo' = [todo EXCEPT ![w] = @ \ {e}]
    BY <1>9 DEF Push
  <2>4. TypeOK' /\ Active' = Active
    <3>1. e \in Entry
      BY <1>1 DEF TypeOK
    <3> QED
      BY <1>1, <1>9, <2>3, <3>1 DEF TypeOK, Push, Labels, Active
  <2> QED
    BY <1>1, <1>9, <2>2, <2>3, <2>4
    DEF ThreadInv, RunningCount, Crawling, Push, TypeOK
<1>10. CASE Notify(w)
  <2>1. w \in Active
    BY <1>10 DEF Active, Notify
  <2>2. ~done /\ running > 0
    BY <1>1, <2>1, ActiveNotDone DEF TypeOK
  <2>3. TypeOK' /\ Active' = Active
    BY <1>1, <1>10 DEF TypeOK, Notify, Labels, Active
  <2>4. ASSUME NEW v \in Worker
        PROVE  /\ pc'[v] # "exit"
               /\ pc'[v] \notin {"list", "notify"} => todo[v] = {}
    BY <1>1, <1>2, <1>10, <2>2 DEF ThreadInv, Notify, TypeOK, Crawling
  <2> QED
    BY <1>1, <1>2, <1>10, <2>2, <2>3, <2>4
    DEF ThreadInv, RunningCount, Crawling, Notify, TypeOK
<1>11. CASE ListThrows(w)
  <2>1. TypeOK'
    BY <1>1, <1>11 DEF TypeOK, ListThrows, Terminate, Labels
  <2> QED
    BY <1>11, <2>1 DEF ThreadInv, RunningCount, Crawling, ListThrows, Terminate
<1> QED
  BY <1>3, <1>4, <1>5, <1>6, <1>7, <1>8, <1>9, <1>10, <1>11 DEF Step

\* Every step of the owner and of the workers keeps ThreadInv.
LEMMA ThreadInvNext == ThreadInv /\ [Next]_vars => ThreadInv'
<1> SUFFICES ASSUME ThreadInv, [Next]_vars PROVE ThreadInv'
  OBVIOUS
<1>1. CASE \E b \in Bases, n \in ThreadCounts : CrawlAsync(b, n)
  BY <1>1, OwnerThreadInv
<1>2. CASE OwnerStep
  BY <1>2, OwnerThreadInv
<1>3. CASE \E w \in Worker : Step(w) \/ SpuriousWake(w)
  BY <1>3, WorkerThreadInv
<1>4. CASE UNCHANGED vars
  BY <1>4 DEF vars, ThreadInv, TypeOK, RunningCount, Crawling, Active, At
<1> QED
  BY <1>1, <1>2, <1>3, <1>4 DEF Next

\* ThreadInv holds throughout, however the class is used.
LEMMA ThreadInvariance == Spec => []ThreadInv
BY ThreadInvInit, ThreadInvNext, PTL DEF Spec

\* The variables keep their types; threads_running_ is never negative.
THEOREM TypeCorrect == Spec => []TypeOK
<1>1. ThreadInv => TypeOK
  BY DEF ThreadInv
<1> QED
  BY <1>1, ThreadInvariance, PTL

\* threads_running_ counts the threads that may still queue an entry.
THEOREM CounterCorrect == Spec => []RunningCount
<1>1. ThreadInv => RunningCount
  BY DEF ThreadInv
<1> QED
  BY <1>1, ThreadInvariance, PTL

\* The unlocked read of done_ in `while (!done_)` never meets its write.
THEOREM DoneIsRaceFree == Spec => []DoneRaceFree
<1>1. ThreadInv => DoneRaceFree
  <2> SUFFICES ASSUME ThreadInv, NEW v \in Worker, NEW w \in Worker, v # w,
                      At(v, "test"), At(w, "enter"), NoWorkLeft(running - 1)
               PROVE  FALSE
    BY DEF DoneRaceFree
  <2>1. v \in Active /\ w \in Active /\ Active \in SUBSET Worker
    BY DEF Active, At
  <2>2. Cardinality(Active) \in Nat /\ Cardinality(Active) >= 2
    BY <2>1, CountTwo, WorkersFinite
  <2>3. Crawling
    BY <2>1, ActiveNotDone
  <2> QED
    BY <2>2, <2>3 DEF ThreadInv, TypeOK, RunningCount, NoWorkLeft
<1> QED
  BY <1>1, ThreadInvariance, PTL

\* No worker sleeps unless another one is at work or about to be started, or
\* crawl_async() failed to start it.
THEOREM NobodyStalls == Spec => []NoStall
<1>1. ThreadInv => NoStall
  <2> SUFFICES ASSUME ThreadInv, ~Understaffed, NEW w \in Worker, At(w, "wait"),
                      Active = {}, main # "spawn"
               PROVE  FALSE
    BY DEF NoStall
  <2>1. Crawling /\ ~done
    BY DEF ThreadInv, At
  <2>2. Cardinality(Active) = 0
    BY FS_EmptySet
  <2>3. ~(toSpawn > 0)
    BY <2>1 DEF Crawling, Understaffed
  <2> QED
    BY <2>1, <2>2, <2>3 DEF ThreadInv, TypeOK, RunningCount, At
<1> QED
  BY <1>1, ThreadInvariance, PTL

-----------------------------------------------------------------------------
(* The queue as a set of entries.                                          *)

\* Appending an entry the queue does not hold adds it once.
LEMMA QueuedAppend ==
  ASSUME queue \in Seq(Entry), NEW e \in Entry, queue' = Append(queue, e)
  PROVE  /\ Queued' = Queued \cup {e}
         /\ QueuedOnce /\ e \notin Queued => QueuedOnce'
<1>1. /\ Len(queue) \in Nat
      /\ Len(queue') = Len(queue) + 1
      /\ \A i \in 1 .. Len(queue) : queue'[i] = queue[i]
      /\ queue'[Len(queue) + 1] = e
  OBVIOUS
<1>2. 1 .. Len(queue') = (1 .. Len(queue)) \cup {Len(queue) + 1}
  BY <1>1
<1> QED
  BY <1>1, <1>2 DEF Queued, QueuedOnce

\* Removing the front of a queue without repetitions removes that entry.
LEMMA QueuedTail ==
  ASSUME queue \in Seq(Entry), queue # <<>>, queue' = Tail(queue), QueuedOnce
  PROVE  /\ Head(queue) \in Queued
         /\ Queued' = Queued \ {Head(queue)}
         /\ QueuedOnce'
<1>1. /\ Len(queue) \in Nat \ {0}
      /\ Len(queue') = Len(queue) - 1
      /\ \A i \in 1 .. Len(queue') : queue'[i] = queue[i + 1]
      /\ Head(queue) = queue[1]
  OBVIOUS
<1>2. \A i \in 1 .. Len(queue') : i + 1 \in 1 .. Len(queue) /\ i + 1 # 1
  BY <1>1
<1>3. \A j \in 1 .. Len(queue) : j # 1 => j - 1 \in 1 .. Len(queue') /\ j = (j - 1) + 1
  BY <1>1
<1>4. QueuedOnce'
  BY <1>1, <1>2 DEF QueuedOnce
<1>5. \A j \in 1 .. Len(queue) : j # 1 => queue[j] = queue'[j - 1]
  BY <1>1, <1>3
<1>6. \A i \in 1 .. Len(queue') : queue'[i] \in Queued /\ queue'[i] # queue[1]
  BY <1>1, <1>2 DEF Queued, QueuedOnce
<1>7. \A x \in Queued : x # queue[1] => x \in Queued'
  BY <1>3, <1>5 DEF Queued
<1> QED
  BY <1>1, <1>4, <1>6, <1>7 DEF Queued

-----------------------------------------------------------------------------
(* The work invariant, when the class is used properly.                    *)

\* The constructor establishes the work invariant.
LEMMA WorkInvInit == Init => WorkInv
<1> SUFFICES ASSUME Init PROVE WorkInv
  OBVIOUS
<1>1. CalledAtMostOnce
  BY DEF Init, CalledAtMostOnce
<1>2. IdleIsClean /\ ~Crawling
  BY DEF Init, IdleIsClean, Crawling
<1> QED
  BY <1>1, <1>2 DEF WorkInv

\* A step that moves no entry and makes no call keeps the account.
LEMMA NoWorkMoves ==
  ASSUME Accounted, UNCHANGED <<queue, todo, base, calls>>,
         \A v \in Worker : /\ At(v, "call")' <=> At(v, "call")
                           /\ At(v, "call") => node'[v] = node[v]
  PROVE  Accounted'
<1>1. Queued' = Queued /\ Listed' = Listed /\ (QueuedOnce' <=> QueuedOnce)
  BY DEF Queued, Listed, QueuedOnce
<1>2. InHand' = InHand
  BY DEF InHand
<1>3. Called' = Called /\ Known' = Known /\ Pending' = Pending
  BY <1>1, <1>2 DEF Called, Known, Pending
<1>4. PendingOnce'
  BY <1>1, <1>2 DEF Accounted, PendingOnce
<1> QED
  BY <1>3, <1>4 DEF Accounted

\* Starting a crawl: one entry is pending, none has been called.
LEMMA BeginAccounted ==
  ASSUME ThreadInv, WorkInv, NEW b \in Bases, NEW n \in ThreadCounts,
         CrawlAsync(b, n)
  PROVE  Accounted'
<1>1. queue = <<>> /\ queue' = <<b>>
  BY DEF WorkInv, IdleIsClean, CrawlAsync
<1>2. Queued' = {b} /\ QueuedOnce'
  BY <1>1 DEF Queued, QueuedOnce
<1>3. \A w \in Worker : pc'[w] = "none" /\ todo'[w] = {}
  BY DEF ThreadInv, Crawling, At, CrawlAsync
<1>4. InHand' = {} /\ Listed' = {}
  BY <1>3 DEF InHand, Listed, At
<1>5. Called' = {}
  BY DEF Called, CrawlAsync
<1>6. Known' = {b}
  BY <1>5 DEF Known, CrawlAsync
<1>7. Pending' = {b} /\ PendingOnce'
  BY <1>2, <1>3, <1>4 DEF Pending, PendingOnce, At
<1> QED
  BY <1>5, <1>6, <1>7 DEF Accounted, CrawlAsync

\* Taking the front entry moves it from the queue into a worker's hand.
LEMMA TakeAccounted ==
  ASSUME TypeOK, Accounted, NEW w \in Worker, ~At(w, "call"), queue # <<>>,
         TakeFront(w), Goto(w, "call"), UNCHANGED <<todo, base, calls>>
  PROVE  Accounted'
<1> DEFINE h == Head(queue)
<1>1. h \in Queued /\ Queued' = Queued \ {h} /\ QueuedOnce'
  BY QueuedTail DEF TypeOK, TakeFront, Accounted, PendingOnce
<1>2. \A v \in Worker : /\ At(v, "call")' <=> v = w \/ At(v, "call")
                        /\ node'[v] = IF v = w THEN h ELSE node[v]
  BY DEF TypeOK, TakeFront, Goto, At
<1>3. InHand' = InHand \cup {h}
  BY <1>2 DEF InHand
<1>4. Listed' = Listed /\ Called' = Called /\ Known' = Known
  BY DEF Listed, Called, Known
<1>5. Pending' = Pending
  BY <1>1, <1>3, <1>4 DEF Pending
<1>6. h \notin InHand /\ \A v \in Worker : h \notin todo[v]
  BY <1>1 DEF Accounted, PendingOnce
<1>7. PendingOnce'
  <2>1. Queued' \cap InHand' = {}
    BY <1>1, <1>3 DEF Accounted, PendingOnce
  <2>2. \A v \in Worker : todo'[v] \cap (Queued' \cup InHand') = {}
    BY <1>1, <1>3, <1>6 DEF Accounted, PendingOnce
  <2>3. ASSUME NEW u \in Worker, NEW v \in Worker, u # v,
               At(u, "call")', At(v, "call")'
        PROVE  node'[u] # node'[v]
    BY <1>2, <1>6, <2>3 DEF Accounted, PendingOnce, InHand
  <2>4. ASSUME NEW u \in Worker, NEW v \in Worker, u # v
        PROVE  todo'[u] \cap todo'[v] = {}
    BY <2>4 DEF Accounted, PendingOnce
  <2> QED
    BY <1>1, <2>1, <2>2, <2>3, <2>4 DEF PendingOnce
<1> QED
  BY <1>4, <1>5, <1>7 DEF Accounted

\* Queueing an entry the iterator yielded moves it from the list to the queue.
LEMMA PushAccounted ==
  ASSUME TypeOK, Accounted, NEW w \in Worker, Push(w)
  PROVE  Accounted'
<1>1. PICK e \in todo[w] : queue' = Append(queue, e)
                           /\ todo' = [todo EXCEPT ![w] = @ \ {e}]
  BY DEF Push
<1>2. e \in Entry /\ e \notin Queued /\ e \notin InHand
  BY DEF TypeOK, Accounted, PendingOnce
<1>3. Queued' = Queued \cup {e} /\ QueuedOnce'
  BY <1>1, <1>2, QueuedAppend DEF TypeOK, Accounted, PendingOnce
<1>4. \A v \in Worker : todo'[v] = IF v = w THEN todo[v] \ {e} ELSE todo[v]
  BY <1>1 DEF TypeOK
<1>5. \A v \in Worker : At(v, "call")' <=> At(v, "call")
  BY DEF TypeOK, Push, Goto, At
<1>6. InHand' = InHand
  BY <1>5 DEF InHand, Push
<1>7. \A v \in Worker : v # w => e \notin todo[v]
  BY DEF Accounted, PendingOnce
<1>8. Listed' = Listed \ {e} /\ e \in Listed
  BY <1>4, <1>7 DEF Listed
<1>9. Pending' = Pending
  BY <1>3, <1>6, <1>8 DEF Pending
<1>10. Called' = Called /\ Known' = Known /\ base' = base
  BY DEF Called, Known, Push
<1>11. PendingOnce'
  <2>1. Queued' \cap InHand' = {}
    BY <1>2, <1>3, <1>6 DEF Accounted, PendingOnce
  <2>2. \A v \in Worker : todo'[v] \cap (Queued' \cup InHand') = {}
    BY <1>3, <1>4, <1>6, <1>7 DEF Accounted, PendingOnce
  <2>3. \A u, v \in Worker : u # v => todo'[u] \cap todo'[v] = {}
    BY <1>4 DEF Accounted, PendingOnce
  <2>4. \A u, v \in Worker :
          u # v /\ At(u, "call")' /\ At(v, "call")' => node'[u] # node'[v]
    BY <1>5 DEF Accounted, PendingOnce, Push
  <2> QED
    BY <1>3, <2>1, <2>2, <2>3, <2>4 DEF PendingOnce
<1> QED
  BY <1>9, <1>10, <1>11 DEF Accounted

\* A call takes a known entry that has had no call yet, and counts it.
LEMMA CallFacts ==
  ASSUME TypeOK, WorkInv, Crawling, NEW w \in Worker, At(w, "call"),
         calls' = [calls EXCEPT ![node[w]] = @ + 1]
  PROVE  /\ node[w] \in Known \ Called
         /\ node[w] \in Entry /\ base \in Entry
         /\ Called' = Called \cup {node[w]}
         /\ CalledAtMostOnce'
<1> DEFINE e == node[w]
<1>1. e \in InHand
  BY DEF InHand
<1>2. e \in Known \ Called /\ base \in Entry
  BY <1>1, EntryAssumption DEF WorkInv, Accounted, Pending
<1>3. Called \subseteq Entry /\ Known \subseteq Entry
  BY <1>2, EntryAssumption DEF Called, Known
<1>4. e \in Entry /\ calls[e] = 0
  BY <1>2, <1>3 DEF TypeOK, Called
<1>5. \A x \in Entry : calls'[x] = IF x = e THEN 1 ELSE calls[x]
  BY <1>4 DEF TypeOK
<1>6. Called' = Called \cup {e}
  BY <1>4, <1>5 DEF Called
<1>7. CalledAtMostOnce'
  BY <1>5 DEF CalledAtMostOnce, WorkInv
<1> QED
  BY <1>2, <1>4, <1>6, <1>7

\* A call keeps the account: what it finds was not known before, because no
\* other directory holds it and it is not the base path.
LEMMA CallAccounted ==
  ASSUME ThreadInv, WorkInv, Crawling, NEW w \in Worker, Call(w)
  PROVE  Accounted'
<1> DEFINE e == node[w]
           found == IF e \in Expanded THEN Children[e] ELSE {}
<1>1. TypeOK /\ Accounted /\ At(w, "call")
  BY DEF ThreadInv, WorkInv, Call
<1>2. /\ e \in Known \ Called /\ e \in Entry
      /\ Called' = Called \cup {e}
  BY <1>1, CallFacts DEF Call
<1>3. todo[w] = {}
  BY <1>1 DEF ThreadInv, Crawling, At
<1>4. \A v \in Worker : todo'[v] = IF v = w THEN found ELSE todo[v]
  BY <1>1 DEF TypeOK, Call
<1>5. \A v \in Worker : At(v, "call")' <=> v # w /\ At(v, "call")
  BY <1>1 DEF TypeOK, Call, Goto, At
<1>6. UNCHANGED <<queue, node, base>>
  BY DEF Call
<1>7. InHand' = InHand \ {e} /\ e \in InHand
  <2>1. \A v \in Worker : v # w /\ At(v, "call") => node[v] # e
    BY <1>1 DEF Accounted, PendingOnce
  <2> QED
    BY <1>1, <1>5, <1>6, <2>1 DEF InHand
<1>8. Queued' = Queued /\ QueuedOnce' /\ e \notin Queued
  BY <1>1, <1>6, <1>7 DEF Queued, QueuedOnce, Accounted, PendingOnce
<1>9. Listed' = Listed \cup found /\ e \notin Listed
  <2>1. \A v \in Worker : e \notin todo[v]
    BY <1>1, <1>7 DEF Accounted, PendingOnce
  <2> QED
    BY <1>3, <1>4, <2>1 DEF Listed
<1>10. Known' = Known \cup found
  BY <1>2, <1>6 DEF Known
<1>11. found \cap Known = {}
  <2> SUFFICES ASSUME NEW x \in found, x \in Known PROVE FALSE
    OBVIOUS
  <2>1. e \in Expanded /\ x \in Children[e]
    OBVIOUS
  <2>2. x # base
    BY <1>1, <1>2, <2>1, EntryAssumption DEF Accounted
  <2>3. PICK p \in Called \cap Expanded : x \in Children[p]
    BY <2>2 DEF Known
  <2>4. p \in Entry /\ p # e
    BY <1>2 DEF Called
  <2> QED
    BY <1>2, <2>1, <2>3, <2>4, EntryAssumption
<1>12. Pending' = (Pending \ {e}) \cup found
  BY <1>7, <1>8, <1>9, <1>11, <1>2 DEF Pending
<1>13. Known' = Called' \cup Pending' /\ Called' \cap Pending' = {}
  <2>1. Known = Called \cup Pending /\ Called \cap Pending = {} /\ e \in Pending
    BY <1>1, <1>7 DEF Accounted, Pending
  <2> QED
    BY <1>2, <1>10, <1>11, <1>12, <2>1
<1>14. found \cap (Queued \cup InHand \cup Listed) = {}
  BY <1>1, <1>11 DEF Accounted, Pending
<1>15. PendingOnce'
  <2>1. Queued' \cap InHand' = {}
    BY <1>1, <1>7, <1>8 DEF Accounted, PendingOnce
  <2>2. \A v \in Worker : todo'[v] \cap (Queued' \cup InHand') = {}
    BY <1>1, <1>4, <1>7, <1>8, <1>14 DEF Accounted, PendingOnce
  <2>3. \A v \in Worker : todo[v] \cap found = {}
    BY <1>14 DEF Listed
  <2>4. \A u, v \in Worker : u # v => todo'[u] \cap todo'[v] = {}
    BY <1>1, <1>4, <2>3 DEF Accounted, PendingOnce
  <2>5. \A u, v \in Worker :
          u # v /\ At(u, "call")' /\ At(v, "call")' => node'[u] # node'[v]
    BY <1>1, <1>5, <1>6 DEF Accounted, PendingOnce
  <2> QED
    BY <1>8, <2>1, <2>2, <2>4, <2>5 DEF PendingOnce
<1> QED
  BY <1>1, <1>6, <1>13, <1>15 DEF Accounted

\* The owner's steps preserve the work invariant.
LEMMA OwnerWorkInv ==
  ASSUME ProperUse, ThreadInv, WorkInv,
         \/ \E b \in Bases, n \in ThreadCounts : CrawlAsync(b, n)
         \/ OwnerStep
  PROVE  WorkInv'
<1>1. TypeOK
  BY DEF ThreadInv
<1>2. CASE \E b \in Bases, n \in ThreadCounts : CrawlAsync(b, n)
  <2> SUFFICES ASSUME NEW b \in Bases, NEW n \in ThreadCounts, CrawlAsync(b, n)
               PROVE  WorkInv'
    BY <1>2
  <2>1. Accounted'
    BY BeginAccounted
  <2>2. CalledAtMostOnce'
    BY DEF CalledAtMostOnce, CrawlAsync
  <2>3. n \in Nat /\ n > 0
    BY ThreadAssumption, FS_CardinalityType DEF ProperUse
  <2>4. main' = "spawn" /\ running' > 0
    BY <2>3 DEF CrawlAsync
  <2> QED
    BY <2>1, <2>2, <2>4 DEF WorkInv, IdleIsClean, Crawling
<1>3. CASE \E w \in Worker : Spawn(w)
  <2> SUFFICES ASSUME NEW w \in Worker, Spawn(w) PROVE WorkInv'
    BY <1>3
  <2>1. \A v \in Worker : At(v, "call")' <=> At(v, "call")
    BY <1>1 DEF TypeOK, Spawn, Goto, At
  <2>2. Accounted'
    BY <2>1, NoWorkMoves DEF WorkInv, Crawling, Spawn
  <2>3. Crawling /\ (main' = "join" => toSpawn' = 0)
    BY <1>1 DEF Spawn, TypeOK, Crawling
  <2> QED
    BY <2>2, <2>3 DEF WorkInv, IdleIsClean, CalledAtMostOnce, Crawling, Spawn
<1>4. CASE SpawnFails
  BY <1>4 DEF SpawnFails, ProperUse
<1>5. CASE Wait
  <2>1. Crawling /\ Active = {} /\ toSpawn = 0
    BY <1>5 DEF Wait, Crawling, Active, At, WorkInv
  <2>2. running = 0
    BY <2>1, FS_EmptySet DEF ThreadInv, RunningCount
  <2>3. done
    BY <2>1, <2>2 DEF WorkInv
  <2>4. queue = <<>>
    BY <2>1, <2>3 DEF ThreadInv
  <2> QED
    BY <1>5, <2>2, <2>4 DEF WorkInv, IdleIsClean, CalledAtMostOnce, Crawling, Wait
<1> QED
  BY <1>2, <1>3, <1>4, <1>5 DEF OwnerStep

\* A worker's steps preserve the work invariant.
LEMMA WorkerWorkInv ==
  ASSUME ThreadInv, ThreadInv', WorkInv, NEW w \in Worker,
         Step(w) \/ SpuriousWake(w)
  PROVE  WorkInv'
<1>1. TypeOK /\ Crawling /\ Accounted
  BY DEF ThreadInv, WorkInv, Step, Test, Enter, Relock, Call, CallThrows,
         ListThrows, Push, Notify, SpuriousWake, At
<1>2. CASE Test(w) \/ SpuriousWake(w) \/ Notify(w)
  <2>1. \A v \in Worker : At(v, "call")' <=> At(v, "call")
    BY <1>1, <1>2 DEF TypeOK, Test, SpuriousWake, Notify, Goto, At
  <2>2. UNCHANGED <<queue, running, done, node, todo, main, toSpawn, base, calls>>
    BY <1>2 DEF Test, SpuriousWake, Notify
  <2>3. Accounted'
    BY <1>1, <2>1, <2>2, NoWorkMoves
  <2> QED
    BY <1>1, <2>2, <2>3 DEF WorkInv, IdleIsClean, CalledAtMostOnce, Crawling
<1>3. ASSUME NEW r \in Nat, AwaitWork(w, r), ~At(w, "call"),
             r = running \/ ~NoWorkLeft(r),
             UNCHANGED <<todo, main, toSpawn, base, calls>>
      PROVE  WorkInv'
  <2>1. Accounted'
    <3>1. CASE queue # <<>> /\ TakeFront(w) /\ Goto(w, "call")
      BY <1>1, <1>3, <3>1, TakeAccounted
    <3>2. CASE UNCHANGED <<queue, node>> /\ (Goto(w, "wait") \/ Goto(w, "exit"))
      <4>1. \A v \in Worker : At(v, "call")' <=> At(v, "call")
        BY <1>1, <1>3, <3>2 DEF TypeOK, Goto, At
      <4> QED
        BY <1>1, <1>3, <3>2, <4>1, NoWorkMoves
    <3> QED
      BY <1>3, <3>1, <3>2 DEF AwaitWork
  <2>2. ~done' => running' > 0
    <3>1. CASE running' = r + 1
      BY <3>1
    <3>2. CASE running' = r /\ queue = <<>> /\ UNCHANGED done
      BY <1>1, <1>3, <3>2 DEF WorkInv, NoWorkLeft
    <3> QED
      BY <1>3, <3>1, <3>2 DEF AwaitWork
  <2> QED
    BY <1>1, <1>3, <2>1, <2>2 DEF WorkInv, IdleIsClean, CalledAtMostOnce, Crawling
<1>4. CASE Enter(w)
  <2>1. running - 1 \in Nat
    <3>1. w \in Active
      BY <1>4 DEF Active, Enter, At
    <3> QED
      BY <1>1, <3>1, ActiveNotDone DEF TypeOK
  <2>2. ~At(w, "call") /\ UNCHANGED <<todo, main, toSpawn, base, calls>>
    BY <1>4 DEF Enter, At
  <2>3. CASE Finish(w, running - 1)
    <3>1. \A v \in Worker : At(v, "call")' <=> At(v, "call")
      BY <1>1, <2>2, <2>3 DEF TypeOK, Finish, WakeAllAndExit, At
    <3>2. Accounted'
      BY <1>1, <2>2, <2>3, <3>1, NoWorkMoves DEF Finish
    <3>3. done' = TRUE
      BY <2>3 DEF Finish
    <3> QED
      BY <1>1, <2>2, <3>2, <3>3 DEF WorkInv, IdleIsClean, CalledAtMostOnce, Crawling
  <2>4. CASE ~NoWorkLeft(running - 1) /\ AwaitWork(w, running - 1)
    BY <1>3, <2>1, <2>2, <2>4
  <2> QED
    BY <1>4, <2>3, <2>4 DEF Enter
<1>5. CASE Relock(w)
  <2>1. ~At(w, "call") /\ UNCHANGED <<todo, main, toSpawn, base, calls>>
        /\ AwaitWork(w, running)
    BY <1>5 DEF Relock, At
  <2> QED
    BY <1>1, <1>3, <2>1 DEF TypeOK
<1>6. CASE Call(w)
  <2>1. Accounted'
    BY <1>1, <1>6, CallAccounted
  <2>2. CalledAtMostOnce'
    BY <1>1, <1>6, CallFacts DEF Call
  <2> QED
    BY <1>1, <1>6, <2>1, <2>2 DEF WorkInv, IdleIsClean, Crawling, Call
<1>7. CASE CallThrows(w)
  <2>1. CalledAtMostOnce'
    BY <1>1, <1>7, CallFacts DEF CallThrows
  <2> QED
    BY <1>7, <2>1 DEF WorkInv, IdleIsClean, Crawling, CallThrows, Terminate
<1>8. CASE Push(w)
  <2>1. Accounted'
    BY <1>1, <1>8, PushAccounted
  <2> QED
    BY <1>1, <1>8, <2>1 DEF WorkInv, IdleIsClean, CalledAtMostOnce, Crawling, Push
<1>9. CASE ListThrows(w)
  BY <1>9 DEF WorkInv, IdleIsClean, CalledAtMostOnce, Crawling, ListThrows, Terminate
<1> QED
  BY <1>2, <1>4, <1>5, <1>6, <1>7, <1>8, <1>9 DEF Step

\* A call on an entry is remembered.
LEMMA CalledGrows ==
  ASSUME TypeOK, NEW e \in Entry, calls' = [calls EXCEPT ![e] = @ + 1]
  PROVE  e \in Called' /\ Called \subseteq Called'
<1>1. /\ calls'[e] = calls[e] + 1 /\ calls[e] \in Nat
      /\ \A d \in Entry : d # e => calls'[d] = calls[d]
  BY DEF TypeOK
<1>2. calls'[e] > 0
  BY <1>1
<1> QED
  BY <1>1, <1>2 DEF Called

\* Every step keeps ListInv.
LEMMA ListInvNext ==
  ASSUME ThreadInv, ListInv, [Next]_vars
  PROVE  ListInv'
<1> USE DEF At, Goto
<1>1. TypeOK
  BY DEF ThreadInv
<1>2. ASSUME \A w \in Worker : pc'[w] \notin {"call", "list", "notify"}
      PROVE  ListInv'
  BY <1>2 DEF ListInv
<1>3. ASSUME Called \subseteq Called',
             \A v \in Worker :
               \/ pc'[v] \notin {"call", "list", "notify"}
               \/ pc'[v] = "call" /\ node'[v] \in Entry
               \/ pc'[v] \in {"list", "notify"} /\ node'[v] \in Called'
               \/ pc'[v] = pc[v] /\ node'[v] = node[v]
      PROVE  ListInv'
  BY <1>3 DEF ListInv
<1>4. CASE \E b \in Bases, n \in ThreadCounts : CrawlAsync(b, n)
  BY <1>2, <1>4 DEF ThreadInv, Crawling, CrawlAsync
<1>5. CASE OwnerStep
  <2>1. CASE \E w \in Worker : Spawn(w)
    BY <1>1, <1>3, <2>1 DEF TypeOK, Spawn, Called
  <2>2. CASE SpawnFails
    BY <1>3, <2>2 DEF SpawnFails, Called
  <2>3. CASE Wait
    BY <1>2, <2>3 DEF Wait
  <2> QED
    BY <1>5, <2>1, <2>2, <2>3 DEF OwnerStep
<1>6. ASSUME NEW w \in Worker, Step(w) \/ SpuriousWake(w)
      PROVE  ListInv'
  <2>1. CASE Test(w) \/ SpuriousWake(w)
    BY <1>1, <1>3, <2>1 DEF TypeOK, Test, SpuriousWake, Called
  <2>2. ASSUME NEW r, AwaitWork(w, r), UNCHANGED calls
        PROVE  ListInv'
    <3>1. CASE UNCHANGED node /\ (Goto(w, "wait") \/ Goto(w, "exit"))
      BY <1>1, <1>3, <2>2, <3>1 DEF TypeOK, Called
    <3>2. CASE queue # <<>> /\ TakeFront(w) /\ Goto(w, "call")
      <4>1. Head(queue) \in Entry
        BY <1>1, <3>2 DEF TypeOK
      <4> QED
        BY <1>1, <1>3, <2>2, <3>2, <4>1 DEF TypeOK, TakeFront, Called
    <3> QED
      BY <2>2, <3>1, <3>2 DEF AwaitWork
  <2>3. CASE Enter(w)
    <3>1. CASE Finish(w, running - 1)
      BY <1>1, <1>3, <2>3, <3>1 DEF TypeOK, Enter, Finish, WakeAllAndExit, Called
    <3> QED
      BY <2>2, <2>3, <3>1 DEF Enter
  <2>4. CASE Relock(w)
    BY <2>2, <2>4 DEF Relock
  <2>5. CASE Call(w)
    <3>1. node[w] \in Entry
      BY <2>5 DEF Call, ListInv
    <3>2. node[w] \in Called' /\ Called \subseteq Called'
      BY <1>1, <2>5, <3>1, CalledGrows DEF Call
    <3> QED
      BY <1>1, <1>3, <2>5, <3>2 DEF TypeOK, Call
  <2>6. CASE CallThrows(w) \/ ListThrows(w)
    BY <1>2, <2>6 DEF CallThrows, ListThrows, Terminate
  <2>7. CASE Push(w) \/ Notify(w)
    <3>1. node[w] \in Called /\ Called' = Called /\ node' = node
      BY <2>7 DEF Push, Notify, ListInv, Called
    <3>2. \A v \in Worker : v # w =>
            pc'[v] = pc[v] \/ pc'[v] = "woken"
      BY <1>1, <2>7 DEF TypeOK, Push, Notify
    <3>3. pc'[w] \in {"list", "notify", "test"}
      BY <1>1, <2>7 DEF TypeOK, Push, Notify
    <3> QED
      BY <1>3, <3>1, <3>2, <3>3
  <2> QED
    BY <1>6, <2>1, <2>3, <2>4, <2>5, <2>6, <2>7 DEF Step
<1>7. CASE UNCHANGED vars
  BY <1>3, <1>7 DEF vars, Called
<1> QED
  BY <1>4, <1>5, <1>6, <1>7 DEF Next

\* Used properly, the crawler keeps its whole invariant.
THEOREM Invariance ==
  ASSUME ProperUse
  PROVE  Spec => []IInv
<1>1. Init => IInv
  <2>1. Init => ListInv
    BY DEF Init, ListInv, At
  <2> QED
    BY <2>1, ThreadInvInit, WorkInvInit DEF IInv
<1>2. IInv /\ [Next]_vars => IInv'
  <2> SUFFICES ASSUME IInv, [Next]_vars PROVE IInv'
    OBVIOUS
  <2>1. ThreadInv /\ WorkInv /\ ThreadInv' /\ ListInv'
    BY ThreadInvNext, ListInvNext DEF IInv
  <2>2. CASE \E b \in Bases, n \in ThreadCounts : CrawlAsync(b, n)
    BY <2>1, <2>2, OwnerWorkInv DEF IInv
  <2>3. CASE OwnerStep
    BY <2>1, <2>3, OwnerWorkInv DEF IInv
  <2>4. CASE \E w \in Worker : Step(w) \/ SpuriousWake(w)
    BY <2>1, <2>4, WorkerWorkInv DEF IInv
  <2>5. CASE UNCHANGED vars
    <3>1. \A v \in Worker : (At(v, "call")' <=> At(v, "call")) /\ node'[v] = node[v]
      BY <2>5 DEF vars, At
    <3>2. Crawling => Accounted'
      BY <2>1, <2>5, <3>1, NoWorkMoves DEF vars, WorkInv
    <3>3. WorkInv'
      BY <2>1, <2>5, <3>2 DEF vars, WorkInv, IdleIsClean, CalledAtMostOnce, Crawling
    <3> QED
      BY <2>1, <3>3 DEF IInv
  <2> QED
    BY <2>2, <2>3, <2>4, <2>5 DEF Next
<1> QED
  BY <1>1, <1>2, PTL DEF Spec

\* No interleaving hands an entry to the callback twice.
THEOREM AtMostOneCall ==
  ASSUME ProperUse
  PROVE  Spec => []CalledAtMostOnce
<1>1. IInv => CalledAtMostOnce
  BY DEF IInv, WorkInv
<1> QED
  BY <1>1, Invariance, PTL

\* A crawler that wait() has returned from is as good as new.
THEOREM CleanAfterWait ==
  ASSUME ProperUse
  PROVE  Spec => []IdleIsClean
<1>1. IInv => IdleIsClean
  BY DEF IInv, WorkInv
<1> QED
  BY <1>1, Invariance, PTL

\* Once the end is announced, nothing is pending.
LEMMA NothingPending ==
  ASSUME IInv, Crawling, done
  PROVE  Active = {} /\ Pending = {} /\ Known \subseteq Called
<1>1. queue = <<>> /\ running = 0
  BY DEF IInv, ThreadInv
<1>2. \A w \in Worker : w \notin Active
  <2>1. \A w \in Active : ~done
    BY ActiveNotDone DEF IInv
  <2> QED
    BY <2>1
<1>3. Queued = {}
  BY <1>1 DEF Queued
<1>4. InHand = {}
  BY <1>2 DEF InHand, Active, At
<1>5. \A w \in Worker : todo[w] = {}
  BY <1>2 DEF IInv, ThreadInv, Crawling, Active
<1>6. Pending = {}
  BY <1>3, <1>4, <1>5 DEF Pending, Listed
<1>7. Known = Called \cup Pending
  BY DEF IInv, WorkInv, Accounted
<1>8. Active = {}
  BY <1>2 DEF Active
<1> QED
  BY <1>6, <1>7, <1>8

\* Once the end is announced, every entry of the traversal has been visited.
THEOREM CompleteCrawl ==
  ASSUME ProperUse
  PROVE  Spec => []CompleteWhenDone
<1>1. IInv => CompleteWhenDone
  BY NothingPending DEF CompleteWhenDone
<1> QED
  BY <1>1, Invariance, PTL

\* Used properly, the crawler implements the sequential traversal: every step
\* of a thread is one step of it, or none.
THEOREM Refinement ==
  ASSUME ProperUse
  PROVE  Spec => Refines
<1> DEFINE status == IF Crawling THEN "crawling" ELSE main
<1>1. Init => Abstract!Init
  BY DEF Init, Abstract!Init, Called, Crawling
<1>2. IInv /\ [Next]_vars => [Abstract!Next]_Abstract!vars
  <2> SUFFICES ASSUME IInv, [Next]_vars
               PROVE  [Abstract!Next]_Abstract!vars
    OBVIOUS
  <2>1. TypeOK /\ ThreadInv /\ ListInv /\ WorkInv
    BY DEF IInv, ThreadInv
  <2>2. ASSUME UNCHANGED <<calls, main, base>>
        PROVE  UNCHANGED Abstract!vars
    BY <2>2 DEF Abstract!vars, Called, Crawling
  <2>3. CASE \E b \in Bases, n \in ThreadCounts : CrawlAsync(b, n)
    <3> SUFFICES ASSUME NEW b \in Bases, NEW n \in ThreadCounts, CrawlAsync(b, n)
                 PROVE  Abstract!Begin(b)
      BY <2>3 DEF Abstract!Next
    <3>1. Called' = {}
      BY DEF Called, CrawlAsync
    <3>2. ~Crawling /\ main = "idle" /\ Crawling'
      BY DEF CrawlAsync, Crawling
    <3> QED
      BY <3>1, <3>2 DEF Abstract!Begin, CrawlAsync
  <2>4. CASE \E w \in Worker : Spawn(w)
    <3>1. Crawling /\ Crawling' /\ UNCHANGED <<calls, base>>
      BY <2>4 DEF Spawn, Crawling
    <3> QED
      BY <3>1 DEF Abstract!vars, Called
  <2>5. CASE SpawnFails
    BY <2>5 DEF SpawnFails, ProperUse
  <2>6. CASE Wait
    <3>1. Crawling /\ Active = {} /\ toSpawn = 0
      BY <2>1, <2>6 DEF Wait, Crawling, Active, At, WorkInv
    <3>2. running = 0
      BY <2>1, <3>1, FS_EmptySet DEF ThreadInv, RunningCount
    <3>3. done
      BY <2>1, <3>1, <3>2 DEF WorkInv
    <3>4. Known \subseteq Called
      BY <3>1, <3>3, NothingPending
    <3>5. ~Crawling' /\ main' = "idle" /\ UNCHANGED <<calls, base>>
      BY <2>6 DEF Wait, Crawling
    <3>6. Called' = Called
      BY <3>5 DEF Called
    <3>7. Abstract!End
      BY <3>1, <3>4, <3>5, <3>6 DEF Abstract!End, Abstract!Known, Known
    <3> QED
      BY <3>7 DEF Abstract!Next
  <2>7. ASSUME NEW w \in Worker, Step(w) \/ SpuriousWake(w)
        PROVE  [Abstract!Next]_Abstract!vars
    <3>1. CASE Test(w) \/ Enter(w) \/ Relock(w) \/ SpuriousWake(w) \/ Push(w)
                 \/ Notify(w)
      BY <2>2, <3>1 DEF Test, Enter, Relock, SpuriousWake, Push, Notify
    <3>2. CASE Call(w) \/ CallThrows(w)
      <4>1. /\ At(w, "call") /\ base' = base
            /\ calls' = [calls EXCEPT ![node[w]] = @ + 1]
        BY <3>2 DEF Call, CallThrows, Terminate
      <4>2. Crawling
        BY <2>1, <4>1 DEF ThreadInv, At
      <4>3. /\ node[w] \in Known \ Called
            /\ node[w] \in Entry
            /\ Called' = Called \cup {node[w]}
        BY <2>1, <4>1, <4>2, CallFacts
      <4>4. \/ status' = status
            \/ node[w] \in Unreadable /\ status' = "terminated"
        BY <3>2, <4>2 DEF Call, CallThrows, Terminate, Crawling
      <4>5. Abstract!Visit(node[w])
        BY <4>1, <4>2, <4>3, <4>4 DEF Abstract!Visit, Abstract!Known, Known
      <4> QED
        BY <4>3, <4>5 DEF Abstract!Next, Abstract!VisitSome
    <3>3. CASE ListThrows(w)
      <4>1. UNCHANGED <<calls, base>> /\ node[w] \in Unreadable
            /\ status' = "terminated"
        BY <3>3 DEF ListThrows, Terminate, Crawling
      <4>2. Crawling
        BY <2>1, <3>3 DEF ListThrows, ThreadInv, At
      <4>3. Called \cap Unreadable # {} /\ Called' = Called
        BY <2>1, <3>3, <4>1 DEF ListThrows, ListInv, Called
      <4>4. Abstract!Die
        BY <4>1, <4>2, <4>3 DEF Abstract!Die
      <4> QED
        BY <4>4 DEF Abstract!Next
    <3> QED
      BY <2>7, <3>1, <3>2, <3>3 DEF Step
  <2>8. CASE UNCHANGED vars
    BY <2>2, <2>8 DEF vars
  <2> QED
    BY <2>3, <2>4, <2>5, <2>6, <2>7, <2>8 DEF Next, OwnerStep
<1> QED
  BY <1>1, <1>2, Invariance, PTL DEF Spec, Refines, Abstract!Spec
=============================================================================
