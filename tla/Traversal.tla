----------------------------- MODULE Traversal ------------------------------
(***************************************************************************)
(* What one ffd::MTDirCrawler promises its caller, whatever the number of  *)
(* worker threads: a crawl calls the callback once for the base path and   *)
(* once for every entry of every directory the callback agreed to recurse  *)
(* into, and returns only when nothing is left to call it for.  How many   *)
(* threads do it, and in which order, is left open.                        *)
(***************************************************************************)

CONSTANTS
  Entry,        \* directory entries, each known by its path
  Children,     \* what iterating over a directory finds
  Expanded,     \* directories the callback returns true for
  Unreadable,   \* entries the process may not survive visiting
  Bases,        \* paths a crawl may start from
  NoEntry       \* "no crawl yet"

VARIABLES
  called,       \* entries the callback has been called for in this crawl
  status,       \* "idle", "crawling" or "terminated"
  root          \* base path of the current or last crawl

vars == <<called, status, root>>

Init ==
  /\ called = {}
  /\ status = "idle"
  /\ root = NoEntry

\* Entries the crawl knows of: the base path and what it found in directories.
Known == {root} \cup UNION {Children[e] : e \in called \cap Expanded}

\* crawl() or crawl_async() is called.
Begin(b) ==
  /\ status = "idle"
  /\ status' = "crawling"
  /\ root' = b
  /\ called' = {}

\* The callback runs on e, for the first and only time.
Visit(e) ==
  /\ status = "crawling"
  /\ e \in Known \ called
  /\ called' = called \cup {e}
  /\ \/ UNCHANGED status
     \/ e \in Unreadable /\ status' = "terminated"
  /\ UNCHANGED root

\* Going through an entry that was visited ends the process.
Die ==
  /\ status = "crawling"
  /\ called \cap Unreadable # {}
  /\ status' = "terminated"
  /\ UNCHANGED <<called, root>>

\* wait() returns: no known entry is left.
End ==
  /\ status = "crawling"
  /\ Known \subseteq called
  /\ status' = "idle"
  /\ UNCHANGED <<called, root>>

VisitSome == \E e \in Entry : Visit(e)

Next == (\E b \in Bases : Begin(b)) \/ VisitSome \/ Die \/ End

Spec == Init /\ [][Next]_vars

\* A crawl makes progress and, when nothing is left, returns.
FairSpec == Spec /\ WF_vars(VisitSome) /\ WF_vars(End)
=============================================================================
