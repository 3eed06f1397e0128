--------------------------- MODULE NodeOwnership ----------------------------
(***************************************************************************)
(* Who owns the maps of a configuration's sections: ffd::ConfigNode        *)
(* (src/src/incl/45d/config/ConfigNode.hpp), whose destructor deletes      *)
(* sub_map_ unless is_copy_ is set, in the maps of ffd::ConfigParser       *)
(* objects and in variables of their own, while parsers and nodes are      *)
(* constructed, copied, moved, assigned and destroyed in any order.        *)
(*                                                                         *)
(* A place is somewhere a node can be: a variable, or a name in a parser's *)
(* config_map_.  ConfigParser declares no copy or move of its own, so the  *)
(* compiler's copy and move it member by member; moving an                 *)
(* unordered_map hands over its nodes, which keep their addresses.         *)
(***************************************************************************)

CONSTANTS
  Parser,     \* ConfigParser objects; each is constructed once
  Name,       \* keys and section names
  Variable,   \* ConfigNode objects that are in no map
  Map,        \* section maps on the heap; each is allocated once
  Nil         \* nullptr

Place == Variable \cup (Parser \X Name)
In(p) == {p} \X Name

ASSUME PlaceAssumption ==
  /\ Nil \notin Map /\ Nil \notin Parser
  /\ Parser \cap Map = {}
  /\ Variable \cap (Parser \X Name) = {}

VARIABLES
  life,     \* of a parser: "unborn", "parsing", "alive" or "gone"
  heap,     \* of a map: "fresh", "live" or "deleted"
  node,     \* the node at a place: is there one, its sub_map_ and is_copy_
  ptr,      \* config_map_ptr_: a parser (for its config_map_), a map or Nil
  subs,     \* sub_confs_: the places of the nodes it points to
  fault,    \* undefined behaviour that has happened; nothing follows it
  lapse     \* history: what the program did that the classes do not guard
            \* against, see below

vars == <<life, heap, node, ptr, subs, fault, lapse>>

\* "reowned": a node was moved from a copy.  "overwritten": an owner was
\* assigned to.  "outlived": something was destroyed that something else still
\* points to.  "repeated": a heading's name was in the map.
Lapse == {"reowned", "overwritten", "outlived", "repeated"}

Node == [there : BOOLEAN, sub_map : Map \cup {Nil}, is_copy : BOOLEAN]
NoNode == [there |-> FALSE, sub_map |-> Nil, is_copy |-> TRUE]
NewNode(m) == [there |-> TRUE, sub_map |-> m, is_copy |-> FALSE]

\* Mutant of CopyOf: the flag is copied like the rest.
CopyOf_KeepsFlag(x) == node[x]

\* What ConfigNode's copy constructor makes of the node at x.
CopyOf(x) ==
  [there |-> node[x].there, sub_map |-> node[x].sub_map, is_copy |-> TRUE]

Owns(x) == node[x].sub_map # Nil /\ ~node[x].is_copy
Living(p) == life[p] \in {"parsing", "alive"}

\* Lapses add up.
Note(what) == lapse' = lapse \cup what
When(condition, what) == IF condition THEN {what} ELSE {}

Init ==
  /\ life = [p \in Parser |-> "unborn"]
  /\ heap = [m \in Map |-> "fresh"]
  /\ node = [x \in Place |-> NoNode]
  /\ ptr = [p \in Parser |-> Nil]
  /\ subs = [p \in Parser |-> {}]
  /\ fault = "none"
  /\ lapse = {}

-----------------------------------------------------------------------------
(* The constructor from a file.                                            *)

BeginParse(p) ==
  /\ life[p] = "unborn"
  /\ life' = [life EXCEPT ![p] = "parsing"]
  /\ ptr' = [ptr EXCEPT ![p] = p]
  /\ UNCHANGED <<heap, node, subs, fault, lapse>>

\* config_map_ptr_ can be followed.
Valid(p) == \/ ptr[p] \in Parser /\ Living(ptr[p])
            \/ ptr[p] \in Map /\ heap[ptr[p]] = "live"

\* Following it otherwise is undefined.
Follow(p) == fault' = IF Valid(p) THEN fault ELSE "dangling"

\* An entry has no map, so one in a section owns nothing.
ParseEntry(p, n) ==
  /\ life[p] = "parsing"
  /\ Follow(p)
  /\ node' = IF ptr[p] = p /\ ~node[<<p, n>>].there
             THEN [node EXCEPT ![<<p, n>>] = NewNode(Nil)] ELSE node
  /\ UNCHANGED <<life, heap, ptr, subs, lapse>>

\* Mutant of ParseHeading: std::move() is missing, the local node keeps the map.
ParseHeading_Copies(p, n, m) ==
  /\ life[p] = "parsing" /\ heap[m] = "fresh"
  /\ ptr' = [ptr EXCEPT ![p] = m]
  /\ subs' = [subs EXCEPT ![p] = @ \cup {<<p, n>>}]
  /\ heap' = [heap EXCEPT ![m] = "deleted"]
  /\ node' = IF node[<<p, n>>].there THEN node
             ELSE [node EXCEPT ![<<p, n>>] = [NewNode(m) EXCEPT !.is_copy = TRUE]]
  /\ Note(When(node[<<p, n>>].there, "repeated"))
  /\ UNCHANGED <<life, fault>>

\* The node is moved into a pair and on into config_map_; where insert() finds
\* the name there, it is destroyed with its map.
ParseHeading(p, n, m) ==
  /\ life[p] = "parsing" /\ heap[m] = "fresh"
  /\ ptr' = [ptr EXCEPT ![p] = m]
  /\ subs' = [subs EXCEPT ![p] = @ \cup {<<p, n>>}]
  /\ IF node[<<p, n>>].there
     THEN /\ heap' = [heap EXCEPT ![m] = "deleted"]
          /\ UNCHANGED node
     ELSE /\ heap' = [heap EXCEPT ![m] = "live"]
          /\ node' = [node EXCEPT ![<<p, n>>] = NewNode(m)]
  /\ Note(When(node[<<p, n>>].there, "repeated"))
  /\ UNCHANGED <<life, fault>>

EndParse(p) ==
  /\ life[p] = "parsing"
  /\ life' = [life EXCEPT ![p] = "alive"]
  /\ ptr' = [ptr EXCEPT ![p] = p]
  /\ UNCHANGED <<heap, node, subs, fault, lapse>>

-----------------------------------------------------------------------------
(* Reading and switching sections.                                         *)

\* Mutant of Get: operator[] for at().
Get_Inserts(p, n, v) ==
  LET x == <<ptr[p], n>>
  IN  /\ life[p] = "alive" /\ ~node[v].there
      /\ Follow(p)
      /\ node' = IF ptr[p] \in Parser /\ ~node[x].there
                 THEN [node EXCEPT ![x] = NewNode(Nil)] ELSE node
      /\ UNCHANGED <<life, heap, ptr, subs, lapse>>

\* ffd_internal::get() copies the node it finds into a variable of its own.
Get(p, n, v) ==
  LET x == <<ptr[p], n>>
  IN  /\ life[p] = "alive" /\ ~node[v].there
      /\ Follow(p)
      /\ node' = IF ptr[p] \in Parser /\ Valid(p) THEN [node EXCEPT ![v] = CopyOf(x)]
                 ELSE node
      /\ UNCHANGED <<life, heap, ptr, subs, lapse>>

\* A plain entry's null map is assigned, too, before the exception.
SetSubsection(p, n) ==
  /\ life[p] = "alive" /\ node[<<p, n>>].there
  /\ ptr' = [ptr EXCEPT ![p] = node[<<p, n>>].sub_map]
  /\ UNCHANGED <<life, heap, node, subs, fault, lapse>>

ResetSubsection(p) ==
  /\ life[p] = "alive"
  /\ ptr' = [ptr EXCEPT ![p] = p]
  /\ UNCHANGED <<life, heap, node, subs, fault, lapse>>

-----------------------------------------------------------------------------
(* Nodes outside of maps, and nodes reached through sub_confs_.            *)

\* m is Nil for ConfigNode().
ConstructNode(v, m) ==
  /\ ~node[v].there /\ (m # Nil => heap[m] = "fresh")
  /\ node' = [node EXCEPT ![v] = NewNode(m)]
  /\ heap' = [h \in Map |-> IF h = m THEN "live" ELSE heap[h]]
  /\ UNCHANGED <<life, ptr, subs, fault, lapse>>

CopyNode(v, x) ==
  /\ ~node[v].there /\ node[x].there
  /\ node' = [node EXCEPT ![v] = CopyOf(x)]
  /\ UNCHANGED <<life, heap, ptr, subs, fault, lapse>>

\* Mutant of Moved: the flag is set as the copy constructor sets it.
Moved_AsCopy(x, y) == [node EXCEPT ![x] = CopyOf(y), ![y].sub_map = Nil]

\* The move constructor and the move assignment leave this behind: is_copy_ is
\* cleared whatever it was in the source.
Moved(x, y) == [node EXCEPT ![x] = NewNode(node[y].sub_map), ![y].sub_map = Nil]

Reowning(y) == When(node[y].sub_map # Nil /\ node[y].is_copy, "reowned")

MoveNode(v, y) ==
  /\ ~node[v].there /\ node[y].there
  /\ node' = Moved(v, y)
  /\ Note(Reowning(y))
  /\ UNCHANGED <<life, heap, ptr, subs, fault>>

\* The map that x had is not deleted; x may be y.
MoveAssign(x, y) ==
  /\ node[x].there /\ node[y].there
  /\ node' = Moved(x, y)
  /\ Note(Reowning(y) \cup When(Owns(x), "overwritten"))
  /\ UNCHANGED <<life, heap, ptr, subs, fault>>

-----------------------------------------------------------------------------
(* Copying and moving parsers.                                             *)

\* config_map_ptr_ and sub_confs_ go on pointing into the source.
CopyParser(p, q) ==
  /\ life[p] = "unborn" /\ life[q] = "alive"
  /\ life' = [life EXCEPT ![p] = "alive"]
  /\ node' = [x \in Place |-> IF x \in In(p) THEN CopyOf(<<q, x[2]>>) ELSE node[x]]
  /\ ptr' = [ptr EXCEPT ![p] = ptr[q]]
  /\ subs' = [subs EXCEPT ![p] = subs[q]]
  /\ UNCHANGED <<heap, fault, lapse>>

\* The nodes go to p where they are; config_map_ptr_ is copied.
MoveParser(p, q) ==
  LET To(x) == IF x \in In(q) THEN <<p, x[2]>> ELSE x
      moved == [subs EXCEPT ![p] = subs[q], ![q] = {}]
  IN  /\ life[p] = "unborn" /\ life[q] = "alive"
      /\ life' = [life EXCEPT ![p] = "alive"]
      /\ node' = [x \in Place |-> IF x \in In(p) THEN node[<<q, x[2]>>]
                                  ELSE IF x \in In(q) THEN NoNode ELSE node[x]]
      /\ ptr' = [ptr EXCEPT ![p] = ptr[q]]
      /\ subs' = [r \in Parser |-> {To(x) : x \in moved[r]}]
      /\ UNCHANGED <<heap, fault, lapse>>

-----------------------------------------------------------------------------
(* Destruction of the nodes at the places X.                               *)

Deleted(X) == {node[x].sub_map : x \in {y \in X : Owns(y)}}

Twice(X) ==
  \/ \E m \in Deleted(X) : heap[m] # "live"
  \/ \E x, y \in X : x # y /\ Owns(x) /\ Owns(y) /\ node[x].sub_map = node[y].sub_map

\* A node elsewhere or a parser other than those in P refers to what goes.
LeftPointing(X, P) ==
  \/ \E y \in Place \ X : node[y].sub_map \in Deleted(X)
  \/ \E q \in Parser \ P : /\ Living(q)
                           /\ ptr[q] \in Deleted(X) \cup P \/ subs[q] \cap X # {}

DestroyNodes(X, P) ==
  /\ node' = [x \in Place |-> IF x \in X THEN NoNode ELSE node[x]]
  /\ heap' = [m \in Map |-> IF m \in Deleted(X) THEN "deleted" ELSE heap[m]]
  /\ fault' = IF Twice(X) THEN "twice" ELSE fault
  /\ Note(When(LeftPointing(X, P), "outlived"))

DestroyNode(v) ==
  /\ node[v].there
  /\ DestroyNodes({v}, {})
  /\ UNCHANGED <<life, ptr, subs>>

DestroyParser(p) ==
  /\ life[p] = "alive"
  /\ DestroyNodes(In(p), {p})
  /\ life' = [life EXCEPT ![p] = "gone"]
  /\ ptr' = [ptr EXCEPT ![p] = Nil]
  /\ subs' = [subs EXCEPT ![p] = {}]

-----------------------------------------------------------------------------
ParserStep(p) ==
  \/ BeginParse(p) \/ EndParse(p) \/ ResetSubsection(p) \/ DestroyParser(p)
  \/ \E n \in Name : \/ ParseEntry(p, n) \/ SetSubsection(p, n)
                     \/ \E m \in Map : ParseHeading(p, n, m)
                     \/ \E v \in Variable : Get(p, n, v)
  \/ \E q \in Parser : CopyParser(p, q) \/ MoveParser(p, q)

NodeStep ==
  \/ \E v \in Variable : \/ DestroyNode(v)
                         \/ \E m \in Map \cup {Nil} : ConstructNode(v, m)
                         \/ \E x \in Place : CopyNode(v, x) \/ MoveNode(v, x)
  \/ \E x, y \in Place : MoveAssign(x, y)

Next == fault = "none" /\ ((\E p \in Parser : ParserStep(p)) \/ NodeStep)

Spec == Init /\ [][Next]_vars

-----------------------------------------------------------------------------
(* Properties.                                                             *)

\* The types of the variables; only live parsers hold pointers and nodes.
TypeOK ==
  /\ life \in [Parser -> {"unborn", "parsing", "alive", "gone"}]
  /\ heap \in [Map -> {"fresh", "live", "deleted"}]
  /\ node \in [Place -> Node]
  /\ ptr \in [Parser -> Parser \cup Map \cup {Nil}]
  /\ subs \in [Parser -> SUBSET (Parser \X Name)]
  /\ fault \in {"none", "dangling", "twice"}
  /\ lapse \subseteq Lapse
  /\ \A x \in Place : ~node[x].there => node[x] = NoNode
  /\ \A p \in Parser : ~Living(p) => subs[p] = {}
  /\ \A p \in Parser : ~Living(p) => \A n \in Name : ~node[<<p, n>>].there

\* A section's map is deleted once and has one owner, however parsers and nodes
\* are copied, moved and destroyed, unless a node was moved from a copy
\* (is_copy_ exists "to avoid double deletion of *sub_map_").
DeletedOnce ==
  "reowned" \notin lapse =>
    /\ fault # "twice"
    /\ \A x \in Place : Owns(x) =>
         /\ heap[node[x].sub_map] = "live"
         /\ \A y \in Place : Owns(y) /\ node[y].sub_map = node[x].sub_map => x = y

\* A map that is not deleted belongs to a node that will delete it, unless an
\* owner was assigned to: the move assignment forgets the map it had.
NothingLeaks ==
  "overwritten" \notin lapse =>
    \A m \in Map : heap[m] = "live" => \E x \in Place : Owns(x) /\ node[x].sub_map = m

\* What parsers and nodes point to exists, unless the file repeated a heading or
\* something was destroyed that was still pointed to: no other operation leaves
\* a pointer behind.
PointersValid ==
  lapse \cap {"outlived", "repeated"} = {} =>
    /\ \A x \in Place : node[x].sub_map # Nil => heap[node[x].sub_map] = "live"
    /\ \A p \in Parser : Living(p) /\ ptr[p] # Nil => Valid(p)
    /\ \A p \in Parser : \A x \in subs[p] : node[x].there
=============================================================================
