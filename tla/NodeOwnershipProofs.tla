------------------------ MODULE NodeOwnershipProofs -------------------------
(***************************************************************************)
(* Theorems about NodeOwnership for any parsers, names, variables and maps. *)
(* Each invariant is inductive relative to TypeOK.                          *)
(***************************************************************************)
EXTENDS NodeOwnership, TLAPS

-----------------------------------------------------------------------------
(* Nodes.                                                                  *)

\* The fields of a copied node.
LEMMA CopyFacts ==
  ASSUME node \in [Place -> Node], NEW x \in Place
  PROVE  /\ CopyOf(x) \in Node
         /\ CopyOf(x).there = node[x].there
         /\ CopyOf(x).sub_map = node[x].sub_map
         /\ CopyOf(x).is_copy = TRUE
         /\ node[x] = NoNode => CopyOf(x) = NoNode
<1>1. node[x] \in Node
  OBVIOUS
<1>2. CopyOf(x) \in Node
  BY <1>1 DEF CopyOf, Node
<1>3. node[x] = NoNode => CopyOf(x) = NoNode
  BY DEF CopyOf, NoNode
<1> QED
  BY <1>2, <1>3 DEF CopyOf

\* The fields of a new node.
LEMMA NewFacts ==
  ASSUME NEW m \in Map \cup {Nil}
  PROVE  /\ NewNode(m) \in Node
         /\ NewNode(m).there = TRUE
         /\ NewNode(m).sub_map = m
         /\ NewNode(m).is_copy = FALSE
BY DEF NewNode, Node

\* The fields of no node.
LEMMA NoFacts ==
  /\ NoNode \in Node
  /\ NoNode.there = FALSE
  /\ NoNode.sub_map = Nil
  /\ NoNode.is_copy = TRUE
BY DEF NoNode, Node

\* What a move leaves: y's map is at x and nowhere else.
LEMMA MovedFacts ==
  ASSUME node \in [Place -> Node], NEW x \in Place, NEW y \in Place,
         node[y].there, x # y
  PROVE  /\ Moved(x, y) \in [Place -> Node]
         /\ Moved(x, y)[x] = NewNode(node[y].sub_map)
         /\ Moved(x, y)[y].there = TRUE
         /\ Moved(x, y)[y].sub_map = Nil
         /\ \A z \in Place \ {x, y} : Moved(x, y)[z] = node[z]
<1>1. NewNode(node[y].sub_map) \in Node
  BY NewFacts DEF Node
<1> QED
  BY <1>1 DEF Moved, Node

\* Moving a node onto itself loses its map.
LEMMA SelfMovedFacts ==
  ASSUME node \in [Place -> Node], NEW x \in Place, node[x].there
  PROVE  /\ Moved(x, x) \in [Place -> Node]
         /\ Moved(x, x)[x].there = TRUE
         /\ Moved(x, x)[x].sub_map = Nil
         /\ \A z \in Place \ {x} : Moved(x, x)[z] = node[z]
<1>1. NewNode(node[x].sub_map) \in Node
  BY NewFacts DEF Node
<1> QED
  BY <1>1, NewFacts DEF Moved, Node

\* A move makes x a node and leaves y one.
LEMMA MovedTypes ==
  ASSUME TypeOK, NEW x \in Place, NEW y \in Place, node[y].there
  PROVE  /\ Moved(x, y) \in [Place -> Node]
         /\ Moved(x, y)[x].there
         /\ \A z \in Place \ {x} : Moved(x, y)[z].there = node[z].there
         /\ \A z \in Place : ~Moved(x, y)[z].there => Moved(x, y)[z] = NoNode
<1>1. CASE x = y
  BY <1>1, SelfMovedFacts DEF TypeOK
<1>2. CASE x # y
  <2>1. node[y].sub_map \in Map \cup {Nil}
    BY DEF TypeOK, Node
  <2>2. Moved(x, y)[x].there
    BY <1>2, <2>1, MovedFacts, NewFacts DEF TypeOK
  <2>3. Moved(x, y)[y].there /\ Moved(x, y)[y].there = node[y].there
    BY <1>2, MovedFacts DEF TypeOK, Node
  <2>4. \A z \in Place \ {x, y} : Moved(x, y)[z] = node[z]
    BY <1>2, MovedFacts DEF TypeOK
  <2>5. Moved(x, y) \in [Place -> Node]
    BY <1>2, MovedFacts DEF TypeOK
  <2> QED
    BY <2>2, <2>3, <2>4, <2>5 DEF TypeOK
<1> QED
  BY <1>1, <1>2

\* A parser's places.
LEMMA InFacts ==
  /\ \A p \in Parser : In(p) \subseteq Place
  /\ \A p, q \in Parser : p # q => In(p) \cap In(q) = {}
  /\ \A p \in Parser : \A x \in In(p) : x[2] \in Name /\ x = <<p, x[2]>>
  /\ \A v \in Variable : \A p \in Parser : v \notin In(p)
BY PlaceAssumption DEF In, Place

\* A variable is no place in a parser.
LEMMA VariableFacts ==
  ASSUME NEW v \in Variable, NEW p \in Parser, NEW n \in Name
  PROVE  v \in Place /\ <<p, n>> \in Place /\ <<p, n>> # v
<1>1. <<p, n>> \in Parser \X Name
  OBVIOUS
<1> QED
  BY <1>1, PlaceAssumption DEF Place

-----------------------------------------------------------------------------
(* Types.                                                                  *)

LEMMA TypeInit == Init => TypeOK
BY NoFacts DEF Init, TypeOK, Lapse, Living, Place, NoNode, Node

LEMMA TypeNext == TypeOK /\ [Next]_vars => TypeOK'
<1> SUFFICES ASSUME TypeOK, [Next]_vars PROVE TypeOK'
  OBVIOUS
<1> USE DEF TypeOK, Lapse, Note, When
<1>1. ASSUME NEW p \in Parser, BeginParse(p) PROVE TypeOK'
  BY <1>1 DEF BeginParse, Living
<1>2. ASSUME NEW p \in Parser, EndParse(p) PROVE TypeOK'
  BY <1>2 DEF EndParse, Living
<1>3. ASSUME NEW p \in Parser, ResetSubsection(p) PROVE TypeOK'
  BY <1>3 DEF ResetSubsection, Living
<1>4. ASSUME NEW p \in Parser, DestroyParser(p) PROVE TypeOK'
  BY <1>4, NoFacts, InFacts DEF DestroyParser, DestroyNodes, Living, In
<1>5. ASSUME NEW p \in Parser, NEW n \in Name, ParseEntry(p, n) PROVE TypeOK'
  BY <1>5, NewFacts DEF ParseEntry, Follow, Living, Place
<1>6. ASSUME NEW p \in Parser, NEW n \in Name, SetSubsection(p, n) PROVE TypeOK'
  <2>1. node[<<p, n>>].sub_map \in Map \cup {Nil}
    BY DEF Place, Node
  <2> QED
    BY <1>6, <2>1 DEF SetSubsection, Living
<1>7. ASSUME NEW p \in Parser, NEW n \in Name, NEW m \in Map, ParseHeading(p, n, m)
      PROVE  TypeOK'
  <2>1. <<p, n>> \in Place
    BY DEF Place
  <2>2. node' \in [Place -> Node]
    <3>1. NewNode(m) \in Node
      BY NewFacts
    <3> QED
      BY <1>7, <3>1 DEF ParseHeading
  <2>3. \A x \in Place : ~node'[x].there => node'[x] = NoNode
    <3>1. NewNode(m).there
      BY NewFacts
    <3> QED
      BY <1>7, <2>1, <3>1 DEF ParseHeading
  <2>4. \A q \in Parser : ~Living(q)' => \A k \in Name : ~node'[<<q, k>>].there
    BY <1>7, <2>1 DEF ParseHeading, Living, Place
  <2>5. lapse' \subseteq Lapse
    BY <1>7 DEF ParseHeading
  <2>6. /\ heap' \in [Map -> {"fresh", "live", "deleted"}]
        /\ ptr' \in [Parser -> Parser \cup Map \cup {Nil}]
        /\ subs' \in [Parser -> SUBSET (Parser \X Name)]
    BY <1>7 DEF ParseHeading
  <2>7. \A q \in Parser : ~Living(q)' => subs'[q] = {}
    BY <1>7 DEF ParseHeading, Living
  <2> QED
    BY <1>7, <2>2, <2>3, <2>4, <2>5, <2>6, <2>7 DEF ParseHeading
<1>8. ASSUME NEW p \in Parser, NEW n \in Name, NEW v \in Variable, Get(p, n, v)
      PROVE  TypeOK'
  <2>1. ptr[p] \in Parser => <<ptr[p], n>> \in Place
    BY DEF Place
  <2> QED
    <3>1. CASE ptr[p] \in Parser
      <4>1. /\ CopyOf(<<ptr[p], n>>) \in Node
            /\ ~CopyOf(<<ptr[p], n>>).there => CopyOf(<<ptr[p], n>>) = NoNode
        BY <2>1, <3>1, CopyFacts
      <4> QED
        BY <1>8, <4>1, VariableFacts DEF Get, Follow, Living
    <3>2. CASE ptr[p] \notin Parser
      BY <1>8, <3>2 DEF Get, Follow, Living
    <3> QED
      BY <3>1, <3>2
<1>9. ASSUME NEW p \in Parser, NEW q \in Parser, CopyParser(p, q) PROVE TypeOK'
  BY <1>9, CopyFacts, InFacts DEF CopyParser, Living, In, Place
<1>10. ASSUME NEW p \in Parser, NEW q \in Parser, MoveParser(p, q) PROVE TypeOK'
  <2>1. node' \in [Place -> Node]
    BY <1>10, NoFacts, InFacts DEF MoveParser, Place
  <2>2. \A x \in Place : ~node'[x].there => node'[x] = NoNode
    BY <1>10, NoFacts, InFacts DEF MoveParser, Place
  <2>3. \A r \in Parser, k \in Name : ~Living(r)' => ~node'[<<r, k>>].there
    BY <1>10, NoFacts DEF MoveParser, Living, In, Place
  <2>4. subs' \in [Parser -> SUBSET (Parser \X Name)]
    BY <1>10, InFacts DEF MoveParser
  <2>5. \A r \in Parser : ~Living(r)' => subs'[r] = {}
    BY <1>10 DEF MoveParser, Living
  <2> QED
    BY <1>10, <2>1, <2>2, <2>3, <2>4, <2>5 DEF MoveParser
<1>11. ASSUME NEW v \in Variable, DestroyNode(v) PROVE TypeOK'
  BY <1>11, NoFacts, InFacts DEF DestroyNode, DestroyNodes, Living, In, Place
<1>12. ASSUME NEW v \in Variable, NEW m \in Map \cup {Nil}, ConstructNode(v, m)
       PROVE  TypeOK'
  <2>1. NewNode(m) \in Node /\ NewNode(m).there
    BY NewFacts
  <2> QED
    BY <1>12, <2>1, VariableFacts DEF ConstructNode, Living
<1>13. ASSUME NEW v \in Variable, NEW x \in Place, CopyNode(v, x) PROVE TypeOK'
  BY <1>13, CopyFacts, InFacts DEF CopyNode, Living, In, Place
<1>14. ASSUME NEW v \in Variable, NEW x \in Place, MoveNode(v, x) PROVE TypeOK'
  <2>1. v \in Place
    BY DEF Place
  <2>2. /\ node' \in [Place -> Node]
        /\ \A z \in Place : ~node'[z].there => node'[z] = NoNode
    BY <1>14, <2>1, MovedTypes DEF MoveNode
  <2>3. \A p \in Parser, n \in Name : node'[<<p, n>>].there = node[<<p, n>>].there
    <3>1. \A z \in Place \ {v} : node'[z].there = node[z].there
      BY <1>14, <2>1, MovedTypes DEF MoveNode
    <3>2. \A p \in Parser, n \in Name : <<p, n>> \in Place \ {v}
      <4> TAKE p \in Parser, n \in Name
      <4> QED
        BY VariableFacts
    <3> QED
      BY <3>1, <3>2
  <2>4. lapse' \subseteq Lapse
    BY <1>14 DEF MoveNode, Reowning
  <2> QED
    BY <1>14, <2>2, <2>3, <2>4 DEF MoveNode, Living
<1>15. ASSUME NEW x \in Place, NEW y \in Place, MoveAssign(x, y) PROVE TypeOK'
  <2>1. node'[x].there /\ node[x].there
    BY <1>15, MovedTypes DEF MoveAssign
  <2>3. \A z \in Place \ {x} : node'[z].there = node[z].there
    BY <1>15, MovedTypes DEF MoveAssign
  <2>2. \A p \in Parser, n \in Name : <<p, n>> \in Place
    BY DEF Place
  <2> QED
    BY <1>15, <2>1, <2>2, <2>3, MovedTypes DEF MoveAssign, Reowning, Living
<1>16. CASE UNCHANGED vars
  BY <1>16 DEF vars, Living
<1> QED
  BY <1>1, <1>2, <1>3, <1>4, <1>5, <1>6, <1>7, <1>8, <1>9, <1>10, <1>11, <1>12,
     <1>13, <1>14, <1>15, <1>16 DEF Next, ParserStep, NodeStep

\* Types of the parsers, nodes and maps.
THEOREM TypeCorrect == Spec => []TypeOK
BY TypeInit, TypeNext, PTL DEF Spec
-----------------------------------------------------------------------------
(* One owner.                                                              *)

\* A step that makes no owner and deletes nothing.
LEMMA OnceKept ==
  ASSUME DeletedOnce, heap' = heap, lapse \subseteq lapse', fault' \in {fault, "dangling"},
         \A x \in Place : Owns(x)' => Owns(x) /\ node'[x].sub_map = node[x].sub_map
  PROVE  DeletedOnce'
BY DEF DeletedOnce

\* A step that gives a fresh map to a place.
LEMMA OnceFresh ==
  ASSUME TypeOK, DeletedOnce, NEW m \in Map, NEW x \in Place,
         heap[m] = "fresh", heap' \in [Map -> {"fresh", "live", "deleted"}],
         heap'[m] = "live", \A h \in Map \ {m} : heap'[h] = heap[h],
         node' = [node EXCEPT ![x] = NewNode(m)],
         lapse \subseteq lapse', fault' = fault
  PROVE  DeletedOnce'
<1> SUFFICES ASSUME "reowned" \notin lapse' PROVE DeletedOnce'
  BY DEF DeletedOnce
<1>1. \A y \in Place : Owns(y) => node[y].sub_map # m /\ node[y].sub_map \in Map
  BY DEF DeletedOnce, Owns, TypeOK, Node
<1>2. /\ \A y \in Place \ {x} : node'[y] = node[y]
      /\ node'[x].sub_map = m
  BY NewFacts DEF TypeOK
<1>3. \A y \in Place \ {x} : Owns(y)' => Owns(y) /\ node'[y].sub_map = node[y].sub_map
  BY <1>2 DEF Owns
<1> QED
  BY <1>1, <1>2, <1>3 DEF DeletedOnce

\* A move: x owns what y owned.
LEMMA OnceMoved ==
  ASSUME TypeOK, DeletedOnce, NEW x \in Place, NEW y \in Place, node[y].there,
         node' = Moved(x, y), heap' = heap, fault' = fault,
         lapse \cup Reowning(y) \subseteq lapse'
  PROVE  DeletedOnce'
<1> SUFFICES ASSUME "reowned" \notin lapse' PROVE DeletedOnce'
  BY DEF DeletedOnce
<1>1. node[y].sub_map # Nil => Owns(y)
  BY DEF Reowning, When, Owns
<1>2. CASE x = y
  <2>1. node'[x].sub_map = Nil /\ \A z \in Place \ {x} : node'[z] = node[z]
    BY <1>2, SelfMovedFacts DEF TypeOK
  <2>2. \A z \in Place : Owns(z)' => Owns(z) /\ node'[z].sub_map = node[z].sub_map
    BY <2>1 DEF Owns
  <2> QED
    BY <2>2, OnceKept
<1>3. CASE x # y
  <2>1. node[y].sub_map \in Map \cup {Nil}
    BY DEF TypeOK, Node
  <2>2. /\ node'[x] = NewNode(node[y].sub_map) /\ node'[y].sub_map = Nil
        /\ \A z \in Place \ {x, y} : node'[z] = node[z]
    <3>1. node \in [Place -> Node]
      BY DEF TypeOK
    <3> QED
      BY <1>3, <3>1, MovedFacts
  <2>3. node'[x].sub_map = node[y].sub_map
    BY <2>1, <2>2, NewFacts
  <2>4. ~Owns(y)' /\ (Owns(x)' => Owns(y))
    BY <1>1, <2>2, <2>3 DEF Owns
  <2>5. \A z \in Place \ {x, y} :
          Owns(z)' => Owns(z) /\ node'[z].sub_map = node[z].sub_map
    BY <2>2 DEF Owns
  <2> QED
    BY <1>3, <2>3, <2>4, <2>5 DEF DeletedOnce
<1> QED
  BY <1>2, <1>3

\* Destruction deletes only what the destroyed nodes own, and that once.
LEMMA OnceDestroyed ==
  ASSUME TypeOK, DeletedOnce, NEW X \in SUBSET Place, NEW P, DestroyNodes(X, P)
  PROVE  DeletedOnce'
<1> SUFFICES ASSUME "reowned" \notin lapse' PROVE DeletedOnce'
  BY DEF DeletedOnce
<1>1. "reowned" \notin lapse
  BY DEF DestroyNodes, Note
<1>2. ~Twice(X)
  BY <1>1 DEF DeletedOnce, Twice, Deleted
<1>3. fault' # "twice"
  BY <1>1, <1>2 DEF DestroyNodes, DeletedOnce
<1>4. \A x \in Place : Owns(x)' =>
        /\ x \notin X /\ Owns(x)
        /\ node'[x].sub_map = node[x].sub_map /\ node[x].sub_map \in Map
  BY NoFacts DEF DestroyNodes, Owns, TypeOK, Node
<1>5. \A x \in Place : Owns(x)' => heap'[node'[x].sub_map] = "live"
  <2> SUFFICES ASSUME NEW x \in Place, Owns(x)' PROVE heap'[node'[x].sub_map] = "live"
    OBVIOUS
  <2>1. node[x].sub_map \notin Deleted(X)
    BY <1>1, <1>4 DEF Deleted, DeletedOnce
  <2> QED
    BY <1>1, <1>4, <2>1 DEF DestroyNodes, DeletedOnce
<1> QED
  BY <1>1, <1>3, <1>4, <1>5 DEF DeletedOnce

LEMMA OnceNext == TypeOK /\ DeletedOnce /\ [Next]_vars => DeletedOnce'
<1> SUFFICES ASSUME TypeOK, DeletedOnce, [Next]_vars PROVE DeletedOnce'
  OBVIOUS
<1>1. ASSUME NEW p \in Parser,
             BeginParse(p) \/ EndParse(p) \/ ResetSubsection(p)
      PROVE  DeletedOnce'
  BY <1>1 DEF BeginParse, EndParse, ResetSubsection, DeletedOnce, Owns
<1>2. ASSUME NEW p \in Parser, DestroyParser(p) PROVE DeletedOnce'
  BY <1>2, OnceDestroyed, InFacts DEF DestroyParser
<1>3. ASSUME NEW p \in Parser, NEW n \in Name, ParseEntry(p, n) PROVE DeletedOnce'
  <2>1. \A x \in Place : Owns(x)' => Owns(x) /\ node'[x].sub_map = node[x].sub_map
    BY <1>3, NewFacts DEF ParseEntry, Owns, TypeOK
  <2> QED
    BY <1>3, <2>1, OnceKept DEF ParseEntry, Follow
<1>4. ASSUME NEW p \in Parser, NEW n \in Name, SetSubsection(p, n) PROVE DeletedOnce'
  BY <1>4 DEF SetSubsection, DeletedOnce, Owns
<1>5. ASSUME NEW p \in Parser, NEW n \in Name, NEW m \in Map, ParseHeading(p, n, m)
      PROVE  DeletedOnce'
  <2>1. <<p, n>> \in Place
    BY DEF Place
  <2>2. CASE node[<<p, n>>].there
    <3>1. node' = node /\ fault' = fault /\ lapse \subseteq lapse'
      BY <1>5, <2>2 DEF ParseHeading, Note
    <3>2. \A h \in Map : heap[h] = "live" => heap'[h] = "live"
      BY <1>5, <2>2 DEF ParseHeading, TypeOK
    <3>3. \A x \in Place : Owns(x) => node[x].sub_map \in Map
      BY DEF Owns, TypeOK, Node
    <3> QED
      BY <3>1, <3>2, <3>3 DEF DeletedOnce, Owns
  <2>3. CASE ~node[<<p, n>>].there
    BY <1>5, <2>1, <2>3, OnceFresh DEF ParseHeading, TypeOK, Note
  <2> QED
    BY <2>2, <2>3
<1>6. ASSUME NEW p \in Parser, NEW n \in Name, NEW v \in Variable, Get(p, n, v)
      PROVE  DeletedOnce'
  <2>1. ptr[p] \in Parser => <<ptr[p], n>> \in Place
    BY DEF Place
  <2>2. \A x \in Place : Owns(x)' => Owns(x) /\ node'[x].sub_map = node[x].sub_map
    BY <1>6, <2>1, CopyFacts DEF Get, Owns, TypeOK
  <2> QED
    BY <1>6, <2>2, OnceKept DEF Get, Follow
<1>7. ASSUME NEW p \in Parser, NEW q \in Parser, CopyParser(p, q) PROVE DeletedOnce'
  <2>1. \A x \in Place : Owns(x)' => Owns(x) /\ node'[x].sub_map = node[x].sub_map
    <3>1. \A x \in In(p) : <<q, x[2]>> \in Place
      BY InFacts DEF Place
    <3>2. \A x \in In(p) : node'[x].is_copy
      BY <1>7, <3>1, CopyFacts, InFacts DEF CopyParser, TypeOK
    <3>3. \A x \in Place \ In(p) : node'[x] = node[x]
      BY <1>7 DEF CopyParser
    <3> QED
      BY <3>2, <3>3 DEF Owns
  <2> QED
    BY <1>7, <2>1, OnceKept DEF CopyParser
<1>8. ASSUME NEW p \in Parser, NEW q \in Parser, MoveParser(p, q) PROVE DeletedOnce'
  <2>1. p # q
    BY <1>8 DEF MoveParser
  <2> DEFINE From(x) == IF x \in In(p) THEN <<q, x[2]>> ELSE x
  <2>2. \A x \in Place \ In(q) : From(x) \in Place /\ node'[x] = node[From(x)]
    BY <1>8, InFacts DEF MoveParser, Place
  <2>3. \A x \in In(q) : ~Owns(x)'
    BY <1>8, <2>1, InFacts, NoFacts DEF MoveParser, Owns
  <2>4. \A x, y \in Place \ In(q) : From(x) = From(y) => x = y
    BY InFacts DEF In
  <2>5. heap' = heap /\ fault' = fault /\ lapse' = lapse
    BY <1>8 DEF MoveParser
  <2>6. \A x \in Place : Owns(x)' =>
          /\ x \notin In(q) /\ Owns(From(x))
          /\ node'[x].sub_map = node[From(x)].sub_map
    BY <2>2, <2>3 DEF Owns
  <2> HIDE DEF From
  <2> QED
    BY <2>2, <2>4, <2>5, <2>6 DEF DeletedOnce
<1>9. ASSUME NEW v \in Variable, DestroyNode(v) PROVE DeletedOnce'
  BY <1>9, OnceDestroyed DEF DestroyNode, Place
<1>10. ASSUME NEW v \in Variable, NEW m \in Map \cup {Nil}, ConstructNode(v, m)
       PROVE  DeletedOnce'
  <2>1. CASE m \in Map
    BY <1>10, <2>1, OnceFresh, PlaceAssumption DEF ConstructNode, TypeOK, Place
  <2>2. CASE m = Nil
    <3>1. heap' = heap
      BY <1>10, <2>2, PlaceAssumption DEF ConstructNode, TypeOK
    <3>2. \A x \in Place : Owns(x)' => Owns(x) /\ node'[x].sub_map = node[x].sub_map
      BY <1>10, <2>2, NewFacts DEF ConstructNode, Owns, TypeOK
    <3> QED
      BY <1>10, <3>1, <3>2, OnceKept DEF ConstructNode
  <2> QED
    BY <2>1, <2>2
<1>11. ASSUME NEW v \in Variable, NEW x \in Place, CopyNode(v, x) PROVE DeletedOnce'
  <2>1. \A y \in Place : Owns(y)' => Owns(y) /\ node'[y].sub_map = node[y].sub_map
    BY <1>11, CopyFacts DEF CopyNode, Owns, TypeOK
  <2> QED
    BY <1>11, <2>1, OnceKept DEF CopyNode
<1>12. ASSUME NEW v \in Variable, NEW x \in Place, MoveNode(v, x) PROVE DeletedOnce'
  BY <1>12, OnceMoved DEF MoveNode, Note, Place
<1>13. ASSUME NEW x \in Place, NEW y \in Place, MoveAssign(x, y) PROVE DeletedOnce'
  BY <1>13, OnceMoved DEF MoveAssign, Note
<1>14. CASE UNCHANGED vars
  BY <1>14 DEF vars, DeletedOnce, Owns
<1> QED
  BY <1>1, <1>2, <1>3, <1>4, <1>5, <1>6, <1>7, <1>8, <1>9, <1>10, <1>11, <1>12,
     <1>13, <1>14 DEF Next, ParserStep, NodeStep

\* No map is deleted twice unless a node was moved from a copy.
THEOREM OneDeletion == Spec => []DeletedOnce
<1>1. Init => DeletedOnce
  BY NoFacts DEF Init, DeletedOnce, Owns
<1> QED
  BY <1>1, OnceNext, TypeCorrect, PTL DEF Spec
-----------------------------------------------------------------------------
(* No map without an owner.                                                *)

\* A step after which every map that is live was live and what owned it, or
\* what has it now, owns it.
LEMMA LeakKept ==
  ASSUME NothingLeaks, lapse \subseteq lapse',
         \A m \in Map : heap'[m] = "live" => heap[m] = "live",
         "overwritten" \notin lapse' => \A x \in Place :
           Owns(x) /\ heap'[node[x].sub_map] = "live" =>
             \E y \in Place : Owns(y)' /\ node'[y].sub_map = node[x].sub_map
  PROVE  NothingLeaks'
<1> SUFFICES ASSUME "overwritten" \notin lapse', NEW m \in Map, heap'[m] = "live"
             PROVE  \E y \in Place : Owns(y)' /\ node'[y].sub_map = m
  BY DEF NothingLeaks
<1>1. PICK x \in Place : Owns(x) /\ node[x].sub_map = m
  BY DEF NothingLeaks
<1> QED
  BY <1>1

\* A step that changes only places whose nodes own nothing.
LEMMA LeakStable ==
  ASSUME NothingLeaks, lapse \subseteq lapse', heap' = heap,
         \A x \in Place : Owns(x) => node'[x] = node[x]
  PROVE  NothingLeaks'
<1>1. \A x \in Place : Owns(x) => Owns(x)' /\ node'[x].sub_map = node[x].sub_map
  BY DEF Owns
<1> QED
  BY <1>1, LeakKept

\* A step that gives a fresh map to a place whose node owns nothing.
LEMMA LeakFresh ==
  ASSUME TypeOK, NothingLeaks, NEW m \in Map, NEW x \in Place, ~node[x].there,
         \A h \in Map \ {m} : heap'[h] = heap[h],
         node' = [node EXCEPT ![x] = NewNode(m)], lapse \subseteq lapse'
  PROVE  NothingLeaks'
<1> SUFFICES ASSUME "overwritten" \notin lapse', NEW h \in Map, heap'[h] = "live"
             PROVE  \E y \in Place : Owns(y)' /\ node'[y].sub_map = h
  BY DEF NothingLeaks
<1>1. CASE h = m
  <2>1. Owns(x)' /\ node'[x].sub_map = m
    BY NewFacts, PlaceAssumption DEF Owns, TypeOK
  <2> QED
    BY <1>1, <2>1
<1>2. CASE h # m
  <2>1. PICK y \in Place : Owns(y) /\ node[y].sub_map = h
    BY <1>2 DEF NothingLeaks
  <2>2. y # x
    BY <2>1, NoFacts DEF Owns, TypeOK
  <2> QED
    BY <2>1, <2>2 DEF Owns, TypeOK
<1> QED
  BY <1>1, <1>2

\* A move that overwrites no owner.
LEMMA LeakMoved ==
  ASSUME TypeOK, NothingLeaks, NEW x \in Place, NEW y \in Place, node[y].there,
         node' = Moved(x, y), heap' = heap,
         lapse \cup When(Owns(x), "overwritten") \subseteq lapse'
  PROVE  NothingLeaks'
<1> SUFFICES ASSUME "overwritten" \notin lapse' PROVE NothingLeaks'
  BY DEF NothingLeaks
<1>1. ~Owns(x)
  BY DEF When
<1>2. node \in [Place -> Node] /\ node[y].sub_map \in Map \cup {Nil}
  BY DEF TypeOK, Node
<1>3. CASE x = y
  <2>1. \A z \in Place \ {x} : node'[z] = node[z]
    BY <1>2, <1>3, SelfMovedFacts
  <2> QED
    BY <1>1, <2>1, LeakStable
<1>4. CASE x # y
  <2>1. /\ node'[x] = NewNode(node[y].sub_map)
        /\ \A z \in Place \ {x, y} : node'[z] = node[z]
    BY <1>2, <1>4, MovedFacts
  <2>2. Owns(y) => Owns(x)' /\ node'[x].sub_map = node[y].sub_map
    BY <1>2, <2>1, NewFacts DEF Owns
  <2>3. \A z \in Place \ {x, y} :
          Owns(z) => Owns(z)' /\ node'[z].sub_map = node[z].sub_map
    BY <2>1 DEF Owns
  <2> QED
    BY <1>1, <2>2, <2>3, LeakKept
<1> QED
  BY <1>3, <1>4

\* Destruction deletes all that the destroyed nodes own.
LEMMA LeakDestroyed ==
  ASSUME TypeOK, NothingLeaks, NEW X \in SUBSET Place, NEW P, DestroyNodes(X, P)
  PROVE  NothingLeaks'
<1>1. \A m \in Map : heap'[m] = "live" => heap[m] = "live" /\ m \notin Deleted(X)
  BY DEF DestroyNodes
<1>2. \A x \in Place : Owns(x) => node[x].sub_map \in Map
  BY DEF Owns, TypeOK, Node
<1>3. \A x \in Place : Owns(x) /\ heap'[node[x].sub_map] = "live" => x \notin X
  BY <1>1, <1>2 DEF Deleted
<1>4. \A x \in Place \ X : node'[x] = node[x]
  BY DEF DestroyNodes
<1>5. lapse \subseteq lapse'
  BY DEF DestroyNodes, Note
<1> QED
  BY <1>1, <1>3, <1>4, <1>5, LeakKept DEF Owns

LEMMA LeakNext == TypeOK /\ NothingLeaks /\ [Next]_vars => NothingLeaks'
<1> SUFFICES ASSUME TypeOK, NothingLeaks, [Next]_vars PROVE NothingLeaks'
  OBVIOUS
<1>0. \A x \in Place : Owns(x) => node[x].there
  BY NoFacts DEF Owns, TypeOK
<1>1. ASSUME NEW p \in Parser,
             BeginParse(p) \/ EndParse(p) \/ ResetSubsection(p)
      PROVE  NothingLeaks'
  BY <1>1, LeakStable DEF BeginParse, EndParse, ResetSubsection
<1>2. ASSUME NEW p \in Parser, DestroyParser(p) PROVE NothingLeaks'
  BY <1>2, LeakDestroyed, InFacts DEF DestroyParser
<1>3. ASSUME NEW p \in Parser, NEW n \in Name, ParseEntry(p, n) PROVE NothingLeaks'
  <2>1. \A x \in Place : Owns(x) => node'[x] = node[x]
    BY <1>0, <1>3 DEF ParseEntry, TypeOK
  <2> QED
    BY <1>3, <2>1, LeakStable DEF ParseEntry
<1>4. ASSUME NEW p \in Parser, NEW n \in Name, SetSubsection(p, n) PROVE NothingLeaks'
  BY <1>4, LeakStable DEF SetSubsection
<1>5. ASSUME NEW p \in Parser, NEW n \in Name, NEW m \in Map, ParseHeading(p, n, m)
      PROVE  NothingLeaks'
  <2>1. <<p, n>> \in Place
    BY DEF Place
  <2>2. CASE node[<<p, n>>].there
    <3>1. node' = node /\ lapse \subseteq lapse'
      BY <1>5, <2>2 DEF ParseHeading, Note
    <3>2. \A h \in Map : heap'[h] = "live" => heap[h] = "live"
      BY <1>5, <2>2 DEF ParseHeading, TypeOK
    <3> QED
      BY <3>1, <3>2 DEF NothingLeaks, Owns
  <2>3. CASE ~node[<<p, n>>].there
    BY <1>5, <2>1, <2>3, LeakFresh DEF ParseHeading, TypeOK, Note
  <2> QED
    BY <2>2, <2>3
<1>6. ASSUME NEW p \in Parser, NEW n \in Name, NEW v \in Variable, Get(p, n, v)
      PROVE  NothingLeaks'
  <2>1. \A x \in Place : Owns(x) => node'[x] = node[x]
    BY <1>0, <1>6 DEF Get, TypeOK
  <2> QED
    BY <1>6, <2>1, LeakStable DEF Get
<1>7. ASSUME NEW p \in Parser, NEW q \in Parser, CopyParser(p, q) PROVE NothingLeaks'
  <2>1. \A x \in In(p) : ~Owns(x)
    BY <1>0, <1>7, InFacts DEF CopyParser, TypeOK, Living
  <2>2. \A x \in Place : Owns(x) => node'[x] = node[x]
    BY <1>7, <2>1 DEF CopyParser
  <2> QED
    BY <1>7, <2>2, LeakStable DEF CopyParser
<1>8. ASSUME NEW p \in Parser, NEW q \in Parser, MoveParser(p, q) PROVE NothingLeaks'
  <2>1. \A x \in In(p) : ~Owns(x)
    BY <1>0, <1>8, InFacts DEF MoveParser, TypeOK, Living
  <2>2. \A x \in In(q) : <<p, x[2]>> \in Place /\ node'[<<p, x[2]>>] = node[x]
    BY <1>8, InFacts DEF MoveParser, Place, In
  <2>3. \A x \in Place \ (In(p) \cup In(q)) : node'[x] = node[x]
    BY <1>8 DEF MoveParser
  <2>4. heap' = heap /\ lapse' = lapse
    BY <1>8 DEF MoveParser
  <2>5. \A x \in Place : Owns(x) => \E y \in Place : node'[y] = node[x]
    BY <2>1, <2>2, <2>3
  <2> QED
    BY <2>4, <2>5, LeakKept DEF Owns
<1>9. ASSUME NEW v \in Variable, DestroyNode(v) PROVE NothingLeaks'
  BY <1>9, LeakDestroyed DEF DestroyNode, Place
<1>10. ASSUME NEW v \in Variable, NEW m \in Map \cup {Nil}, ConstructNode(v, m)
       PROVE  NothingLeaks'
  <2>1. CASE m \in Map
    BY <1>10, <2>1, LeakFresh DEF ConstructNode, Place
  <2>2. CASE m = Nil
    <3>1. heap' = heap
      BY <1>10, <2>2, PlaceAssumption DEF ConstructNode, TypeOK
    <3> QED
      BY <1>0, <1>10, <3>1, LeakStable DEF ConstructNode, TypeOK
  <2> QED
    BY <2>1, <2>2
<1>11. ASSUME NEW v \in Variable, NEW x \in Place, CopyNode(v, x) PROVE NothingLeaks'
  BY <1>0, <1>11, LeakStable DEF CopyNode, TypeOK
<1>12. ASSUME NEW v \in Variable, NEW x \in Place, MoveNode(v, x) PROVE NothingLeaks'
  <2>1. When(Owns(v), "overwritten") = {}
    BY <1>0, <1>12 DEF When, MoveNode, Place
  <2> QED
    BY <1>12, <2>1, LeakMoved DEF MoveNode, Note, Place
<1>13. ASSUME NEW x \in Place, NEW y \in Place, MoveAssign(x, y) PROVE NothingLeaks'
  BY <1>13, LeakMoved DEF MoveAssign, Note
<1>14. CASE UNCHANGED vars
  BY <1>14, LeakStable DEF vars
<1> QED
  BY <1>1, <1>2, <1>3, <1>4, <1>5, <1>6, <1>7, <1>8, <1>9, <1>10, <1>11, <1>12,
     <1>13, <1>14 DEF Next, ParserStep, NodeStep

\* No map is left without an owner unless an owner was assigned to.
THEOREM NoneLeaks == Spec => []NothingLeaks
<1>1. Init => NothingLeaks
  BY DEF Init, NothingLeaks
<1> QED
  BY <1>1, LeakNext, TypeCorrect, PTL DEF Spec
-----------------------------------------------------------------------------
(* Pointers.                                                               *)

Clean == lapse \cap {"outlived", "repeated"} = {}

MapsLive == \A x \in Place : node[x].sub_map # Nil => heap[node[x].sub_map] = "live"
PtrValid == \A p \in Parser : Living(p) /\ ptr[p] # Nil => Valid(p)
SubsThere == \A p \in Parser : \A x \in subs[p] : node[x].there

LEMMA PointersParts == PointersValid <=> (Clean => MapsLive /\ PtrValid /\ SubsThere)
BY DEF PointersValid, Clean, MapsLive, PtrValid, SubsThere

\* Of a step that takes a clean state to a clean one the three parts are left.
LEMMA PointersStep ==
  ASSUME PointersValid, lapse \subseteq lapse',
         Clean /\ Clean' /\ MapsLive /\ PtrValid /\ SubsThere
           => MapsLive' /\ PtrValid' /\ SubsThere'
  PROVE  PointersValid'
<1>1. Clean' => Clean
  BY DEF Clean
<1>2. PointersValid' <=> (Clean' => MapsLive' /\ PtrValid' /\ SubsThere')
  BY PointersParts, PTL
<1> QED
  BY <1>1, <1>2, PointersParts

\* A step of nodes: it makes only pointers to maps that other nodes point to.
LEMMA PointersKept ==
  ASSUME MapsLive, PtrValid, SubsThere, TypeOK,
         life' = life, ptr' = ptr, subs' = subs, heap' = heap,
         \A x \in Place : node'[x].sub_map # Nil =>
                            \E y \in Place : node[y].sub_map = node'[x].sub_map,
         \A x \in Place : node[x].there => node'[x].there
  PROVE  MapsLive' /\ PtrValid' /\ SubsThere'
<1>1. MapsLive'
  BY DEF MapsLive
<1>2. PtrValid'
  BY DEF PtrValid, Valid, Living
<1>3. SubsThere'
  <2>1. \A p \in Parser : subs[p] \subseteq Place
    BY DEF TypeOK, Place
  <2> QED
    BY <2>1 DEF SubsThere
<1> QED
  BY <1>1, <1>2, <1>3

\* Destruction of nodes that nothing else points to.
LEMMA PointersDestroyed ==
  ASSUME TypeOK, MapsLive, PtrValid, SubsThere, Clean',
         NEW X \in SUBSET Place, NEW P \in SUBSET Parser, DestroyNodes(X, P),
         life' = [p \in Parser |-> IF p \in P THEN "gone" ELSE life[p]],
         \A p \in Parser \ P : ptr'[p] = ptr[p] /\ subs'[p] = subs[p],
         \A p \in P : subs'[p] = {}
  PROVE  MapsLive' /\ PtrValid' /\ SubsThere'
<1>1. ~LeftPointing(X, P)
  BY DEF DestroyNodes, Note, When, Clean
<1>2. \A m \in Map : m \notin Deleted(X) => heap'[m] = heap[m]
  BY DEF DestroyNodes
<1>3. MapsLive'
  <2> SUFFICES ASSUME NEW x \in Place, node'[x].sub_map # Nil
               PROVE  heap'[node'[x].sub_map] = "live"
    BY DEF MapsLive
  <2>1. x \notin X /\ node'[x] = node[x]
    BY NoFacts DEF DestroyNodes
  <2>2. node[x].sub_map \in Map
    BY <2>1 DEF TypeOK, Node
  <2> QED
    BY <1>1, <1>2, <2>1, <2>2 DEF LeftPointing, MapsLive
<1>4. PtrValid'
  <2> SUFFICES ASSUME NEW p \in Parser, Living(p)', ptr'[p] # Nil PROVE Valid(p)'
    BY DEF PtrValid
  <2>1. p \notin P /\ Living(p) /\ ptr'[p] = ptr[p]
    BY DEF Living
  <2>2. ptr[p] \notin Deleted(X) \cup P
    BY <1>1, <2>1 DEF LeftPointing
  <2>3. Valid(p)
    BY <2>1 DEF PtrValid
  <2> QED
    BY <1>2, <2>1, <2>2, <2>3 DEF Valid, Living
<1>5. SubsThere'
  <2> SUFFICES ASSUME NEW p \in Parser, NEW x \in subs'[p] PROVE node'[x].there
    BY DEF SubsThere
  <2>1. p \notin P /\ x \in subs[p]
    OBVIOUS
  <2>2. x \in Place /\ node[x].there
    BY <2>1 DEF TypeOK, SubsThere, Place
  <2>3. Living(p)
    BY <2>1 DEF TypeOK, Living
  <2>4. x \notin X
    BY <1>1, <2>1, <2>3 DEF LeftPointing
  <2> QED
    BY <2>2, <2>4 DEF DestroyNodes
<1> QED
  BY <1>3, <1>4, <1>5

LEMMA PointersNext == TypeOK /\ PointersValid /\ [Next]_vars => PointersValid'
<1> SUFFICES ASSUME TypeOK, PointersValid, [Next]_vars PROVE PointersValid'
  OBVIOUS
<1>0. lapse \subseteq lapse'
  BY DEF Next, ParserStep, NodeStep, vars, BeginParse, EndParse, ResetSubsection,
         DestroyParser, DestroyNodes, ParseEntry, SetSubsection, ParseHeading, Get,
         CopyParser, MoveParser, DestroyNode, ConstructNode, CopyNode, MoveNode,
         MoveAssign, Note
<1> SUFFICES ASSUME Clean, Clean', MapsLive, PtrValid, SubsThere
             PROVE  MapsLive' /\ PtrValid' /\ SubsThere'
  BY <1>0, PointersStep
<1> DEFINE Goal == MapsLive /\ PtrValid /\ SubsThere
<1>1. ASSUME NEW p \in Parser, BeginParse(p) \/ EndParse(p) PROVE Goal'
  <2>1. \A q \in Parser : Living(q) => Living(q)'
    BY <1>1 DEF BeginParse, EndParse, Living, TypeOK
  <2>2. Living(p)'
    BY <1>1 DEF BeginParse, EndParse, Living, TypeOK
  <2>3. \A q \in Parser \ {p} : (Living(q) <=> Living(q)') /\ ptr'[q] = ptr[q]
    BY <1>1 DEF BeginParse, EndParse, Living, TypeOK
  <2>4. ptr'[p] = p /\ heap' = heap /\ node' = node /\ subs' = subs
    BY <1>1 DEF BeginParse, EndParse, TypeOK
  <2>5. PtrValid'
    BY <2>1, <2>2, <2>3, <2>4 DEF PtrValid, Valid
  <2> QED
    BY <2>4, <2>5 DEF MapsLive, SubsThere
<1>2. ASSUME NEW p \in Parser, ResetSubsection(p) PROVE Goal'
  BY <1>2 DEF ResetSubsection, MapsLive, PtrValid, SubsThere, Valid, Living, TypeOK
<1>3. ASSUME NEW p \in Parser, DestroyParser(p) PROVE Goal'
  <2>1. life' = [q \in Parser |-> IF q \in {p} THEN "gone" ELSE life[q]]
    BY <1>3 DEF DestroyParser, TypeOK
  <2>2. /\ \A q \in Parser \ {p} : ptr'[q] = ptr[q] /\ subs'[q] = subs[q]
        /\ \A q \in {p} : subs'[q] = {}
    BY <1>3 DEF DestroyParser, TypeOK
  <2>3. In(p) \in SUBSET Place /\ {p} \in SUBSET Parser
    BY InFacts
  <2>4. DestroyNodes(In(p), {p})
    BY <1>3 DEF DestroyParser
  <2> QED
    BY <2>1, <2>2, <2>3, <2>4, PointersDestroyed
<1>4. ASSUME NEW p \in Parser, NEW n \in Name, ParseEntry(p, n) PROVE Goal'
  <2>1. \A x \in Place : node'[x].sub_map # Nil => node[x].sub_map = node'[x].sub_map
    BY <1>4, NewFacts DEF ParseEntry, TypeOK
  <2>2. \A x \in Place : node[x].there => node'[x].there
    BY <1>4, NewFacts DEF ParseEntry, TypeOK
  <2> QED
    BY <1>4, <2>1, <2>2, PointersKept DEF ParseEntry
<1>5. ASSUME NEW p \in Parser, NEW n \in Name, SetSubsection(p, n) PROVE Goal'
  <2>1. \/ node[<<p, n>>].sub_map = Nil
        \/ /\ node[<<p, n>>].sub_map \in Map
           /\ heap[node[<<p, n>>].sub_map] = "live"
    <3>1. <<p, n>> \in Place
      BY DEF Place
    <3>2. node[<<p, n>>].sub_map \in Map \cup {Nil}
      BY <3>1 DEF TypeOK, Node
    <3> QED
      BY <3>1, <3>2 DEF MapsLive
  <2> QED
    BY <1>5, <2>1 DEF SetSubsection, MapsLive, PtrValid, SubsThere, Valid, Living, TypeOK
<1>6. ASSUME NEW p \in Parser, NEW n \in Name, NEW m \in Map, ParseHeading(p, n, m)
      PROVE  Goal'
  <2>1. ~node[<<p, n>>].there
    BY <1>6 DEF ParseHeading, Note, When, Clean
  <2>2. <<p, n>> \in Place
    BY DEF Place
  <2>3. /\ heap'[m] = "live" /\ \A h \in Map : heap[h] = "live" => heap'[h] = "live"
        /\ life' = life
        /\ ptr'[p] = m /\ \A q \in Parser \ {p} : ptr'[q] = ptr[q]
        /\ subs'[p] = subs[p] \cup {<<p, n>>}
        /\ \A q \in Parser \ {p} : subs'[q] = subs[q]
    BY <1>6, <2>1 DEF ParseHeading, TypeOK
  <2>4. /\ node'[<<p, n>>].there /\ node'[<<p, n>>].sub_map = m
        /\ \A x \in Place \ {<<p, n>>} : node'[x] = node[x]
    <3>1. node' = [node EXCEPT ![<<p, n>>] = NewNode(m)]
      BY <1>6, <2>1 DEF ParseHeading
    <3>2. NewNode(m).there /\ NewNode(m).sub_map = m
      BY NewFacts
    <3> QED
      BY <2>2, <3>1, <3>2 DEF TypeOK
  <2>5. MapsLive'
    BY <2>3, <2>4 DEF MapsLive, TypeOK, Node
  <2>6. PtrValid'
    BY <2>3 DEF PtrValid, Valid, Living
  <2>7. \A q \in Parser : subs[q] \subseteq Place
    BY DEF TypeOK, Place
  <2>8. SubsThere'
    BY <2>3, <2>4, <2>7 DEF SubsThere
  <2> QED
    BY <2>5, <2>6, <2>8
<1>7. ASSUME NEW p \in Parser, NEW n \in Name, NEW v \in Variable, Get(p, n, v)
      PROVE  Goal'
  <2>1. ptr[p] \in Parser => <<ptr[p], n>> \in Place
    BY DEF Place
  <2>2. \A x \in Place : node'[x].sub_map # Nil =>
                           \E y \in Place : node[y].sub_map = node'[x].sub_map
    BY <1>7, <2>1, CopyFacts DEF Get, TypeOK
  <2>3. \A x \in Place : node[x].there => node'[x].there
    BY <1>7 DEF Get, TypeOK
  <2> QED
    BY <1>7, <2>2, <2>3, PointersKept DEF Get
<1>8. ASSUME NEW p \in Parser, NEW q \in Parser, CopyParser(p, q) PROVE Goal'
  <2>1. /\ heap' = heap /\ ptr'[p] = ptr[q] /\ subs'[p] = subs[q] /\ Living(q)
        /\ \A r \in Parser \ {p} : /\ ptr'[r] = ptr[r] /\ subs'[r] = subs[r]
                                   /\ Living(r)' <=> Living(r)
        /\ \A r \in Parser : Living(r) => Living(r)'
    BY <1>8 DEF CopyParser, TypeOK, Living
  <2>2. \A x \in In(p) : <<q, x[2]>> \in Place
    BY InFacts DEF Place
  <2>3. \A x \in Place : node'[x].sub_map # Nil =>
                           \E y \in Place : node[y].sub_map = node'[x].sub_map
    BY <1>8, <2>2, CopyFacts DEF CopyParser, TypeOK
  <2>4. \A x \in In(p) : ~node[x].there
    BY <1>8, InFacts DEF CopyParser, TypeOK, Living
  <2>5. \A x \in Place : node[x].there => node'[x].there
    BY <1>8, <2>4 DEF CopyParser
  <2>6. MapsLive'
    BY <2>1, <2>3 DEF MapsLive
  <2>7. PtrValid'
    BY <2>1 DEF PtrValid, Valid
  <2>8. \A r \in Parser : subs[r] \subseteq Place
    BY DEF TypeOK, Place
  <2>9. SubsThere'
    BY <2>1, <2>5, <2>8 DEF SubsThere
  <2> QED
    BY <2>6, <2>7, <2>9
<1>9. ASSUME NEW p \in Parser, NEW q \in Parser, MoveParser(p, q) PROVE Goal'
  <2> DEFINE To(x) == IF x \in In(q) THEN <<p, x[2]>> ELSE x
  <2>1. /\ heap' = heap /\ ptr'[p] = ptr[q] /\ Living(q)
        /\ \A r \in Parser \ {p} : ptr'[r] = ptr[r] /\ (Living(r)' <=> Living(r))
        /\ \A r \in Parser : Living(r) => Living(r)'
    BY <1>9 DEF MoveParser, TypeOK, Living
  <2>2. \A x \in In(p) : <<q, x[2]>> \in Place
    BY InFacts DEF Place
  <2>3. \A x \in Place : node'[x].sub_map # Nil =>
                           \E y \in Place : node[y].sub_map = node'[x].sub_map
    BY <1>9, <2>2, NoFacts DEF MoveParser
  <2>4. \A x \in In(p) : ~node[x].there
    BY <1>9, InFacts DEF MoveParser, TypeOK, Living
  <2>5. \A x \in Place : node[x].there => node'[To(x)].there
    BY <1>9, <2>4, InFacts DEF MoveParser, In, Place
  <2>6. MapsLive'
    BY <2>1, <2>3 DEF MapsLive
  <2>7. PtrValid'
    BY <2>1 DEF PtrValid, Valid
  <2>8. \A r \in Parser : subs[r] \subseteq Place
    BY DEF TypeOK, Place
  <2>9. \A r \in Parser : \A y \in subs'[r] : \E s \in Parser : \E x \in subs[s] : y = To(x)
    BY <1>9 DEF MoveParser, TypeOK
  <2>10. SubsThere'
    BY <2>5, <2>8, <2>9 DEF SubsThere
  <2> QED
    BY <2>6, <2>7, <2>10
<1>10. ASSUME NEW v \in Variable, DestroyNode(v) PROVE Goal'
  <2>1. life' = [q \in Parser |-> IF q \in {} THEN "gone" ELSE life[q]]
    BY <1>10 DEF DestroyNode, TypeOK
  <2>2. {v} \in SUBSET Place /\ {} \in SUBSET Parser
    BY DEF Place
  <2>3. DestroyNodes({v}, {})
    BY <1>10 DEF DestroyNode
  <2> QED
    BY <1>10, <2>1, <2>2, <2>3, PointersDestroyed DEF DestroyNode
<1>11. ASSUME NEW v \in Variable, NEW m \in Map \cup {Nil}, ConstructNode(v, m)
       PROVE  Goal'
  <2>1. /\ \A h \in Map : heap[h] = "live" => heap'[h] = "live"
        /\ m # Nil => heap'[m] = "live"
        /\ life' = life /\ ptr' = ptr /\ subs' = subs
    BY <1>11 DEF ConstructNode
  <2>2. /\ v \in Place /\ node'[v].there /\ node'[v].sub_map = m
        /\ \A x \in Place \ {v} : node'[x] = node[x]
    BY <1>11, NewFacts DEF ConstructNode, TypeOK, Place
  <2>3. MapsLive'
    BY <2>1, <2>2 DEF MapsLive, TypeOK, Node
  <2>4. PtrValid'
    BY <2>1 DEF PtrValid, Valid, Living
  <2>5. \A q \in Parser : subs[q] \subseteq Place
    BY DEF TypeOK, Place
  <2>6. SubsThere'
    BY <2>1, <2>2, <2>5 DEF SubsThere
  <2> QED
    BY <2>3, <2>4, <2>6
<1>12. ASSUME NEW v \in Variable, NEW x \in Place, CopyNode(v, x) PROVE Goal'
  <2>1. \A z \in Place : node'[z].sub_map # Nil =>
                           \E y \in Place : node[y].sub_map = node'[z].sub_map
    BY <1>12, CopyFacts DEF CopyNode, TypeOK
  <2>2. \A z \in Place : node[z].there => node'[z].there
    BY <1>12 DEF CopyNode, TypeOK
  <2> QED
    BY <1>12, <2>1, <2>2, PointersKept DEF CopyNode
<1>13. ASSUME NEW x \in Place, NEW y \in Place, node[y].there, node' = Moved(x, y),
              UNCHANGED <<life, heap, ptr, subs>>
       PROVE  Goal'
  <2>1. node \in [Place -> Node] /\ node[y].sub_map \in Map \cup {Nil}
    BY DEF TypeOK, Node
  <2>2. \A z \in Place : node[z].there => node'[z].there
    BY <1>13, MovedTypes
  <2>3. CASE x = y
    <3>1. node'[x].sub_map = Nil /\ \A z \in Place \ {x} : node'[z] = node[z]
      BY <1>13, <2>1, <2>3, SelfMovedFacts
    <3> QED
      BY <1>13, <2>2, <3>1, PointersKept
  <2>4. CASE x # y
    <3>1. /\ node'[x] = NewNode(node[y].sub_map) /\ node'[y].sub_map = Nil
          /\ \A z \in Place \ {x, y} : node'[z] = node[z]
      BY <1>13, <2>1, <2>4, MovedFacts
    <3>2. node'[x].sub_map = node[y].sub_map
      BY <2>1, <3>1, NewFacts
    <3> QED
      BY <1>13, <2>2, <3>1, <3>2, PointersKept
  <2> QED
    BY <2>3, <2>4
<1>14. ASSUME NEW v \in Variable, NEW x \in Place, MoveNode(v, x) PROVE Goal'
  BY <1>13, <1>14 DEF MoveNode, Place
<1>15. ASSUME NEW x \in Place, NEW y \in Place, MoveAssign(x, y) PROVE Goal'
  BY <1>13, <1>15 DEF MoveAssign
<1>16. CASE UNCHANGED vars
  BY <1>16 DEF vars, MapsLive, PtrValid, SubsThere, Valid, Living
<1> QED
  BY <1>1, <1>2, <1>3, <1>4, <1>5, <1>6, <1>7, <1>8, <1>9, <1>10, <1>11, <1>12,
     <1>14, <1>15, <1>16 DEF Next, ParserStep, NodeStep

\* Nothing is left pointing to what is gone, unless a heading is repeated or
\* something is destroyed that is still pointed to.
THEOREM NoneDangles == Spec => []PointersValid
<1>1. Init => PointersValid
  BY NoFacts DEF Init, PointersValid, Living
<1> QED
  BY <1>1, PointersNext, TypeCorrect, PTL DEF Spec
=============================================================================
