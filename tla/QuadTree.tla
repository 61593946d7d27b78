------------------------------- MODULE QuadTree -------------------------------
(***************************************************************************)
(* OSPMap and its OSPQuadTree (OpenStreetPad): the objects loaded so far,  *)
(* and a tree over the world to find those in an area.                     *)
(*                                                                         *)
(* Parsers add objects on threads of their own while the main thread       *)
(* searches.  A node's lock guards the insertion into its contents and the *)
(* search of them; expand takes no lock.  A step is what a thread does     *)
(* between two accesses to what the other may see.                         *)
(*                                                                         *)
(* Abstracted: an object is a name with bounds; nodes are numbered in the  *)
(* order they are made; isEqual of the objects is identity.                *)
(***************************************************************************)
EXTENDS TileGeometry, Sequences

CONSTANTS
  Objects,       \* what may be added, each once
  BoundsOf(_),   \* the bounds of an object
  ExpandLimit,   \* OSPMapExpandLimit
  Adders,        \* threads that add objects
  SearchAreas    \* arguments of objectsInBounds:

ASSUME QuadTreeAssumption ==
  /\ ExpandLimit \in Nat \ {0}
  /\ \A o \in Objects : BoundsOf(o) \in [x : Int, y : Int, w : Int, h : Int]
  /\ SearchAreas \subseteq [x : Int, y : Int, w : Int, h : Int]

VARIABLES
  contents,   \* of the OSPMap
  nodes,      \* every node made; the first is the root
  frames,     \* of each adder: its calls in the tree, the innermost first
  search,     \* the search under way: its area, the nodes it still has to
              \* visit, what it has found, whether it has done the contents
  before,     \* history: objects whose addObject: had returned when it began
  moved       \* history: objects an expand has moved since it began

vars == <<contents, nodes, frames, search, before, moved>>

Node == [bounds : [x : Int, y : Int, w : Int, h : Int], leaf : BOOLEAN,
         contents : SUBSET Objects, children : Seq(Nat)]
NewNode(bounds) == [bounds |-> bounds, leaf |-> TRUE, contents |-> {}, children |-> <<>>]

\* A call at a node: what is left of it to do, and for which object or objects.
Call(at, node, objects) == [at |-> at, node |-> node, objects |-> objects]

NoSearch == [area |-> RectFromTile(World), toVisit |-> <<>>, found |-> {}, looked |-> FALSE]

TypeOK ==
  /\ contents \subseteq Objects
  /\ nodes \in Seq(Node)
  /\ \A n \in 1..Len(nodes) :
       \A i \in 1..Len(nodes[n].children) : nodes[n].children[i] \in (n + 1)..Len(nodes)
  /\ frames \in [Adders -> Seq([at : {"add", "insert", "place", "split", "empty", "move"},
                                node : 1..Len(nodes), objects : SUBSET Objects])]
  /\ search.toVisit \in Seq(1..Len(nodes)) /\ search.found \subseteq Objects
  /\ before \subseteq contents /\ moved \subseteq contents

-----------------------------------------------------------------------------
(* Adding.                                                                 *)

Busy(a) == frames[a] # <<>>
Top(a) == Head(frames[a])
At(a, at) == Busy(a) /\ Top(a).at = at

\* The innermost call is replaced by others.
Continue(a, calls) == frames' = [frames EXCEPT ![a] = calls \o Tail(@)]

Added == {o \in contents : \A a \in Adders : \A i \in 1..Len(frames[a]) : o \notin frames[a][i].objects}

\* addObject: of OSPMap
MapAdd(a, o) ==
  /\ ~Busy(a) /\ o \notin contents
  /\ contents' = contents \cup {o}
  /\ frames' = [frames EXCEPT ![a] = <<Call("add", 1, {o})>>]
  /\ UNCHANGED <<nodes, search, before, moved>>

\* addObject: - isLeaf is read before the node expands, so the object that
\* makes it expand stays in the node.
\* Mutant: the limit is looked at after it is exceeded.
AddObjectLate(a) ==
  /\ At(a, "add")
  /\ LET n == Top(a).node IN
     Continue(a,
       IF ~nodes[n].leaf THEN <<Call("place", n, Top(a).objects)>>
       ELSE IF Cardinality(nodes[n].contents) = ExpandLimit + 1
       THEN <<Call("split", n, {}), Call("insert", n, Top(a).objects)>>
       ELSE <<Call("insert", n, Top(a).objects)>>)
  /\ UNCHANGED <<contents, nodes, search, before, moved>>

AddObject(a) ==
  /\ At(a, "add")
  /\ LET n == Top(a).node IN
     Continue(a,
       IF ~nodes[n].leaf THEN <<Call("place", n, Top(a).objects)>>
       ELSE IF Cardinality(nodes[n].contents) = ExpandLimit
       THEN <<Call("split", n, {}), Call("insert", n, Top(a).objects)>>
       ELSE <<Call("insert", n, Top(a).objects)>>)
  /\ UNCHANGED <<contents, nodes, search, before, moved>>

\* CFSetAddValue on the contents, under the node's lock.
Insert(a) ==
  /\ At(a, "insert")
  /\ nodes' = [nodes EXCEPT ![Top(a).node].contents = @ \cup Top(a).objects]
  /\ Continue(a, <<>>)
  /\ UNCHANGED <<contents, search, before, moved>>

\* The children whose quarter contains the bounds of an object.
Fitting(n, o) ==
  {i \in 1..Len(nodes[n].children) : ContainsRect(nodes[nodes[n].children[i]].bounds, BoundsOf(o))}

\* placeObjectInChild: - the first child it fits in, or the node itself.
\* Mutant: what fits in no child is dropped.
PlaceOrDrop(a) ==
  /\ At(a, "place")
  /\ LET n == Top(a).node
         fitting == UNION {Fitting(n, o) : o \in Top(a).objects} IN
     Continue(a, IF fitting = {} THEN <<>>
                 ELSE LET i == CHOOSE i \in fitting : \A j \in fitting : i <= j IN
                      <<Call("add", nodes[n].children[i], Top(a).objects)>>)
  /\ UNCHANGED <<contents, nodes, search, before, moved>>

PlaceObjectInChild(a) ==
  /\ At(a, "place")
  /\ LET n == Top(a).node
         fitting == UNION {Fitting(n, o) : o \in Top(a).objects} IN
     Continue(a, IF fitting = {} THEN <<Call("insert", n, Top(a).objects)>>
                 ELSE LET i == CHOOSE i \in fitting : \A j \in fitting : i <= j IN
                      <<Call("add", nodes[n].children[i], Top(a).objects)>>)
  /\ UNCHANGED <<contents, nodes, search, before, moved>>

\* expand: the four children, and a copy of the contents; the quarters of the
\* bounds in the order top left, top right, bottom left, bottom right.
QuarterRect(r, i) ==
  LET width == r.w \div 2 height == r.h \div 2 IN
  [x |-> r.x + width * ((i - 1) % 2), y |-> r.y + height * ((i - 1) \div 2),
   w |-> width, h |-> height]

Split(a) ==
  /\ At(a, "split")
  /\ LET n == Top(a).node IN
     /\ nodes' = [nodes EXCEPT ![n].children = [i \in 1..4 |-> Len(nodes) + i]]
                   \o [i \in 1..4 |-> NewNode(QuarterRect(nodes[n].bounds, i))]
     /\ Continue(a, <<Call("empty", n, nodes[n].contents)>>)
     /\ moved' = moved \cup nodes[n].contents
  /\ UNCHANGED <<contents, search, before>>

\* expand: the contents become an empty set.
EmptyContents(a) ==
  /\ At(a, "empty")
  /\ nodes' = [nodes EXCEPT ![Top(a).node].contents = {}]
  /\ Continue(a, <<Call("move", Top(a).node, Top(a).objects)>>)
  /\ UNCHANGED <<contents, search, before, moved>>

\* expand: the loop over the old contents, in any order.
MoveObject(a) ==
  /\ At(a, "move")
  /\ \E o \in Top(a).objects :
       Continue(a, <<Call("place", Top(a).node, {o}),
                     Call("move", Top(a).node, Top(a).objects \ {o})>>)
  /\ UNCHANGED <<contents, nodes, search, before, moved>>

\* expand: setLeaf:NO
Expanded(a) ==
  /\ At(a, "move") /\ Top(a).objects = {}
  /\ nodes' = [nodes EXCEPT ![Top(a).node].leaf = FALSE]
  /\ Continue(a, <<>>)
  /\ UNCHANGED <<contents, search, before, moved>>

-----------------------------------------------------------------------------
(* Searching, on the main thread.                                          *)

Searching == search.toVisit # <<>>
Visited == Head(search.toVisit)

\* Objects an expand under way has taken from their node: in its hands, or in
\* a child that a search does not enter yet.
BeingMoved ==
  (UNION {UNION {frames[a][i].objects : i \in 1..Len(frames[a]) - 1} : a \in Adders})
  \cup
  (UNION {nodes[n].contents : n \in
          {n \in 1..Len(nodes) : \E m \in 1..(n - 1) :
             nodes[m].leaf /\ n \in {nodes[m].children[i] : i \in 1..Len(nodes[m].children)}}})

\* objectsInBounds: of OSPMap
ObjectsInBounds(area) ==
  /\ ~Searching
  /\ search' = [area |-> area, toVisit |-> <<1>>, found |-> {}, looked |-> FALSE]
  /\ before' = Added /\ moved' = BeingMoved
  /\ UNCHANGED <<contents, nodes, frames>>

\* A node outside the area is left alone; of another the contents are looked
\* at under its lock.  Mutant: only a leaf's are.
SearchLeaf ==
  /\ Searching /\ ~search.looked
  /\ LET n == nodes[Visited] IN
     search' = IF ~IntersectsRect(n.bounds, search.area)
               THEN [search EXCEPT !.toVisit = Tail(@)]
               ELSE [search EXCEPT !.looked = TRUE,
                       !.found = @ \cup {o \in n.contents :
                                           n.leaf /\ IntersectsRect(BoundsOf(o), search.area)}]
  /\ UNCHANGED <<contents, nodes, frames, before, moved>>

SearchContents ==
  /\ Searching /\ ~search.looked
  /\ LET n == nodes[Visited] IN
     search' = IF ~IntersectsRect(n.bounds, search.area)
               THEN [search EXCEPT !.toVisit = Tail(@)]
               ELSE [search EXCEPT !.looked = TRUE,
                       !.found = @ \cup {o \in n.contents :
                                           IntersectsRect(BoundsOf(o), search.area)}]
  /\ UNCHANGED <<contents, nodes, frames, before, moved>>

\* ... and then its children, if it is no leaf.
SearchChildren ==
  /\ Searching /\ search.looked
  /\ LET n == nodes[Visited] IN
     search' = [search EXCEPT !.looked = FALSE,
                  !.toVisit = (IF n.leaf THEN <<>> ELSE n.children) \o Tail(@)]
  /\ UNCHANGED <<contents, nodes, frames, before, moved>>

-----------------------------------------------------------------------------
\* init
Init ==
  /\ contents = {}
  /\ nodes = <<NewNode(RectFromTile(World))>>
  /\ frames = [a \in Adders |-> <<>>]
  /\ search = NoSearch /\ before = {} /\ moved = {}

Adder(a) ==
  \/ \E o \in Objects : MapAdd(a, o)
  \/ AddObject(a)
  \/ Insert(a)
  \/ PlaceObjectInChild(a)
  \/ Split(a)
  \/ EmptyContents(a)
  \/ MoveObject(a)
  \/ Expanded(a)

Next ==
  \/ \E a \in Adders : Adder(a)
  \/ \E area \in SearchAreas : ObjectsInBounds(area)
  \/ SearchContents
  \/ SearchChildren

Spec == Init /\ [][Next]_vars

-----------------------------------------------------------------------------
\* The nodes the root leads to that hold an object.
Reachable[n \in Nat] == n = 1 \/ \E m \in 1..(n - 1) :
  Reachable[m] /\ \E i \in 1..Len(nodes[m].children) : nodes[m].children[i] = n
Holders(o) == {n \in 1..Len(nodes) : Reachable[n] /\ o \in nodes[n].contents}

(* No object is lost on its way down the tree: it is in a node, or an      *)
(* addObject: or expand has it in hand; and once none has, it is in one    *)
(* node only, so that no search meets it twice, and in none whose bounds   *)
(* do not contain it but the root.                                         *)
OnePlace ==
  /\ \A o \in Added : Holders(o) # {}
  /\ (\A a \in Adders : ~Busy(a)) =>
       \A o \in contents :
         \E n \in 1..Len(nodes) :
           /\ Holders(o) = {n}
           /\ n = 1 \/ ContainsRect(nodes[n].bounds, BoundsOf(o))

(* A leaf never outgrows OSPMapExpandLimit: it expands only when it holds  *)
(* exactly that many, and one that held more never would again.            *)
LeafWithinLimit ==
  /\ TypeOK
  /\ \A n \in 1..Len(nodes) : nodes[n].leaf => Cardinality(nodes[n].contents) <= ExpandLimit

(* A search overtaken by a parser misses no object that was there when it  *)
(* began, unless an expand was moving that very object.                    *)
SearchMissesOnlyMoved ==
  ~Searching =>
    {o \in before : IntersectsRect(BoundsOf(o), search.area)} \subseteq search.found \cup moved
=============================================================================
