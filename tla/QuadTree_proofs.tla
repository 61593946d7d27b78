--------------------------- MODULE QuadTree_proofs ---------------------------
(***************************************************************************)
(* Proofs about QuadTree: any number of parsers that add objects, one at a *)
(* time, while the main thread searches; a world of any depth, any         *)
(* objects, any limit of the leaves and any areas.                         *)
(***************************************************************************)
EXTENDS QuadTree, SequenceTheorems, FiniteSetTheorems, WellFoundedInduction, TLAPS

-----------------------------------------------------------------------------
(* The inductive invariant.                                                *)

Nodes == 1..Len(nodes)
ChildrenOf(n) == {nodes[n].children[i] : i \in 1..Len(nodes[n].children)}

\* Every node but the root is the child of one made before it, within its
\* bounds.
Tree ==
  /\ 1 \in Nodes /\ nodes[1].bounds = RectFromTile(World)
  /\ \A n \in Nodes : nodes[n].bounds.w >= 0 /\ nodes[n].bounds.h >= 0
  /\ \A n \in Nodes : n = 1 \/ \E m \in 1..(n - 1) : n \in ChildrenOf(m)
  /\ \A n \in Nodes : \A m \in ChildrenOf(n) :
       m \in (n + 1)..Len(nodes) /\ ContainsRect(nodes[n].bounds, nodes[m].bounds)

FitsIn(n, o) == n = 1 \/ ContainsRect(nodes[n].bounds, BoundsOf(o))

\* No object is in two nodes, or in one whose bounds do not contain it.
Placed ==
  /\ \A n \in Nodes : \A o \in nodes[n].contents : o \in contents /\ FitsIn(n, o)
  /\ \A n, m \in Nodes : \A o \in nodes[n].contents : o \in nodes[m].contents => n = m

Limited ==
  \A n \in Nodes : nodes[n].leaf =>
    IsFiniteSet(nodes[n].contents) /\ Cardinality(nodes[n].contents) <= ExpandLimit

\* The objects of a stack of calls.
InHand(calls) == UNION {calls[i].objects : i \in 1..Len(calls)}

\* Objects that are in no node.
Outside(objects) == \A n \in Nodes : nodes[n].contents \cap objects = {}

\* All leaves but those in a set have no children.
Bare(except) == \A n \in Nodes \ except : nodes[n].leaf => nodes[n].children = <<>>

\* addObject: outside of an expand.
Adding(calls) ==
  \E at \in {"add", "place", "insert"}, n \in Nodes, o \in contents :
    /\ calls = <<Call(at, n, {o})>>
    /\ FitsIn(n, o) /\ Outside({o}) /\ Bare({})
    /\ at = "place" => ~nodes[n].leaf
    /\ at = "insert" /\ nodes[n].leaf => Cardinality(nodes[n].contents) < ExpandLimit

\* The expand of a full leaf, before and after its children are made.
Splitting(calls) ==
  \E n \in Nodes, o \in contents :
    /\ calls = <<Call("split", n, {}), Call("insert", n, {o})>>
    /\ FitsIn(n, o) /\ Outside({o}) /\ Bare({})
    /\ nodes[n].leaf

\* New children of a leaf under expand: leaves with room for the objects
\* that are still to be moved, as the leaf has itself.
HasRoom(n, moving) ==
  /\ IsFiniteSet(moving) /\ nodes[n].leaf
  /\ \A m \in ChildrenOf(n) : nodes[m].leaf /\ nodes[m].children = <<>>
  /\ \A m \in ChildrenOf(n) \cup {n} :
       Cardinality(nodes[m].contents) + Cardinality(moving) <= ExpandLimit

Emptying(calls) ==
  \E n \in Nodes, o \in contents :
    /\ calls = <<Call("empty", n, nodes[n].contents), Call("insert", n, {o})>>
    /\ FitsIn(n, o) /\ Outside({o}) /\ Bare({n})
    /\ nodes[n].leaf
    /\ \A m \in ChildrenOf(n) : nodes[m] = NewNode(nodes[m].bounds)

\* ... and the loop over its old contents, between two objects and at one.
Moving(calls) ==
  \E n \in Nodes, o \in contents, moving \in SUBSET contents :
    /\ calls = <<Call("move", n, moving), Call("insert", n, {o})>>
    /\ FitsIn(n, o) /\ Outside(moving \cup {o}) /\ Bare({n})
    /\ o \notin moving /\ \A x \in moving : FitsIn(n, x)
    /\ HasRoom(n, moving)

MovingAt(at, m, x, n, o, moving) ==
  /\ FitsIn(n, o) /\ Outside(moving \cup {o, x}) /\ Bare({n})
  /\ o \notin moving /\ x \notin moving /\ x # o /\ \A y \in moving : FitsIn(n, y)
  /\ HasRoom(n, moving \cup {x})
  /\ FitsIn(m, x)
  /\ \/ at = "place" /\ m = n
     \/ at = "add" /\ m \in ChildrenOf(n)
     \/ at = "insert" /\ m \in ChildrenOf(n) \cup {n}
MovingOne(calls) ==
  \E at \in {"add", "place", "insert"}, m \in Nodes, x \in contents,
     n \in Nodes, o \in contents, moving \in SUBSET contents :
    /\ calls = <<Call(at, m, {x}), Call("move", n, moving), Call("insert", n, {o})>>
    /\ MovingAt(at, m, x, n, o, moving)

\* Where an adder is in all of this.
Shape(calls) ==
  \/ calls = <<>> /\ Bare({})
  \/ Adding(calls)
  \/ Splitting(calls)
  \/ Emptying(calls)
  \/ Moving(calls)
  \/ MovingOne(calls)

\* What is neither in hand nor in a node has not been added.
NoneLost(a) == \A o \in contents \ InHand(frames[a]) : \E n \in Nodes : o \in nodes[n].contents

\* A set of nodes that holds with a node all the search would go on to, and
\* one that holds all it still has to visit.
Closed(S) == \A n \in S : ~nodes[n].leaf => ChildrenOf(n) \subseteq S
Ahead(S) ==
  /\ \A i \in 1..Len(search.toVisit) : (i = 1 /\ search.looked) \/ search.toVisit[i] \in S
  /\ search.looked /\ ~nodes[Visited].leaf => ChildrenOf(Visited) \subseteq S

\* What a search is for, in an area that meets the world.
WantedIn(area, o) == IntersectsRect(RectFromTile(World), area) /\ IntersectsRect(BoundsOf(o), area)

\* The search still comes to a node of each object it has to find.
Search(a) ==
  /\ search \in [area : [x : Int, y : Int, w : Int, h : Int], toVisit : Seq(Nodes),
                 found : SUBSET Objects, looked : BOOLEAN]
  /\ search.looked => Searching
  /\ InHand(frames[a]) \cap before \subseteq moved
  /\ \A o \in before \ (moved \cup search.found) : WantedIn(search.area, o) =>
       \A S \in SUBSET Nodes : Closed(S) /\ Ahead(S) => \E n \in S : o \in nodes[n].contents

\* No adder but one is in the tree, and the invariant of that one.
Alone(a) == a \in Adders /\ \A b \in Adders \ {a} : frames[b] = <<>>
IInv(a) ==
  /\ TypeOK /\ Tree /\ Placed /\ Limited /\ Shape(frames[a]) /\ NoneLost(a) /\ Search(a)

-----------------------------------------------------------------------------
(* Lemmas on stacks and trees.                                             *)

(* A sequence of two or three elements.                                    *)
LEMMA TwoElements == ASSUME NEW S, NEW l \in Seq(S), Len(l) = 2 PROVE l = <<l[1], l[2]>>
<1>1. DOMAIN l = 1..2 /\ 1..2 = {1, 2}
  BY LenProperties
<1>2. QED
  BY <1>1

(* The same for three.                                                     *)
LEMMA ThreeElements == ASSUME NEW S, NEW l \in Seq(S), Len(l) = 3 PROVE l = <<l[1], l[2], l[3]>>
<1>1. DOMAIN l = 1..3 /\ 1..3 = {1, 2, 3}
  BY LenProperties
<1>2. QED
  BY <1>1

(* Two calls, and three, put together.                                     *)
LEMMA OneAndOne == ASSUME NEW s, NEW q PROVE <<s>> \o <<q>> = <<s, q>>
<1> DEFINE S == {s, q}
           u == <<s>>
           v == <<q>>
<1>1. u \in Seq(S) /\ Len(u) = 1 /\ u[1] = s
  OBVIOUS
<1>2. v \in Seq(S) /\ Len(v) = 1 /\ v[1] = q
  OBVIOUS
<1> HIDE DEF u, v, S
<1>3. /\ u \o v \in Seq(S) /\ Len(u \o v) = 2
      /\ \A i \in 1..2 : (u \o v)[i] = IF i <= 1 THEN u[i] ELSE v[i - 1]
  BY <1>1, <1>2, ConcatProperties
<1>4. (u \o v)[1] = s /\ (u \o v)[2] = q
  BY <1>1, <1>2, <1>3
<1>5. u \o v = <<s, q>>
  BY <1>3, <1>4, TwoElements
<1>6. QED
  BY <1>5 DEF u, v

(* One call before two others.                                             *)
LEMMA OneAndTwo == ASSUME NEW s, NEW q, NEW r PROVE <<s>> \o <<q, r>> = <<s, q, r>>
<1> DEFINE S == {s, q, r}
           u == <<s>>
           v == <<q, r>>
<1>1. u \in Seq(S) /\ Len(u) = 1 /\ u[1] = s
  OBVIOUS
<1>2. v \in Seq(S) /\ Len(v) = 2 /\ v[1] = q /\ v[2] = r
  OBVIOUS
<1> HIDE DEF u, v, S
<1>3. /\ u \o v \in Seq(S) /\ Len(u \o v) = 3
      /\ \A i \in 1..3 : (u \o v)[i] = IF i <= 1 THEN u[i] ELSE v[i - 1]
  BY <1>1, <1>2, ConcatProperties
<1>4. (u \o v)[1] = s /\ (u \o v)[2] = q /\ (u \o v)[3] = r
  BY <1>1, <1>2, <1>3
<1>5. u \o v = <<s, q, r>>
  BY <1>3, <1>4, ThreeElements
<1>6. QED
  BY <1>5 DEF u, v

(* Two calls before another.                                               *)
LEMMA TwoAndOne == ASSUME NEW s, NEW q, NEW r PROVE <<s, q>> \o <<r>> = <<s, q, r>>
<1> DEFINE S == {s, q, r}
           u == <<s, q>>
           v == <<r>>
<1>1. u \in Seq(S) /\ Len(u) = 2 /\ u[1] = s /\ u[2] = q
  OBVIOUS
<1>2. v \in Seq(S) /\ Len(v) = 1 /\ v[1] = r
  OBVIOUS
<1> HIDE DEF u, v, S
<1>3. /\ u \o v \in Seq(S) /\ Len(u \o v) = 3
      /\ \A i \in 1..3 : (u \o v)[i] = IF i <= 2 THEN u[i] ELSE v[i - 2]
  <2>1. /\ u \o v \in Seq(S) /\ Len(u \o v) = Len(u) + Len(v)
        /\ \A i \in 1..(Len(u) + Len(v)) : (u \o v)[i] = IF i <= Len(u) THEN u[i] ELSE v[i - Len(u)]
    BY <1>1, <1>2, ConcatProperties
  <2>2. QED
    BY <1>1, <1>2, <2>1
<1>4. (u \o v)[1] = s /\ (u \o v)[2] = q /\ (u \o v)[3] = r
  BY <1>1, <1>2, <1>3
<1>5. u \o v = <<s, q, r>>
  BY <1>3, <1>4, ThreeElements
<1>6. QED
  BY <1>5 DEF u, v

(* The innermost call of a stack is replaced.                              *)
LEMMA Replaced ==
  /\ \A p : Head(<<p>>) = p /\ <<>> \o Tail(<<p>>) = <<>>
  /\ \A p, q : Head(<<p, q>>) = p /\ <<>> \o Tail(<<p, q>>) = <<q>>
  /\ \A p, q, r : Head(<<p, q, r>>) = p /\ <<>> \o Tail(<<p, q, r>>) = <<q, r>>
  /\ \A p, s : <<s>> \o Tail(<<p>>) = <<s>>
  /\ \A p, s, t : <<s, t>> \o Tail(<<p>>) = <<s, t>>
  /\ \A p, q, s : <<s>> \o Tail(<<p, q>>) = <<s, q>>
  /\ \A p, q, s, t : <<s, t>> \o Tail(<<p, q>>) = <<s, t, q>>
  /\ \A p, q, r, s : <<s>> \o Tail(<<p, q, r>>) = <<s, q, r>>
<1>1. \A p : Head(<<p>>) = p /\ Tail(<<p>>) = <<>>
  OBVIOUS
<1>2. \A p, q : Head(<<p, q>>) = p /\ Tail(<<p, q>>) = <<q>>
  OBVIOUS
<1>3. \A p, q, r : Head(<<p, q, r>>) = p /\ Tail(<<p, q, r>>) = <<q, r>>
  OBVIOUS
<1>4. <<>> \o <<>> = <<>> /\ (\A q : <<>> \o <<q>> = <<q>>) /\ \A q, r : <<>> \o <<q, r>> = <<q, r>>
  OBVIOUS
<1>5. (\A s : <<s>> \o <<>> = <<s>>) /\ \A s, t : <<s, t>> \o <<>> = <<s, t>>
  OBVIOUS
<1>6. \A p, q, s : <<s>> \o Tail(<<p, q>>) = <<s, q>>
  BY <1>2, OneAndOne
<1>7. \A p, q, s, t : <<s, t>> \o Tail(<<p, q>>) = <<s, t, q>>
  BY <1>2, TwoAndOne
<1>8. \A p, q, r, s : <<s>> \o Tail(<<p, q, r>>) = <<s, q, r>>
  BY <1>3, OneAndTwo
<1>9. \A p : <<>> \o Tail(<<p>>) = <<>>
  BY <1>1, <1>4
<1>10. \A p, q : <<>> \o Tail(<<p, q>>) = <<q>>
  BY <1>2, <1>4
<1>11. \A p, q, r : <<>> \o Tail(<<p, q, r>>) = <<q, r>>
  BY <1>3, <1>4
<1>12. (\A p, s : <<s>> \o Tail(<<p>>) = <<s>>) /\ \A p, s, t : <<s, t>> \o Tail(<<p>>) = <<s, t>>
  BY <1>1, <1>5
<1>13. QED
  BY <1>1, <1>2, <1>3, <1>6, <1>7, <1>8, <1>9, <1>10, <1>11, <1>12

(* What a stack of up to three calls has in hand.                          *)
LEMMA HandOf ==
  /\ InHand(<<>>) = {}
  /\ \A p : InHand(<<p>>) = p.objects
  /\ \A p, q : InHand(<<p, q>>) = p.objects \cup q.objects
  /\ \A p, q, r : InHand(<<p, q, r>>) = p.objects \cup q.objects \cup r.objects
<1>1. 1..0 = {} /\ 1..1 = {1} /\ 1..2 = {1, 2} /\ 1..3 = {1, 2, 3}
  OBVIOUS
<1>2. InHand(<<>>) = {} /\ \A p : InHand(<<p>>) = p.objects
  BY <1>1 DEF InHand
<1>3. ASSUME NEW p, NEW q PROVE InHand(<<p, q>>) = p.objects \cup q.objects
  <2>1. Len(<<p, q>>) = 2 /\ <<p, q>>[1] = p /\ <<p, q>>[2] = q
    OBVIOUS
  <2>2. QED
    BY <1>1, <2>1 DEF InHand
<1>4. ASSUME NEW p, NEW q, NEW r PROVE InHand(<<p, q, r>>) = p.objects \cup q.objects \cup r.objects
  <2>1. Len(<<p, q, r>>) = 3 /\ <<p, q, r>>[1] = p /\ <<p, q, r>>[2] = q /\ <<p, q, r>>[3] = r
    OBVIOUS
  <2>2. QED
    BY <1>1, <2>1 DEF InHand
<1>5. QED
  BY <1>2, <1>3, <1>4

(* ... for three of them.                                                  *)
LEMMA HandOfThree ==
  ASSUME NEW p, NEW q, NEW r
  PROVE  InHand(<<p, q, r>>) = p.objects \cup q.objects \cup r.objects
  BY HandOf

(* ... and of two.                                                         *)
LEMMA HandOfTwo ==
  ASSUME NEW p, NEW q
  PROVE  InHand(<<p, q>>) = p.objects \cup q.objects
  BY HandOf

CallType == [at : {"add", "insert", "place", "split", "empty", "move"},
             node : Nodes, objects : SUBSET Objects]

(* While the tree and the objects stay, so does what a stack of calls      *)
(* finds there.                                                            *)
LEMMA ShapeStays ==
  ASSUME UNCHANGED <<contents, nodes>>, NEW calls, Shape(calls)
  PROVE  Shape(calls)'
<1>1. /\ Nodes' = Nodes /\ \A n : ChildrenOf(n)' = ChildrenOf(n)
      /\ \A n, o : FitsIn(n, o)' = FitsIn(n, o)
  BY DEF Nodes, ChildrenOf, FitsIn
<1>2. /\ \A os : Outside(os)' = Outside(os)
      /\ \A ns : Bare(ns)' = Bare(ns)
      /\ \A n, os : HasRoom(n, os)' = HasRoom(n, os)
  BY <1>1 DEF Outside, Bare, HasRoom
<1>3. CASE calls = <<>> /\ Bare({})
  BY <1>2, <1>3 DEF Shape
<1>4. CASE Adding(calls)
  <2>1. Adding(calls)'
    BY <1>1, <1>2, <1>4 DEF Adding
  <2>2. QED
    BY <2>1 DEF Shape
<1>5. CASE Splitting(calls)
  <2>1. Splitting(calls)'
    BY <1>1, <1>2, <1>5 DEF Splitting
  <2>2. QED
    BY <2>1 DEF Shape
<1>6. CASE Emptying(calls)
  <2>1. Emptying(calls)'
    BY <1>1, <1>2, <1>6 DEF Emptying
  <2>2. QED
    BY <2>1 DEF Shape
<1>7. CASE Moving(calls)
  <2>1. Moving(calls)'
    BY <1>1, <1>2, <1>7 DEF Moving
  <2>2. QED
    BY <2>1 DEF Shape
<1>8. CASE MovingOne(calls)
  <2>1. MovingOne(calls)'
    <3>1. PICK at \in {"add", "place", "insert"}, m \in Nodes, x \in contents,
               n \in Nodes, o \in contents, moving \in SUBSET contents :
            /\ calls = <<Call(at, m, {x}), Call("move", n, moving), Call("insert", n, {o})>>
            /\ MovingAt(at, m, x, n, o, moving)
      BY <1>8 DEF MovingOne
    <3>2. MovingAt(at, m, x, n, o, moving)'
      BY <1>1, <1>2, <3>1 DEF MovingAt
    <3>3. m \in Nodes' /\ n \in Nodes' /\ x \in contents' /\ o \in contents' /\ moving \in SUBSET contents'
      BY <1>1
    <3>4. QED
      BY <3>1, <3>2, <3>3 DEF MovingOne
  <2>2. QED
    BY <2>1 DEF Shape
<1>9. QED
  BY <1>3, <1>4, <1>5, <1>6, <1>7, <1>8 DEF Shape

(* Nodes and the calls in them are of their types.                         *)
LEMMA Typed ==
  ASSUME NEW a \in Adders, IInv(a)
  PROVE  /\ nodes \in Seq(Node) /\ Len(nodes) \in Nat
         /\ frames[a] \in Seq(CallType) /\ frames = [frames EXCEPT ![a] = frames[a]]
         /\ \A n \in Nodes : /\ nodes[n] \in Node /\ nodes[n].contents \subseteq contents
                             /\ nodes[n].children \in Seq(Nat) /\ ChildrenOf(n) \subseteq Nodes /\ n \notin ChildrenOf(n)
         /\ contents \subseteq Objects
<1>1. TypeOK /\ Tree /\ Placed
  BY DEF IInv
<1>2. nodes \in Seq(Node) /\ Len(nodes) \in Nat /\ \A n \in Nodes : nodes[n] \in Node
  BY <1>1, LenProperties, ElementOfSeq DEF TypeOK, Nodes
<1>3. \A n \in Nodes : nodes[n].children \in Seq(Nat) /\ nodes[n].contents \subseteq contents
  BY <1>1, <1>2 DEF Node, Placed
<1>4. ASSUME NEW n \in Nodes, NEW m \in ChildrenOf(n) PROVE m \in Nodes /\ m # n
  <2>1. m \in (n + 1)..Len(nodes) /\ n \in Nat /\ n >= 1
    BY <1>1, <1>2 DEF Tree, Nodes
  <2>2. QED
    BY <1>2, <2>1 DEF Nodes
<1>5. frames \in [Adders -> Seq(CallType)] /\ contents \subseteq Objects
  BY <1>1 DEF TypeOK, CallType, Nodes
<1>6. QED
  BY <1>2, <1>3, <1>4, <1>5

(* A step that moves an adder on to other calls with the same objects in   *)
(* hand.                                                                   *)
LEMMA StackStep ==
  ASSUME NEW a \in Adders, IInv(a), UNCHANGED <<contents, nodes, search, before, moved>>,
         NEW calls \in Seq(CallType), frames' = [frames EXCEPT ![a] = calls],
         InHand(calls) = InHand(frames[a]), Shape(calls)
  PROVE  IInv(a)'
<1>1. TypeOK /\ Tree /\ Placed /\ Limited /\ NoneLost(a) /\ Search(a)
  BY DEF IInv
<1>2. frames'[a] = calls /\ frames' \in [Adders -> Seq(CallType)]
  BY <1>1 DEF TypeOK, CallType, Nodes
<1>3. TypeOK'
  BY <1>1, <1>2 DEF TypeOK, CallType, Nodes
<1>4. /\ Nodes' = Nodes /\ \A n : ChildrenOf(n)' = ChildrenOf(n)
      /\ \A n, o : FitsIn(n, o)' = FitsIn(n, o)
  BY DEF Nodes, ChildrenOf, FitsIn
<1>5. Tree'
  BY <1>1, <1>4 DEF Tree
<1>6. Placed' /\ Limited'
  BY <1>1, <1>4 DEF Placed, Limited
<1>7. Shape(calls)'
  BY ShapeStays
<1>8. InHand(frames'[a]) = InHand(frames[a]) /\ Shape(frames[a])'
  BY <1>2, <1>7
<1>9. NoneLost(a)'
  BY <1>1, <1>4, <1>8 DEF NoneLost
<1>10. \A S : Closed(S)' = Closed(S) /\ Ahead(S)' = Ahead(S)
  BY <1>4 DEF Closed, Ahead, Visited
<1>11. Search(a)'
  BY <1>1, <1>4, <1>8, <1>10 DEF Search, Searching
<1>12. QED
  BY <1>3, <1>5, <1>6, <1>8, <1>9, <1>11 DEF IInv

(* What a call on a stack holds.                                           *)
LEMMA CallTyped ==
  ASSUME NEW at, NEW n, NEW os
  PROVE  /\ Call(at, n, os).at = at /\ Call(at, n, os).node = n /\ Call(at, n, os).objects = os
         /\ /\ at \in {"add", "insert", "place", "split", "empty", "move"} /\ n \in Nodes
            /\ os \in SUBSET contents /\ contents \subseteq Objects
            => Call(at, n, os) \in CallType
  BY DEF Call, CallType

(* Stacks of typed calls are typed.                                        *)
LEMMA StackTyped ==
  \A T : /\ <<>> \in Seq(T) /\ \A p \in T : <<p>> \in Seq(T)
         /\ \A p, q \in T : <<p, q>> \in Seq(T)
         /\ \A p, q, r \in T : <<p, q, r>> \in Seq(T)
  OBVIOUS

(* Which call is the innermost one tells where an adder is.                *)
LEMMA Where ==
  ASSUME NEW a, Busy(a), Shape(frames[a])
  PROVE  \/ Adding(frames[a]) /\ Top(a).at \in {"add", "place", "insert"}
         \/ Splitting(frames[a]) /\ Top(a).at = "split"
         \/ Emptying(frames[a]) /\ Top(a).at = "empty"
         \/ Moving(frames[a]) /\ Top(a).at = "move"
         \/ MovingOne(frames[a]) /\ Top(a).at \in {"add", "place", "insert"}
<1>1. frames[a] # <<>>
  BY DEF Busy
<1>2. ASSUME Adding(frames[a]) PROVE Top(a).at \in {"add", "place", "insert"}
  <2>1. PICK at \in {"add", "place", "insert"}, n \in Nodes, o \in contents : frames[a] = <<Call(at, n, {o})>>
    BY <1>2 DEF Adding
  <2>2. Top(a) = Call(at, n, {o})
    BY <2>1, Replaced DEF Top
  <2>3. QED
    BY <2>2, CallTyped
<1>3. ASSUME Splitting(frames[a]) PROVE Top(a).at = "split"
  <2>1. PICK n \in Nodes, o \in contents : frames[a] = <<Call("split", n, {}), Call("insert", n, {o})>>
    BY <1>3 DEF Splitting
  <2>2. Top(a) = Call("split", n, {})
    BY <2>1, Replaced DEF Top
  <2>3. QED
    BY <2>2, CallTyped
<1>4. ASSUME Emptying(frames[a]) PROVE Top(a).at = "empty"
  <2>1. PICK n \in Nodes, o \in contents :
          frames[a] = <<Call("empty", n, nodes[n].contents), Call("insert", n, {o})>>
    BY <1>4 DEF Emptying
  <2>2. Top(a) = Call("empty", n, nodes[n].contents)
    BY <2>1, Replaced DEF Top
  <2>3. QED
    BY <2>2, CallTyped
<1>5. ASSUME Moving(frames[a]) PROVE Top(a).at = "move"
  <2>1. PICK n \in Nodes, o \in contents, moving \in SUBSET contents :
          frames[a] = <<Call("move", n, moving), Call("insert", n, {o})>>
    BY <1>5 DEF Moving
  <2>2. Top(a) = Call("move", n, moving)
    BY <2>1, Replaced DEF Top
  <2>3. QED
    BY <2>2, CallTyped
<1>6. ASSUME MovingOne(frames[a]) PROVE Top(a).at \in {"add", "place", "insert"}
  <2>1. PICK at \in {"add", "place", "insert"}, m \in Nodes, x \in contents,
             n \in Nodes, o \in contents, moving \in SUBSET contents :
          frames[a] = <<Call(at, m, {x}), Call("move", n, moving), Call("insert", n, {o})>>
    BY <1>6 DEF MovingOne
  <2>2. Top(a) = Call(at, m, {x})
    BY <2>1, Replaced DEF Top
  <2>3. QED
    BY <2>2, CallTyped
<1>7. QED
  BY <1>1, <1>2, <1>3, <1>4, <1>5, <1>6 DEF Shape

(* One object more counts one more.                                        *)
LEMMA OneMore ==
  ASSUME NEW S, IsFiniteSet(S), NEW x, x \notin S
  PROVE  /\ IsFiniteSet(S \cup {x}) /\ Cardinality(S) \in Nat
         /\ Cardinality(S \cup {x}) = Cardinality(S) + 1
  BY FS_AddElement, FS_CardinalityType

(* addObject:                                                              *)
LEMMA AddObjectInv ==
  ASSUME NEW a \in Adders, IInv(a), AddObject(a)
  PROVE  IInv(a)'
<1> DEFINE n0 == Top(a).node
           os == Top(a).objects
           new == IF ~nodes[n0].leaf THEN <<Call("place", n0, os)>>
                  ELSE IF Cardinality(nodes[n0].contents) = ExpandLimit
                  THEN <<Call("split", n0, {}), Call("insert", n0, os)>>
                  ELSE <<Call("insert", n0, os)>>
<1>1. /\ Busy(a) /\ Top(a).at = "add" /\ UNCHANGED <<contents, nodes, search, before, moved>>
      /\ frames' = [frames EXCEPT ![a] = new \o Tail(frames[a])]
  BY DEF AddObject, At, Continue
<1>2. /\ \A n \in Nodes : nodes[n] \in Node /\ ChildrenOf(n) \subseteq Nodes
      /\ contents \subseteq Objects
  BY Typed
<1>3. Shape(frames[a]) /\ Limited /\ ExpandLimit \in Nat \ {0}
  BY QuadTreeAssumption DEF IInv
<1>4. CASE Adding(frames[a])
  <2>1. PICK at \in {"add", "place", "insert"}, n \in Nodes, o \in contents :
          /\ frames[a] = <<Call(at, n, {o})>>
          /\ FitsIn(n, o) /\ Outside({o}) /\ Bare({})
          /\ at = "place" => ~nodes[n].leaf
          /\ at = "insert" /\ nodes[n].leaf => Cardinality(nodes[n].contents) < ExpandLimit
    BY <1>4 DEF Adding
  <2>2. Top(a) = Call(at, n, {o})
    BY <2>1, Replaced DEF Top
  <2>3. /\ {o} \in SUBSET contents /\ {} \in SUBSET contents
        /\ n0 = n /\ os = {o}
    BY <2>2 DEF Call
  <2>4. /\ Call("place", n, {o}) \in CallType /\ Call("place", n, {o}).objects = {o}
        /\ Call("insert", n, {o}) \in CallType /\ Call("insert", n, {o}).objects = {o}
        /\ Call("split", n, {}) \in CallType /\ Call("split", n, {}).objects = {}
        /\ Call(at, n, {o}).objects = {o}
    BY <1>2, <2>3, CallTyped
  <2>5. InHand(frames[a]) = {o}
    BY <2>1, <2>4, HandOf
  <2>6. CASE ~nodes[n].leaf
    <3> DEFINE calls == <<Call("place", n, {o})>>
    <3>1. frames' = [frames EXCEPT ![a] = calls]
      BY <1>1, <2>1, <2>3, <2>6, Replaced
    <3>2. calls \in Seq(CallType) /\ InHand(calls) = {o}
      BY <2>4, HandOf, StackTyped
    <3>3. Shape(calls)
      BY <2>1, <2>6 DEF Shape, Adding
    <3> HIDE DEF calls
    <3>4. QED
      BY <1>1, <2>5, <3>1, <3>2, <3>3, StackStep
  <2>7. CASE nodes[n].leaf /\ Cardinality(nodes[n].contents) = ExpandLimit
    <3> DEFINE calls == <<Call("split", n, {}), Call("insert", n, {o})>>
    <3>1. frames' = [frames EXCEPT ![a] = calls]
      BY <1>1, <2>1, <2>3, <2>7, Replaced
    <3>2. calls \in Seq(CallType) /\ InHand(calls) = {o}
      <4>1. calls \in Seq(CallType)
        BY <2>4, StackTyped
      <4>2. InHand(calls) = Call("split", n, {}).objects \cup Call("insert", n, {o}).objects
        BY HandOf
      <4>3. QED
        BY <2>4, <4>1, <4>2
    <3>3. Shape(calls)
      BY <2>1, <2>7 DEF Shape, Splitting
    <3> HIDE DEF calls
    <3>4. QED
      BY <1>1, <2>5, <3>1, <3>2, <3>3, StackStep
  <2>8. CASE nodes[n].leaf /\ Cardinality(nodes[n].contents) # ExpandLimit
    <3> DEFINE calls == <<Call("insert", n, {o})>>
    <3>1. frames' = [frames EXCEPT ![a] = calls]
      BY <1>1, <2>1, <2>3, <2>8, Replaced
    <3>2. calls \in Seq(CallType) /\ InHand(calls) = {o}
      BY <2>4, HandOf, StackTyped
    <3>3. Cardinality(nodes[n].contents) < ExpandLimit
      BY <1>3, <2>8, FS_CardinalityType DEF Limited
    <3>4. Shape(calls)
      BY <2>1, <3>3 DEF Shape, Adding
    <3> HIDE DEF calls
    <3>5. QED
      BY <1>1, <2>5, <3>1, <3>2, <3>4, StackStep
  <2>9. QED
    BY <2>6, <2>7, <2>8
<1>5. CASE MovingOne(frames[a])
  <2>1. PICK at \in {"add", "place", "insert"}, m \in Nodes, x \in contents,
             n \in Nodes, o \in contents, moving \in SUBSET contents :
          /\ frames[a] = <<Call(at, m, {x}), Call("move", n, moving), Call("insert", n, {o})>>
          /\ MovingAt(at, m, x, n, o, moving)
    BY <1>5 DEF MovingOne
  <2>2. Top(a) = Call(at, m, {x})
    BY <2>1, Replaced DEF Top
  <2>3. /\ {x} \in SUBSET contents /\ {o} \in SUBSET contents
        /\ n0 = m /\ os = {x} /\ at = "add"
    BY <1>1, <2>2 DEF Call
  <2>4. /\ Call("insert", m, {x}) \in CallType /\ Call("insert", m, {x}).objects = {x}
        /\ Call("insert", n, {o}) \in CallType /\ Call("insert", n, {o}).objects = {o}
        /\ Call("move", n, moving) \in CallType /\ Call("move", n, moving).objects = moving
        /\ Call(at, m, {x}).objects = {x}
    BY <1>2, <2>3, CallTyped
  <2>5. InHand(frames[a]) = {x} \cup moving \cup {o}
    <3>1. InHand(<<Call(at, m, {x}), Call("move", n, moving), Call("insert", n, {o})>>)
            = Call(at, m, {x}).objects \cup Call("move", n, moving).objects \cup Call("insert", n, {o}).objects
      <4> DEFINE p == Call(at, m, {x})
                 q == Call("move", n, moving)
                 r == Call("insert", n, {o})
      <4> HIDE DEF p, q, r
      <4>1. InHand(<<p, q, r>>) = p.objects \cup q.objects \cup r.objects
        BY ONLY HandOfThree
      <4>2. QED
        BY <4>1 DEF p, q, r
    <3>2. QED
      BY <2>1, <2>4, <3>1
  <2>6. /\ m \in ChildrenOf(n) /\ nodes[m].leaf /\ x \notin moving
        /\ IsFiniteSet(moving \cup {x})
        /\ Cardinality(nodes[m].contents) + Cardinality(moving \cup {x}) <= ExpandLimit
    BY <2>1, <2>3 DEF MovingAt, HasRoom
  <2>7. Cardinality(nodes[m].contents) # ExpandLimit
    <3>1. IsFiniteSet(moving)
      BY <2>6, FS_Subset
    <3>2. Cardinality(moving \cup {x}) = Cardinality(moving) + 1 /\ Cardinality(moving) \in Nat
      BY <2>6, <3>1, OneMore
    <3>3. Cardinality(nodes[m].contents) \in Nat
      BY <1>3, <2>6, FS_CardinalityType DEF Limited
    <3>4. QED
      BY <1>3, <2>6, <3>2, <3>3
  <2> DEFINE calls == <<Call("insert", m, {x}), Call("move", n, moving), Call("insert", n, {o})>>
  <2>8. frames' = [frames EXCEPT ![a] = calls]
    <3>1. new = <<Call("insert", m, {x})>>
      BY <2>3, <2>6, <2>7
    <3>2. <<Call("insert", m, {x})>> \o Tail(<<Call(at, m, {x}), Call("move", n, moving), Call("insert", n, {o})>>) = calls
      BY Replaced
    <3>3. QED
      BY <1>1, <2>1, <3>1, <3>2
  <2>9. calls \in Seq(CallType) /\ InHand(calls) = {x} \cup moving \cup {o}
    BY <2>4, HandOf, StackTyped
  <2>10. MovingAt("insert", m, x, n, o, moving)
    BY <2>1, <2>3 DEF MovingAt
  <2>11. Shape(calls)
    BY <2>10 DEF Shape, MovingOne
  <2> HIDE DEF calls
  <2>12. QED
    BY <1>1, <2>5, <2>8, <2>9, <2>11, StackStep
<1>6. QED
  BY <1>1, <1>3, <1>4, <1>5, Where

(* A child that is chosen is one of those an object fits in.               *)
LEMMA Chosen ==
  ASSUME NEW F \in SUBSET Nat, F # {}
  PROVE  (CHOOSE i \in F : \A j \in F : i <= j) \in F
<1>1. PICK i \in F : \A j \in F : ~(<<j, i>> \in OpToRel(<, Nat))
  BY WFMin, NatLessThanWellFounded
<1>2. \A j \in F : ~(j < i)
  BY <1>1 DEF OpToRel
<1>3. \A j \in F : i <= j
  BY <1>2
<1>4. QED
  BY <1>3

(* ... and so within the node.                                             *)
LEMMA FittingChild ==
  ASSUME NEW a \in Adders, IInv(a), NEW n \in Nodes, NEW o, NEW F, F = Fitting(n, o), F # {},
         NEW c, c = nodes[n].children[CHOOSE i \in F : \A j \in F : i <= j]
  PROVE  c \in ChildrenOf(n) /\ c \in Nodes /\ FitsIn(c, o)
<1>1. nodes[n].children \in Seq(Nat) /\ ChildrenOf(n) \subseteq Nodes
  BY Typed
<1>2. Len(nodes[n].children) \in Nat
  BY <1>1, LenProperties
<1>3. F \in SUBSET Nat
  BY <1>2 DEF Fitting
<1> DEFINE i == CHOOSE i \in F : \A j \in F : i <= j
<1>4. i \in F /\ c = nodes[n].children[i]
  BY <1>3, Chosen
<1> HIDE DEF i
<1>5. i \in 1..Len(nodes[n].children)
      /\ ContainsRect(nodes[nodes[n].children[i]].bounds, BoundsOf(o))
  BY <1>4 DEF Fitting
<1>6. c \in ChildrenOf(n)
  BY <1>4, <1>5 DEF ChildrenOf
<1>7. ContainsRect(nodes[c].bounds, BoundsOf(o))
  BY <1>4, <1>5
<1>8. QED
  BY <1>1, <1>6, <1>7 DEF FitsIn

(* placeObjectInChild:                                                     *)
LEMMA PlaceInv ==
  ASSUME NEW a \in Adders, IInv(a), PlaceObjectInChild(a)
  PROVE  IInv(a)'
<1> DEFINE n0 == Top(a).node
           os == Top(a).objects
           F == UNION {Fitting(n0, o) : o \in os}
           c == nodes[n0].children[CHOOSE i \in F : \A j \in F : i <= j]
           new == IF F = {} THEN <<Call("insert", n0, os)>> ELSE <<Call("add", c, os)>>
<1>1. /\ Busy(a) /\ Top(a).at = "place" /\ UNCHANGED <<contents, nodes, search, before, moved>>
      /\ frames' = [frames EXCEPT ![a] = new \o Tail(frames[a])]
  BY DEF PlaceObjectInChild, At, Continue
<1>2. /\ \A n \in Nodes : ChildrenOf(n) \subseteq Nodes
      /\ contents \subseteq Objects /\ Shape(frames[a])
  BY Typed DEF IInv
<1>3. CASE Adding(frames[a])
  <2>1. PICK at \in {"add", "place", "insert"}, n \in Nodes, o \in contents :
          /\ frames[a] = <<Call(at, n, {o})>>
          /\ FitsIn(n, o) /\ Outside({o}) /\ Bare({})
          /\ at = "place" => ~nodes[n].leaf
          /\ at = "insert" /\ nodes[n].leaf => Cardinality(nodes[n].contents) < ExpandLimit
    BY <1>3 DEF Adding
  <2>2. Top(a) = Call(at, n, {o})
    BY <2>1, Replaced DEF Top
  <2>3. {o} \in SUBSET contents /\ n0 = n /\ os = {o} /\ at = "place" /\ ~nodes[n].leaf
    BY <1>1, <2>1, <2>2 DEF Call
  <2>4. F = Fitting(n, o)
    BY <2>3
  <2>5. InHand(frames[a]) = {o}
    BY <2>1, HandOf, CallTyped
  <2>6. CASE F = {}
    <3> DEFINE calls == <<Call("insert", n, {o})>>
    <3>1. frames' = [frames EXCEPT ![a] = calls]
      BY <1>1, <2>1, <2>3, <2>6, Replaced
    <3>2. calls \in Seq(CallType) /\ InHand(calls) = {o}
      BY <1>2, <2>3, HandOf, StackTyped, CallTyped
    <3>3. Shape(calls)
      BY <2>1, <2>3 DEF Shape, Adding
    <3> HIDE DEF calls
    <3>4. QED
      BY <1>1, <2>5, <3>1, <3>2, <3>3, StackStep
  <2>7. CASE F # {}
    <3>1. c \in Nodes /\ FitsIn(c, o)
      BY <2>3, <2>4, <2>7, FittingChild
    <3> DEFINE calls == <<Call("add", c, {o})>>
    <3>2. frames' = [frames EXCEPT ![a] = calls]
      <4>1. new = <<Call("add", c, {o})>>
        BY <2>3, <2>7
      <4> HIDE DEF new, c
      <4>2. <<Call("add", c, {o})>> \o Tail(<<Call(at, n, {o})>>) = calls
        BY Replaced
      <4>3. QED
        BY <1>1, <2>1, <4>1, <4>2
    <3> HIDE DEF c
    <3>3. calls \in Seq(CallType) /\ InHand(calls) = {o}
      BY <1>2, <2>3, <3>1, HandOf, StackTyped, CallTyped
    <3>4. Shape(calls)
      BY <2>1, <3>1 DEF Shape, Adding
    <3> HIDE DEF calls
    <3>5. QED
      BY <1>1, <2>5, <3>2, <3>3, <3>4, StackStep
  <2>8. QED
    BY <2>6, <2>7
<1>4. CASE MovingOne(frames[a])
  <2>1. PICK at \in {"add", "place", "insert"}, m \in Nodes, x \in contents,
             n \in Nodes, o \in contents, moving \in SUBSET contents :
          /\ frames[a] = <<Call(at, m, {x}), Call("move", n, moving), Call("insert", n, {o})>>
          /\ MovingAt(at, m, x, n, o, moving)
    BY <1>4 DEF MovingOne
  <2>2. Top(a) = Call(at, m, {x})
    BY <2>1, Replaced DEF Top
  <2>3. /\ {x} \in SUBSET contents /\ {o} \in SUBSET contents
        /\ m = n /\ n0 = n /\ os = {x} /\ at = "place"
    BY <1>1, <2>1, <2>2 DEF Call, MovingAt
  <2>4. F = Fitting(n, x)
    BY <2>3
  <2>5. InHand(frames[a]) = {x} \cup moving \cup {o}
    <3>1. InHand(<<Call(at, m, {x}), Call("move", n, moving), Call("insert", n, {o})>>)
            = Call(at, m, {x}).objects \cup Call("move", n, moving).objects \cup Call("insert", n, {o}).objects
      <4> DEFINE p == Call(at, m, {x})
                 q == Call("move", n, moving)
                 r == Call("insert", n, {o})
      <4> HIDE DEF p, q, r
      <4>1. InHand(<<p, q, r>>) = p.objects \cup q.objects \cup r.objects
        BY ONLY HandOfThree
      <4>2. QED
        BY <4>1 DEF p, q, r
    <3>2. Call(at, m, {x}).objects = {x} /\ Call("move", n, moving).objects = moving /\ Call("insert", n, {o}).objects = {o}
      BY CallTyped
    <3>3. QED
      BY <2>1, <3>1, <3>2
  <2>6. ASSUME NEW at2 \in {"add", "insert"}, NEW m2 \in Nodes, new = <<Call(at2, m2, {x})>>,
               MovingAt(at2, m2, x, n, o, moving)
        PROVE  IInv(a)'
    <3> DEFINE calls == <<Call(at2, m2, {x}), Call("move", n, moving), Call("insert", n, {o})>>
    <3>1. frames' = [frames EXCEPT ![a] = calls]
      <4>1. <<Call(at2, m2, {x})>> \o Tail(<<Call(at, m, {x}), Call("move", n, moving), Call("insert", n, {o})>>) = calls
        BY Replaced
      <4>2. QED
        BY <1>1, <2>1, <2>6, <4>1
    <3>2. calls \in Seq(CallType)
      BY <1>2, <2>3, StackTyped, CallTyped
    <3>3. InHand(calls) = {x} \cup moving \cup {o}
      <4>1. InHand(calls) = Call(at2, m2, {x}).objects \cup Call("move", n, moving).objects \cup Call("insert", n, {o}).objects
        BY ONLY HandOfThree
      <4>2. QED
        BY <4>1, CallTyped
    <3>4. Shape(calls)
      BY <2>6 DEF Shape, MovingOne
    <3> HIDE DEF calls
    <3>5. QED
      BY <1>1, <2>5, <3>1, <3>2, <3>3, <3>4, StackStep
  <2>7. CASE F = {}
    <3>1. new = <<Call("insert", n, {x})>>
      BY <2>3, <2>7
    <3>2. MovingAt("insert", n, x, n, o, moving)
      BY <2>1, <2>3 DEF MovingAt
    <3>3. QED
      BY <2>6, <3>1, <3>2
  <2>8. CASE F # {}
    <3>1. c \in ChildrenOf(n) /\ c \in Nodes /\ FitsIn(c, x)
      BY <2>3, <2>4, <2>8, FittingChild
    <3>2. new = <<Call("add", c, {x})>>
      BY <2>3, <2>8
    <3>3. MovingAt("add", c, x, n, o, moving)
      BY <2>1, <3>1 DEF MovingAt
    <3>4. QED
      BY <2>6, <3>1, <3>2, <3>3
  <2>9. QED
    BY <2>7, <2>8
<1>5. QED
  BY <1>1, <1>2, <1>3, <1>4, Where

(* expand takes the next object of the old contents.                       *)
LEMMA MoveObjectInv ==
  ASSUME NEW a \in Adders, IInv(a), MoveObject(a)
  PROVE  IInv(a)'
<1>1. PICK x \in Top(a).objects :
        frames' = [frames EXCEPT ![a] = <<Call("place", Top(a).node, {x}),
                                          Call("move", Top(a).node, Top(a).objects \ {x})>> \o Tail(frames[a])]
  BY DEF MoveObject, Continue
<1>2. Busy(a) /\ Top(a).at = "move" /\ UNCHANGED <<contents, nodes, search, before, moved>>
  BY DEF MoveObject, At
<1>3. contents \subseteq Objects /\ Shape(frames[a])
  BY Typed DEF IInv
<1>4. Moving(frames[a])
  BY <1>2, <1>3, Where
<1>5. PICK n \in Nodes, o \in contents, moving \in SUBSET contents :
        /\ frames[a] = <<Call("move", n, moving), Call("insert", n, {o})>>
        /\ FitsIn(n, o) /\ Outside(moving \cup {o}) /\ Bare({n})
        /\ o \notin moving /\ \A y \in moving : FitsIn(n, y)
        /\ HasRoom(n, moving)
  BY <1>4 DEF Moving
<1>6. Top(a) = Call("move", n, moving)
  BY <1>5, Replaced DEF Top
<1>7. Top(a).node = n /\ Top(a).objects = moving
  BY <1>6, CallTyped
<1> DEFINE calls == <<Call("place", n, {x}), Call("move", n, moving \ {x}), Call("insert", n, {o})>>
<1>8. frames' = [frames EXCEPT ![a] = calls]
  <2>1. <<Call("place", n, {x}), Call("move", n, moving \ {x})>>
          \o Tail(<<Call("move", n, moving), Call("insert", n, {o})>>) = calls
    BY Replaced
  <2>2. QED
    BY <1>1, <1>5, <1>7, <2>1
<1>9. /\ x \in moving /\ x \in contents /\ {x} \in SUBSET contents /\ {o} \in SUBSET contents
      /\ moving \ {x} \in SUBSET contents
  BY <1>5, <1>7
<1>10. calls \in Seq(CallType)
  BY <1>3, <1>9, StackTyped, CallTyped
<1>11. InHand(calls) = InHand(frames[a])
  <2>1. InHand(calls) = Call("place", n, {x}).objects \cup Call("move", n, moving \ {x}).objects
                          \cup Call("insert", n, {o}).objects
    <3> DEFINE p == Call("place", n, {x})
               q == Call("move", n, moving \ {x})
               r == Call("insert", n, {o})
    <3> HIDE DEF p, q, r
    <3>1. InHand(<<p, q, r>>) = p.objects \cup q.objects \cup r.objects
      BY ONLY HandOfThree
    <3>2. QED
      BY <3>1 DEF p, q, r
  <2>2. InHand(calls) = {x} \cup (moving \ {x}) \cup {o}
    BY <2>1, CallTyped
  <2>3. InHand(frames[a]) = moving \cup {o}
    <3>1. InHand(<<Call("move", n, moving), Call("insert", n, {o})>>)
            = Call("move", n, moving).objects \cup Call("insert", n, {o}).objects
      BY HandOfTwo, Zenon
    <3>2. Call("move", n, moving).objects = moving /\ Call("insert", n, {o}).objects = {o}
      BY CallTyped
    <3>3. QED
      BY <1>5, <3>1, <3>2
  <2>4. QED
    BY <1>9, <2>2, <2>3
<1>12. MovingAt("place", n, x, n, o, moving \ {x})
  <2>1. (moving \ {x}) \cup {x} = moving /\ (moving \ {x}) \cup {o, x} = moving \cup {o}
    BY <1>9
  <2>2. HasRoom(n, (moving \ {x}) \cup {x}) /\ Outside((moving \ {x}) \cup {o, x})
    BY <1>5, <2>1
  <2>3. QED
    BY <1>5, <1>9, <2>2 DEF MovingAt
<1>13. Shape(calls)
  BY <1>9, <1>12 DEF Shape, MovingOne
<1> HIDE DEF calls
<1>14. QED
  BY <1>2, <1>8, <1>10, <1>11, <1>13, StackStep

(* A node changes its contents, or is no leaf any more.                    *)
LEMMA NodeChanges ==
  ASSUME NEW a \in Adders, IInv(a), NEW n \in Nodes, NEW new \in Node,
         new.bounds = nodes[n].bounds, new.children = nodes[n].children,
         nodes' = [nodes EXCEPT ![n] = new]
  PROVE  /\ nodes' \in Seq(Node) /\ Len(nodes') = Len(nodes) /\ Nodes' = Nodes
         /\ \A m \in Nodes : nodes'[m] = IF m = n THEN new ELSE nodes[m]
         /\ \A m \in Nodes : ChildrenOf(m)' = ChildrenOf(m) /\ nodes'[m].children = nodes[m].children
         /\ \A m \in Nodes : \A o : FitsIn(m, o)' = FitsIn(m, o)
         /\ Tree'
<1>1. nodes \in Seq(Node) /\ Len(nodes) \in Nat /\ \A m \in Nodes : ChildrenOf(m) \subseteq Nodes
  BY Typed
<1>2. /\ nodes' \in Seq(Node) /\ Len(nodes') = Len(nodes)
      /\ \A m \in Nodes : nodes'[m] = IF m = n THEN new ELSE nodes[m]
  BY <1>1, ExceptSeq DEF Nodes
<1>3. Nodes' = Nodes
  BY <1>2 DEF Nodes
<1>4. \A m \in Nodes : nodes'[m].children = nodes[m].children /\ nodes'[m].bounds = nodes[m].bounds
  BY <1>2
<1>5. \A m \in Nodes : ChildrenOf(m)' = ChildrenOf(m)
  BY <1>4 DEF ChildrenOf
<1>6. \A m \in Nodes : \A o : FitsIn(m, o)' = FitsIn(m, o)
  BY <1>4 DEF FitsIn
<1>7. Tree'
  <2>1. Tree
    BY DEF IInv
  <2>2. 1 \in Nodes' /\ nodes'[1].bounds = RectFromTile(World)
    BY <1>3, <1>4, <2>1 DEF Tree
  <2>3. \A m \in Nodes' : nodes'[m].bounds.w >= 0 /\ nodes'[m].bounds.h >= 0
    BY <1>3, <1>4, <2>1 DEF Tree
  <2>4. ASSUME NEW m \in Nodes', m # 1 PROVE \E k \in 1..(m - 1) : m \in ChildrenOf(k)'
    <3>1. PICK k \in 1..(m - 1) : m \in ChildrenOf(k)
      BY <1>3, <2>1, <2>4 DEF Tree
    <3>2. k \in Nodes
      BY <1>1, <1>3, <3>1 DEF Nodes
    <3>3. QED
      BY <1>5, <3>1, <3>2
  <2>5. ASSUME NEW m \in Nodes', NEW k \in ChildrenOf(m)'
        PROVE  k \in (m + 1)..Len(nodes') /\ ContainsRect(nodes'[m].bounds, nodes'[k].bounds)
    <3>1. k \in ChildrenOf(m) /\ k \in Nodes /\ m \in Nodes
      BY <1>1, <1>3, <1>5
    <3>2. k \in (m + 1)..Len(nodes) /\ ContainsRect(nodes[m].bounds, nodes[k].bounds)
      BY <2>1, <3>1 DEF Tree
    <3>3. QED
      BY <1>2, <1>4, <3>1, <3>2
  <2>6. QED
    BY <2>2, <2>3, <2>4, <2>5 DEF Tree
<1>8. QED
  BY <1>2, <1>3, <1>4, <1>5, <1>6, <1>7

(* A step of an adder that changes a node, from which nothing a search has *)
(* to find is taken.                                                       *)
LEMMA NodeStep ==
  ASSUME NEW a \in Adders, IInv(a), NEW n \in Nodes, NEW new \in Node,
         new.bounds = nodes[n].bounds, new.children = nodes[n].children,
         nodes' = [nodes EXCEPT ![n] = new],
         new.leaf => nodes[n].leaf, nodes[n].contents \cap (before \ moved) \subseteq new.contents,
         UNCHANGED <<contents, search, before, moved>>,
         NEW calls \in Seq(CallType), frames' = [frames EXCEPT ![a] = calls],
         InHand(calls) \subseteq InHand(frames[a]),
         \A o \in InHand(frames[a]) \ InHand(calls) : o \in new.contents,
         \A o \in contents \ InHand(frames[a]) : o \in nodes[n].contents => o \in new.contents,
         Placed', Limited', Shape(calls)'
  PROVE  IInv(a)'
<1>1. TypeOK /\ Tree /\ NoneLost(a) /\ Search(a)
  BY DEF IInv
<1>2. /\ nodes' \in Seq(Node) /\ Len(nodes') = Len(nodes) /\ Nodes' = Nodes
      /\ \A m \in Nodes : nodes'[m] = IF m = n THEN new ELSE nodes[m]
      /\ \A m \in Nodes : ChildrenOf(m)' = ChildrenOf(m) /\ nodes'[m].children = nodes[m].children
      /\ Tree'
  BY NodeChanges
<1>3. frames'[a] = calls /\ frames' \in [Adders -> Seq(CallType)]
  BY <1>1 DEF TypeOK, CallType, Nodes
<1>4. TypeOK'
  <2>1. \A m \in 1..Len(nodes') :
          \A i \in 1..Len(nodes'[m].children) : nodes'[m].children[i] \in (m + 1)..Len(nodes')
    BY <1>1, <1>2 DEF TypeOK, Nodes
  <2>2. frames' \in [Adders -> Seq([at : {"add", "insert", "place", "split", "empty", "move"},
                                    node : 1..Len(nodes'), objects : SUBSET Objects])]
    BY <1>2, <1>3 DEF CallType, Nodes
  <2>3. QED
    BY <1>1, <1>2, <2>1, <2>2 DEF TypeOK
<1>5. Shape(frames[a])'
  BY <1>3
<1>6. NoneLost(a)'
  <2> SUFFICES ASSUME NEW o \in contents, o \notin InHand(calls)
               PROVE  \E m \in Nodes : o \in nodes'[m].contents
    BY <1>2, <1>3 DEF NoneLost
  <2>1. CASE o \in InHand(frames[a])
    BY <1>2, <2>1
  <2>2. CASE o \notin InHand(frames[a])
    <3>1. PICK m \in Nodes : o \in nodes[m].contents
      BY <1>1, <2>2 DEF NoneLost
    <3>2. o \in nodes'[m].contents
      BY <1>2, <2>2, <3>1
    <3>3. QED
      BY <3>2
  <2>3. QED
    BY <2>1, <2>2
<1>7. Search(a)'
  <2>1. InHand(frames'[a]) \cap before \subseteq moved
    BY <1>1, <1>3 DEF Search
  <2>2. ASSUME NEW o \in before \ (moved \cup search.found), WantedIn(search.area, o),
               NEW S \in SUBSET Nodes, Closed(S)', Ahead(S)'
        PROVE  \E m \in S : o \in nodes'[m].contents
    <3>1. Closed(S)
      BY <1>2, <2>2 DEF Closed
    <3>2. Ahead(S)
      <4>1. CASE search.looked
        <5>1. Visited \in Nodes
          <6>1. search.toVisit \in Seq(1..Len(nodes)) /\ search.toVisit # <<>>
            BY <1>1, <4>1 DEF TypeOK, Search, Searching
          <6>2. QED
            BY <6>1, HeadTailProperties DEF Visited, Nodes
        <5>2. ~nodes[Visited].leaf => ~nodes'[Visited].leaf
          BY <1>2, <5>1
        <5>3. Visited' = Visited
          BY DEF Visited
        <5>4. ~nodes[Visited].leaf => ChildrenOf(Visited) \subseteq S
          BY <1>2, <2>2, <4>1, <5>1, <5>2, <5>3 DEF Ahead
        <5>5. QED
          BY <2>2, <5>4 DEF Ahead
      <4>2. CASE ~search.looked
        BY <2>2, <4>2 DEF Ahead
      <4>3. QED
        BY <4>1, <4>2
    <3>3. PICK m \in S : o \in nodes[m].contents
      BY <1>1, <2>2, <3>1, <3>2 DEF Search
    <3>4. o \in nodes'[m].contents
      BY <1>2, <2>2, <3>3
    <3>5. QED
      BY <3>4
  <2>3. QED
    BY <1>1, <1>2, <2>1, <2>2 DEF Search, Searching
<1>8. QED
  BY <1>2, <1>4, <1>5, <1>6, <1>7 DEF IInv

(* An adder at rest has no node to split.                                  *)
LEMMA AtRest ==
  ASSUME NEW a, ~Busy(a), Shape(frames[a])
  PROVE  frames[a] = <<>> /\ Bare({})
<1>1. frames[a] = <<>>
  BY DEF Busy
<1>2. /\ \A p : <<p>> # <<>>
      /\ \A p, q : <<p, q>> # <<>>
      /\ \A p, q, r : <<p, q, r>> # <<>>
  OBVIOUS
<1>3. ~Adding(frames[a]) /\ ~Splitting(frames[a]) /\ ~Emptying(frames[a]) /\ ~Moving(frames[a])
  BY <1>1, <1>2 DEF Adding, Splitting, Emptying, Moving
<1>4. ~MovingOne(frames[a])
  BY <1>1, <1>2 DEF MovingOne
<1>5. QED
  BY <1>1, <1>3, <1>4 DEF Shape

(* addObject: of OSPMap                                                    *)
LEMMA MapAddInv ==
  ASSUME NEW a \in Adders, IInv(a), NEW o \in Objects, MapAdd(a, o)
  PROVE  IInv(a)'
<1>1. TypeOK /\ Tree /\ Placed /\ Limited /\ Shape(frames[a]) /\ NoneLost(a) /\ Search(a)
  BY DEF IInv
<1>2. /\ ~Busy(a) /\ o \notin contents /\ contents' = contents \cup {o}
      /\ UNCHANGED <<nodes, search, before, moved>>
  BY DEF MapAdd
<1> DEFINE calls == <<Call("add", 1, {o})>>
<1>3. frames' = [frames EXCEPT ![a] = calls]
  BY DEF MapAdd
<1>4. frames[a] = <<>> /\ Bare({})
  BY <1>1, <1>2, AtRest
<1>5. Call("add", 1, {o}) \in CallType /\ Call("add", 1, {o}).objects = {o}
  BY <1>1 DEF Call, CallType, Tree
<1>6. calls \in Seq(CallType) /\ InHand(calls) = {o}
  BY <1>5, StackTyped, HandOf
<1>7. /\ Nodes' = Nodes /\ \A n : ChildrenOf(n)' = ChildrenOf(n)
      /\ \A n, x : FitsIn(n, x)' = FitsIn(n, x)
      /\ Bare({})' = Bare({})
  BY <1>2 DEF Nodes, ChildrenOf, FitsIn, Bare
<1>8. Shape(calls)'
  <2>1. Outside({o})' /\ FitsIn(1, o)'
    BY <1>1, <1>2, <1>7 DEF Outside, Placed, FitsIn
  <2>2. Adding(calls)'
    BY <1>1, <1>2, <1>4, <1>7, <2>1 DEF Adding, Tree
  <2>3. QED
    BY <2>2 DEF Shape
<1> HIDE DEF calls
<1>9. frames'[a] = calls /\ frames' \in [Adders -> Seq(CallType)]
  BY <1>1, <1>3, <1>6 DEF TypeOK, CallType, Nodes
<1>10. TypeOK'
  BY <1>1, <1>2, <1>9 DEF TypeOK, CallType, Nodes
<1>11. Tree' /\ Limited'
  BY <1>1, <1>2, <1>7 DEF Tree, Limited
<1>12. Placed'
  BY <1>1, <1>2, <1>7 DEF Placed
<1>13. NoneLost(a)'
  <2>1. InHand(frames[a]) = {} /\ InHand(frames'[a]) = {o}
    BY <1>4, <1>6, <1>9, HandOf
  <2>2. QED
    BY <1>1, <1>2, <1>7, <2>1 DEF NoneLost
<1>14. Search(a)'
  <2>1. InHand(frames'[a]) \cap before = {}
    BY <1>1, <1>2, <1>6, <1>9 DEF TypeOK
  <2>2. \A S : Closed(S)' = Closed(S) /\ Ahead(S)' = Ahead(S)
    BY <1>2, <1>7 DEF Closed, Ahead, Visited
  <2>3. QED
    BY <1>1, <1>2, <1>7, <2>1, <2>2 DEF Search, Searching
<1>15. QED
  BY <1>8, <1>9, <1>10, <1>11, <1>12, <1>13, <1>14 DEF IInv

(* expand makes its node no leaf, when all of its old contents have moved. *)
LEMMA ExpandedInv ==
  ASSUME NEW a \in Adders, IInv(a), Expanded(a)
  PROVE  IInv(a)'
<1>1. /\ Busy(a) /\ Top(a).at = "move" /\ Top(a).objects = {} /\ UNCHANGED <<contents, search, before, moved>>
      /\ nodes' = [nodes EXCEPT ![Top(a).node].leaf = FALSE]
      /\ frames' = [frames EXCEPT ![a] = <<>> \o Tail(frames[a])]
  BY DEF Expanded, At, Continue
<1>2. /\ \A n \in Nodes : nodes[n] \in Node /\ ChildrenOf(n) \subseteq Nodes
      /\ contents \subseteq Objects
  BY Typed
<1>3. Shape(frames[a]) /\ Limited /\ Placed
  BY DEF IInv
<1>4. Moving(frames[a])
  BY <1>1, <1>3, Where
<1>5. PICK n \in Nodes, o \in contents, moving \in SUBSET contents :
        /\ frames[a] = <<Call("move", n, moving), Call("insert", n, {o})>>
        /\ FitsIn(n, o) /\ Outside(moving \cup {o}) /\ Bare({n})
        /\ o \notin moving /\ \A y \in moving : FitsIn(n, y)
        /\ HasRoom(n, moving)
  BY <1>4 DEF Moving
<1>6. Top(a) = Call("move", n, moving)
  BY <1>5, Replaced DEF Top
<1>7. Top(a).node = n /\ moving = {}
  BY <1>1, <1>6, CallTyped
<1> DEFINE calls == <<Call("insert", n, {o})>>
           new == [nodes[n] EXCEPT !.leaf = FALSE]
<1>8. frames' = [frames EXCEPT ![a] = calls]
  <2>1. <<>> \o Tail(<<Call("move", n, moving), Call("insert", n, {o})>>) = calls
    BY Replaced
  <2>2. QED
    BY <1>1, <1>5, <2>1
<1>9. Call("insert", n, {o}) \in CallType /\ Call("insert", n, {o}).objects = {o}
      /\ Call("move", n, moving).objects = {}
  BY <1>2, <1>7, CallTyped
<1>10. calls \in Seq(CallType) /\ InHand(calls) = {o}
  BY <1>9, StackTyped, HandOf
<1>11. InHand(frames[a]) = {o}
  <2>1. InHand(<<Call("move", n, moving), Call("insert", n, {o})>>)
          = Call("move", n, moving).objects \cup Call("insert", n, {o}).objects
    BY HandOfTwo, Zenon
  <2>2. QED
    BY <1>5, <1>9, <2>1
<1>12. nodes' = [nodes EXCEPT ![n] = new]
  BY <1>1, <1>7
<1>13. /\ new \in Node /\ new.bounds = nodes[n].bounds /\ new.children = nodes[n].children
       /\ new.contents = nodes[n].contents /\ new.leaf = FALSE
  BY <1>2 DEF Node
<1> HIDE DEF new
<1>14. /\ Nodes' = Nodes /\ \A m \in Nodes : nodes'[m] = IF m = n THEN new ELSE nodes[m]
       /\ \A m \in Nodes : \A x : FitsIn(m, x)' = FitsIn(m, x)
       /\ \A m \in Nodes : nodes'[m].children = nodes[m].children
  BY <1>12, <1>13, NodeChanges
<1>15. \A m \in Nodes : nodes'[m].contents = nodes[m].contents
  BY <1>13, <1>14
<1>16. Placed'
  BY <1>1, <1>3, <1>14, <1>15 DEF Placed
<1>17. Limited'
  BY <1>3, <1>13, <1>14, <1>15 DEF Limited
<1>18. Shape(calls)'
  <2>1. Bare({})'
    BY <1>5, <1>13, <1>14 DEF Bare
  <2>2. Outside({o})' /\ FitsIn(n, o)' /\ ~nodes'[n].leaf
    BY <1>5, <1>13, <1>14, <1>15 DEF Outside
  <2>3. Adding(calls)'
    BY <1>1, <1>14, <2>1, <2>2 DEF Adding
  <2>4. QED
    BY <2>3 DEF Shape
<1> HIDE DEF calls
<1>19. nodes[n].contents \cap (before \ moved) \subseteq new.contents
  BY <1>13
<1>20. QED
  BY <1>1, <1>8, <1>10, <1>11, <1>12, <1>13, <1>16, <1>17, <1>18, <1>19, NodeStep

(* expand empties its node: the objects it held are in its hands now, and  *)
(* in no node.                                                             *)
LEMMA EmptyContentsInv ==
  ASSUME NEW a \in Adders, IInv(a), EmptyContents(a)
  PROVE  IInv(a)'
<1>1. /\ Busy(a) /\ Top(a).at = "empty" /\ UNCHANGED <<contents, search, before, moved>>
      /\ nodes' = [nodes EXCEPT ![Top(a).node].contents = {}]
      /\ frames' = [frames EXCEPT ![a] = <<Call("move", Top(a).node, Top(a).objects)>> \o Tail(frames[a])]
  BY DEF EmptyContents, At, Continue
<1>2. /\ \A m \in Nodes : nodes[m] \in Node /\ nodes[m].contents \subseteq contents /\ ChildrenOf(m) \subseteq Nodes
      /\ \A m \in Nodes : m \notin ChildrenOf(m)
      /\ contents \subseteq Objects
  BY Typed
<1>3. Shape(frames[a]) /\ Limited /\ Placed /\ Search(a) /\ ExpandLimit \in Nat
  BY QuadTreeAssumption DEF IInv
<1>4. Emptying(frames[a])
  BY <1>1, <1>3, Where
<1>5. PICK n \in Nodes, o \in contents :
        /\ frames[a] = <<Call("empty", n, nodes[n].contents), Call("insert", n, {o})>>
        /\ FitsIn(n, o) /\ Outside({o}) /\ Bare({n})
        /\ nodes[n].leaf
        /\ \A m \in ChildrenOf(n) : nodes[m] = NewNode(nodes[m].bounds)
  BY <1>4 DEF Emptying
<1>0. PICK X : X = nodes[n].contents
  OBVIOUS
<1> DEFINE calls == <<Call("move", n, X), Call("insert", n, {o})>>
           new == [nodes[n] EXCEPT !.contents = {}]
<1>6. Top(a) = Call("empty", n, X)
  BY <1>0, <1>5, Replaced DEF Top
<1>7. Top(a).node = n /\ Top(a).objects = X
  BY <1>6, CallTyped
<1>8. frames' = [frames EXCEPT ![a] = calls]
  <2>1. <<Call("move", n, X)>> \o Tail(<<Call("empty", n, X), Call("insert", n, {o})>>) = calls
    BY Replaced
  <2>2. QED
    BY <1>0, <1>1, <1>5, <1>7, <2>1
<1>9. /\ X \in SUBSET contents /\ {o} \in SUBSET contents
      /\ Call("move", n, X).objects = X /\ Call("insert", n, {o}).objects = {o} /\ Call("empty", n, X).objects = X
  BY <1>0, <1>2, CallTyped
<1>10. Call("move", n, X) \in CallType /\ Call("insert", n, {o}) \in CallType
  BY <1>2, <1>9, CallTyped
<1>11. calls \in Seq(CallType)
  BY <1>10, StackTyped
<1>12. InHand(calls) = X \cup {o} /\ InHand(frames[a]) = X \cup {o}
  <2> DEFINE p == Call("move", n, X)
             q == Call("insert", n, {o})
             r == Call("empty", n, X)
  <2>1. frames[a] = <<r, q>> /\ calls = <<p, q>>
    BY <1>0, <1>5
  <2>2. p.objects = X /\ q.objects = {o} /\ r.objects = X
    BY <1>9
  <2> HIDE DEF p, q, r, calls
  <2>3. InHand(<<p, q>>) = p.objects \cup q.objects /\ InHand(<<r, q>>) = r.objects \cup q.objects
    BY HandOf
  <2>4. QED
    BY <2>1, <2>2, <2>3
<1>13. nodes' = [nodes EXCEPT ![n] = new]
  BY <1>1, <1>7
<1>14. nodes[n] \in Node
  BY <1>2
<1>15. new.bounds = nodes[n].bounds /\ new.children = nodes[n].children /\ new.contents = {} /\ new.leaf = nodes[n].leaf
  BY <1>14 DEF Node
<1>16. new \in Node
  BY <1>14 DEF Node
<1> HIDE DEF new
<1>17. /\ Nodes' = Nodes /\ \A m \in Nodes : nodes'[m] = IF m = n THEN new ELSE nodes[m]
       /\ \A m \in Nodes : \A x : FitsIn(m, x)' = FitsIn(m, x)
       /\ \A m \in Nodes : nodes'[m].children = nodes[m].children /\ ChildrenOf(m)' = ChildrenOf(m)
  BY <1>13, <1>15, <1>16, NodeChanges
<1>18. nodes'[n].contents = {} /\ \A m \in Nodes : m # n => nodes'[m].contents = nodes[m].contents
  BY <1>15, <1>17
<1>19. \A m \in Nodes : nodes'[m].leaf = nodes[m].leaf
  BY <1>15, <1>17
<1>20. Placed'
  BY <1>1, <1>3, <1>17, <1>18 DEF Placed
<1>21. IsFiniteSet({}) /\ Cardinality({}) = 0
  BY FS_EmptySet
<1>22. Limited'
  <2> SUFFICES ASSUME NEW m \in Nodes, nodes'[m].leaf
               PROVE  IsFiniteSet(nodes'[m].contents) /\ Cardinality(nodes'[m].contents) <= ExpandLimit
    BY <1>17 DEF Limited
  <2>1. CASE m = n
    <3>1. nodes'[m].contents = {}
      BY <1>18, <2>1
    <3>2. QED
      BY <1>3, <1>21, <3>1
  <2>2. CASE m # n
    BY <1>3, <1>18, <1>19, <2>2 DEF Limited
  <2>3. QED
    BY <2>1, <2>2
<1>23. IsFiniteSet(X) /\ Cardinality(X) <= ExpandLimit /\ Cardinality(X) \in Nat
  BY <1>0, <1>3, <1>5, FS_CardinalityType DEF Limited
<1>24. Outside(X \cup {o})'
  <2>1. \A m \in Nodes : nodes'[m].contents \cap X = {}
    BY <1>0, <1>3, <1>18 DEF Placed
  <2>2. \A m \in Nodes : nodes'[m].contents \cap {o} = {}
    BY <1>5, <1>18 DEF Outside
  <2>3. QED
    BY <1>17, <2>1, <2>2 DEF Outside
<1>25. HasRoom(n, X)'
  <2>0. \A b : NewNode(b).leaf /\ NewNode(b).children = <<>> /\ NewNode(b).contents = {}
    BY DEF NewNode
  <2>1. ASSUME NEW m \in ChildrenOf(n)
        PROVE  nodes[m].leaf /\ nodes[m].children = <<>> /\ nodes[m].contents = {}
    <3> DEFINE b == nodes[m].bounds
    <3>1. nodes[m] = NewNode(b)
      BY <1>5
    <3> HIDE DEF b
    <3>2. QED
      BY <2>0, <3>1
  <2>2. \A m \in ChildrenOf(n)' : nodes'[m].leaf /\ nodes'[m].children = <<>>
    BY <1>2, <1>17, <1>19, <2>1
  <2>3. \A m \in ChildrenOf(n)' \cup {n} : nodes'[m].contents = {}
    BY <1>2, <1>17, <1>18, <2>1
  <2>4. ASSUME NEW m \in ChildrenOf(n)' \cup {n}
        PROVE  Cardinality(nodes'[m].contents) + Cardinality(X) <= ExpandLimit
    <3>1. Cardinality(nodes'[m].contents) = 0
      BY <1>21, <2>3
    <3>2. QED
      BY <1>3, <1>23, <3>1
  <2>5. QED
    BY <1>5, <1>19, <1>23, <2>2, <2>4 DEF HasRoom
<1>26. Shape(calls)'
  <2>1. Bare({n})'
    BY <1>5, <1>17, <1>19 DEF Bare
  <2>2. o \notin X /\ \A y \in X : FitsIn(n, y)
    BY <1>0, <1>3, <1>5 DEF Outside, Placed
  <2>3. FitsIn(n, o)' /\ \A y \in X : FitsIn(n, y)'
    BY <1>5, <1>17, <2>2
  <2>4. Moving(calls)'
    <3>1. calls = <<Call("move", n, X), Call("insert", n, {o})>> /\ n \in Nodes' /\ o \in contents' /\ X \in SUBSET contents'
      BY <1>1, <1>9, <1>17
    <3> HIDE DEF calls
    <3>2. QED
      BY <1>24, <1>25, <2>1, <2>2, <2>3, <3>1 DEF Moving
  <2>5. QED
    BY <2>4 DEF Shape
<1>27. X \cap (before \ moved) \subseteq new.contents
  BY <1>0, <1>3, <1>12 DEF Search
<1>28. new.leaf => nodes[n].leaf
  BY <1>15
<1>29. \A x \in contents \ InHand(frames[a]) : x \in nodes[n].contents => x \in new.contents
  BY <1>0, <1>12
<1>30. InHand(calls) \subseteq InHand(frames[a]) /\ \A x \in InHand(frames[a]) \ InHand(calls) : x \in new.contents
  BY <1>12
<1> HIDE DEF calls
<1>31. nodes[n].contents \cap (before \ moved) \subseteq new.contents
  BY <1>0, <1>27
<1>32. QED
  BY <1>1, <1>8, <1>11, <1>13, <1>15, <1>16, <1>20, <1>22, <1>26, <1>28, <1>29, <1>30, <1>31, NodeStep

(* An object that is in no node enters one it fits in and that has room.   *)
LEMMA ObjectEnters ==
  ASSUME NEW a \in Adders, IInv(a), NEW n \in Nodes, NEW x \in contents,
         FitsIn(n, x), Outside({x}),
         nodes[n].leaf => Cardinality(nodes[n].contents) < ExpandLimit,
         nodes' = [nodes EXCEPT ![n].contents = @ \cup {x}], UNCHANGED contents
  PROVE  /\ Placed' /\ Limited' /\ Nodes' = Nodes
         /\ nodes'[n].contents = nodes[n].contents \cup {x}
         /\ \A m \in Nodes : m # n => nodes'[m].contents = nodes[m].contents
         /\ \A m \in Nodes : nodes'[m].leaf = nodes[m].leaf /\ nodes'[m].children = nodes[m].children
         /\ \A m \in Nodes : ChildrenOf(m)' = ChildrenOf(m)
         /\ \A m \in Nodes : \A o : FitsIn(m, o)' = FitsIn(m, o)
         /\ \E new \in Node : /\ new.bounds = nodes[n].bounds /\ new.children = nodes[n].children
                              /\ new.leaf = nodes[n].leaf /\ new.contents = nodes[n].contents \cup {x}
                              /\ nodes' = [nodes EXCEPT ![n] = new]
<1>1. /\ \A m \in Nodes : nodes[m] \in Node /\ nodes[m].contents \subseteq contents
      /\ contents \subseteq Objects
  BY Typed
<1>2. Limited /\ Placed /\ ExpandLimit \in Nat
  BY QuadTreeAssumption DEF IInv
<1> DEFINE new == [nodes[n] EXCEPT !.contents = @ \cup {x}]
<1>3. nodes' = [nodes EXCEPT ![n] = new]
  OBVIOUS
<1>4. nodes[n] \in Node /\ x \in Objects
  BY <1>1
<1>5. /\ new.bounds = nodes[n].bounds /\ new.children = nodes[n].children
      /\ new.contents = nodes[n].contents \cup {x} /\ new.leaf = nodes[n].leaf
  BY <1>4 DEF Node
<1>6. new \in Node
  BY <1>4 DEF Node
<1> HIDE DEF new
<1>7. /\ Nodes' = Nodes /\ \A m \in Nodes : nodes'[m] = IF m = n THEN new ELSE nodes[m]
      /\ \A m \in Nodes : \A o : FitsIn(m, o)' = FitsIn(m, o)
      /\ \A m \in Nodes : nodes'[m].children = nodes[m].children /\ ChildrenOf(m)' = ChildrenOf(m)
  BY <1>3, <1>5, <1>6, NodeChanges
<1>8. /\ nodes'[n].contents = nodes[n].contents \cup {x}
      /\ \A m \in Nodes : m # n => nodes'[m].contents = nodes[m].contents
      /\ \A m \in Nodes : nodes'[m].leaf = nodes[m].leaf
  BY <1>5, <1>7
<1>9. \A m \in Nodes : x \notin nodes[m].contents
  BY DEF Outside
<1>10. Placed'
  <2>1. ASSUME NEW m \in Nodes, NEW o \in nodes'[m].contents
        PROVE  o \in contents /\ FitsIn(m, o)
    BY <1>2, <1>8, <2>1 DEF Placed
  <2>2. ASSUME NEW m \in Nodes, NEW k \in Nodes, NEW o \in nodes'[m].contents, o \in nodes'[k].contents
        PROVE  m = k
    BY <1>2, <1>8, <1>9, <2>2 DEF Placed
  <2>3. QED
    BY <1>7, <2>1, <2>2 DEF Placed
<1>11. Limited'
  <2> SUFFICES ASSUME NEW m \in Nodes, nodes'[m].leaf
               PROVE  IsFiniteSet(nodes'[m].contents) /\ Cardinality(nodes'[m].contents) <= ExpandLimit
    BY <1>7 DEF Limited
  <2>1. CASE m = n
    <3>1. IsFiniteSet(nodes[n].contents) /\ Cardinality(nodes[n].contents) < ExpandLimit
      BY <1>2, <1>8, <2>1 DEF Limited
    <3>2. /\ IsFiniteSet(nodes[n].contents \cup {x}) /\ Cardinality(nodes[n].contents) \in Nat
          /\ Cardinality(nodes[n].contents \cup {x}) = Cardinality(nodes[n].contents) + 1
      BY <1>9, <3>1, OneMore
    <3>3. nodes'[m].contents = nodes[n].contents \cup {x}
      BY <1>8, <2>1
    <3>4. Cardinality(nodes[n].contents) + 1 <= ExpandLimit
      BY <1>2, <3>1, <3>2
    <3>5. QED
      BY <3>2, <3>3, <3>4
  <2>2. CASE m # n
    BY <1>2, <1>8, <2>2 DEF Limited
  <2>3. QED
    BY <2>1, <2>2
<1>12. QED
  BY <1>3, <1>5, <1>6, <1>7, <1>8, <1>10, <1>11

(* CFSetAddValue: the object is in its node, and in nobody's hands.        *)
LEMMA InsertInv ==
  ASSUME NEW a \in Adders, IInv(a), Insert(a)
  PROVE  IInv(a)'
<1>1. /\ Busy(a) /\ Top(a).at = "insert" /\ UNCHANGED <<contents, search, before, moved>>
      /\ nodes' = [nodes EXCEPT ![Top(a).node].contents = @ \cup Top(a).objects]
      /\ frames' = [frames EXCEPT ![a] = <<>> \o Tail(frames[a])]
  BY DEF Insert, At, Continue
<1>2. /\ \A n \in Nodes : nodes[n] \in Node /\ ChildrenOf(n) \subseteq Nodes
      /\ contents \subseteq Objects
  BY Typed
<1>3. Shape(frames[a]) /\ Limited /\ ExpandLimit \in Nat
  BY QuadTreeAssumption DEF IInv
<1>4. CASE Adding(frames[a])
  <2>1. PICK at \in {"add", "place", "insert"}, n \in Nodes, o \in contents :
          /\ frames[a] = <<Call(at, n, {o})>>
          /\ FitsIn(n, o) /\ Outside({o}) /\ Bare({})
          /\ at = "place" => ~nodes[n].leaf
          /\ at = "insert" /\ nodes[n].leaf => Cardinality(nodes[n].contents) < ExpandLimit
    BY <1>4 DEF Adding
  <2>2. Top(a) = Call(at, n, {o}) /\ <<>> \o Tail(<<Call(at, n, {o})>>) = <<>>
    BY <2>1, Replaced DEF Top
  <2>3. at = "insert" /\ Top(a).node = n /\ Top(a).objects = {o} /\ Call(at, n, {o}).objects = {o}
    BY <1>1, <2>2, CallTyped
  <2>4. /\ nodes' = [nodes EXCEPT ![n].contents = @ \cup {o}] /\ UNCHANGED contents
        /\ nodes[n].leaf => Cardinality(nodes[n].contents) < ExpandLimit
        /\ FitsIn(n, o) /\ Outside({o})
    BY <1>1, <2>1, <2>3
  <2>5. /\ Placed' /\ Limited' /\ Nodes' = Nodes
        /\ \A m \in Nodes : nodes'[m].leaf = nodes[m].leaf /\ nodes'[m].children = nodes[m].children
    BY <2>4, ObjectEnters
  <2>6. PICK new \in Node : /\ new.bounds = nodes[n].bounds /\ new.children = nodes[n].children
                            /\ new.leaf = nodes[n].leaf /\ new.contents = nodes[n].contents \cup {o}
                            /\ nodes' = [nodes EXCEPT ![n] = new]
    BY <2>4, ObjectEnters
  <2>7. InHand(frames[a]) = {o} /\ InHand(<<>>) = {}
    BY <2>1, <2>3, HandOf
  <2> DEFINE calls == <<>>
  <2>8. calls \in Seq(CallType) /\ frames' = [frames EXCEPT ![a] = calls] /\ InHand(calls) = {}
    BY <1>1, <2>1, <2>2, <2>7, StackTyped
  <2>9. Shape(calls)'
    BY <2>1, <2>5 DEF Shape, Bare
  <2> HIDE DEF calls
  <2>10. /\ new.leaf => nodes[n].leaf
         /\ nodes[n].contents \cap (before \ moved) \subseteq new.contents
         /\ \A p \in contents \ InHand(frames[a]) : p \in nodes[n].contents => p \in new.contents
         /\ \A p \in InHand(frames[a]) \ InHand(calls) : p \in new.contents
         /\ InHand(calls) \subseteq InHand(frames[a])
    BY <2>6, <2>7, <2>8
  <2>11. UNCHANGED <<contents, search, before, moved>>
    BY <1>1, <2>4
  <2>12. QED
    BY <2>5, <2>6, <2>8, <2>9, <2>10, <2>11, NodeStep
<1>5. CASE MovingOne(frames[a])
  <2>1. PICK at \in {"add", "place", "insert"}, m \in Nodes, x \in contents,
             n \in Nodes, o \in contents, moving \in SUBSET contents :
          /\ frames[a] = <<Call(at, m, {x}), Call("move", n, moving), Call("insert", n, {o})>>
          /\ MovingAt(at, m, x, n, o, moving)
    BY <1>5 DEF MovingOne
  <2>2. Top(a) = Call(at, m, {x})
    BY <2>1, Replaced DEF Top
  <2>3. at = "insert" /\ Top(a).node = m /\ Top(a).objects = {x}
    BY <1>1, <2>2, CallTyped
  <2>4. /\ FitsIn(n, o) /\ Outside(moving \cup {o, x}) /\ Bare({n})
        /\ o \notin moving /\ x \notin moving /\ x # o /\ \A y \in moving : FitsIn(n, y)
        /\ HasRoom(n, moving \cup {x}) /\ FitsIn(m, x)
        /\ m \in ChildrenOf(n) \cup {n}
    BY <2>1, <2>3 DEF MovingAt
  <2>5. /\ IsFiniteSet(moving) /\ Cardinality(moving) \in Nat
        /\ Cardinality(moving \cup {x}) = Cardinality(moving) + 1
    <3>1. IsFiniteSet(moving \cup {x})
      BY <2>4 DEF HasRoom
    <3>2. IsFiniteSet(moving)
      BY <3>1, FS_Subset
    <3>3. QED
      BY <2>4, <3>2, OneMore
  <2>6. \A k \in ChildrenOf(n) \cup {n} :
          /\ k \in Nodes /\ nodes[k].leaf
          /\ Cardinality(nodes[k].contents) \in Nat
          /\ Cardinality(nodes[k].contents) + Cardinality(moving) + 1 <= ExpandLimit
    <3> SUFFICES ASSUME NEW k \in ChildrenOf(n) \cup {n}
                 PROVE  /\ k \in Nodes /\ nodes[k].leaf
                        /\ Cardinality(nodes[k].contents) \in Nat
                        /\ Cardinality(nodes[k].contents) + Cardinality(moving) + 1 <= ExpandLimit
      OBVIOUS
    <3>1. k \in Nodes /\ nodes[k].leaf
      BY <1>2, <2>4 DEF HasRoom
    <3>2. Cardinality(nodes[k].contents) \in Nat
      BY <1>3, <3>1, FS_CardinalityType DEF Limited
    <3>3. Cardinality(nodes[k].contents) + Cardinality(moving \cup {x}) <= ExpandLimit
      BY <2>4 DEF HasRoom
    <3>4. QED
      BY <1>3, <2>5, <3>1, <3>2, <3>3
  <2>7. nodes' = [nodes EXCEPT ![m].contents = @ \cup {x}]
    BY <1>1, <2>3
  <2>8. Outside({x}) /\ Cardinality(nodes[m].contents) < ExpandLimit
    <3>1. Outside({x})
      BY <2>4 DEF Outside
    <3>2. Cardinality(nodes[m].contents) \in Nat /\ Cardinality(nodes[m].contents) + Cardinality(moving) + 1 <= ExpandLimit
      BY <2>4, <2>6
    <3>3. QED
      BY <1>3, <2>5, <3>1, <3>2
  <2>9. /\ Placed' /\ Limited' /\ Nodes' = Nodes
        /\ nodes'[m].contents = nodes[m].contents \cup {x}
        /\ \A k \in Nodes : k # m => nodes'[k].contents = nodes[k].contents
        /\ \A k \in Nodes : nodes'[k].leaf = nodes[k].leaf /\ nodes'[k].children = nodes[k].children
        /\ \A k \in Nodes : ChildrenOf(k)' = ChildrenOf(k)
        /\ \A k \in Nodes : \A y : FitsIn(k, y)' = FitsIn(k, y)
    BY <1>1, <2>4, <2>7, <2>8, ObjectEnters
  <2>10. PICK new \in Node : /\ new.bounds = nodes[m].bounds /\ new.children = nodes[m].children
                             /\ new.leaf = nodes[m].leaf /\ new.contents = nodes[m].contents \cup {x}
                             /\ nodes' = [nodes EXCEPT ![m] = new]
    BY <1>1, <2>4, <2>7, <2>8, ObjectEnters
  <2> DEFINE calls == <<Call("move", n, moving), Call("insert", n, {o})>>
  <2>11. frames' = [frames EXCEPT ![a] = calls]
    <3>1. <<>> \o Tail(<<Call(at, m, {x}), Call("move", n, moving), Call("insert", n, {o})>>) = calls
      BY Replaced
    <3>2. QED
      BY <1>1, <2>1, <3>1
  <2>12. /\ Call("move", n, moving) \in CallType /\ Call("move", n, moving).objects = moving
         /\ Call("insert", n, {o}) \in CallType /\ Call("insert", n, {o}).objects = {o}
         /\ Call(at, m, {x}).objects = {x}
    BY <1>2, CallTyped
  <2>13. calls \in Seq(CallType) /\ InHand(calls) = moving \cup {o}
    <3>1. calls \in Seq(CallType)
      BY <2>12, StackTyped
    <3>2. InHand(calls) = Call("move", n, moving).objects \cup Call("insert", n, {o}).objects
      BY HandOf
    <3>3. QED
      BY <2>12, <3>1, <3>2
  <2>14. InHand(frames[a]) = {x} \cup moving \cup {o}
    <3>1. InHand(<<Call(at, m, {x}), Call("move", n, moving), Call("insert", n, {o})>>)
            = Call(at, m, {x}).objects \cup Call("move", n, moving).objects \cup Call("insert", n, {o}).objects
      <4> DEFINE p == Call(at, m, {x})
                 q == Call("move", n, moving)
                 r == Call("insert", n, {o})
      <4> HIDE DEF p, q, r
      <4>1. InHand(<<p, q, r>>) = p.objects \cup q.objects \cup r.objects
        BY ONLY HandOfThree
      <4>2. QED
        BY <4>1 DEF p, q, r
    <3>2. QED
      BY <2>1, <2>12, <3>1
  <2>15. Outside(moving \cup {o})'
    <3>1. ASSUME NEW k \in Nodes PROVE nodes'[k].contents \cap (moving \cup {o}) = {}
      <4>1. nodes[k].contents \cap (moving \cup {o, x}) = {}
        BY <2>4 DEF Outside
      <4>2. nodes'[k].contents \subseteq nodes[k].contents \cup {x}
        BY <2>9
      <4>3. QED
        BY <2>4, <4>1, <4>2
    <3>2. QED
      BY <2>9, <3>1 DEF Outside
  <2>16. HasRoom(n, moving)'
    <3>1. ASSUME NEW k \in ChildrenOf(n) \cup {n}
          PROVE  Cardinality(nodes'[k].contents) + Cardinality(moving) <= ExpandLimit
      <4>1. /\ k \in Nodes /\ nodes[k].leaf
            /\ Cardinality(nodes[k].contents) \in Nat
            /\ Cardinality(nodes[k].contents) + Cardinality(moving) + 1 <= ExpandLimit
        BY <2>6
      <4>2. CASE k = m
        <5>1. IsFiniteSet(nodes[k].contents) /\ x \notin nodes[k].contents
          BY <1>3, <2>8, <4>1 DEF Limited, Outside
        <5>2. Cardinality(nodes[k].contents \cup {x}) = Cardinality(nodes[k].contents) + 1
          BY <5>1, OneMore
        <5>3. Cardinality(nodes'[k].contents) = Cardinality(nodes[k].contents) + 1
          BY <2>9, <4>2, <5>2
        <5>4. QED
          BY <1>3, <2>5, <4>1, <5>3
      <4>3. CASE k # m
        <5>1. Cardinality(nodes'[k].contents) = Cardinality(nodes[k].contents)
          BY <2>9, <4>1, <4>3
        <5>2. QED
          BY <1>3, <2>5, <4>1, <5>1
      <4>4. QED
        BY <4>2, <4>3
    <3>2. \A k \in ChildrenOf(n) : nodes[k].leaf /\ nodes[k].children = <<>>
      BY <2>4 DEF HasRoom
    <3>3. \A k \in ChildrenOf(n)' : nodes'[k].leaf /\ nodes'[k].children = <<>>
      BY <2>6, <2>9, <3>2
    <3>4. nodes'[n].leaf /\ ChildrenOf(n)' = ChildrenOf(n)
      BY <2>6, <2>9
    <3>5. QED
      BY <2>5, <3>1, <3>3, <3>4 DEF HasRoom
  <2>17. Shape(calls)'
    <3>1. Bare({n})' /\ FitsIn(n, o)' /\ \A y \in moving : FitsIn(n, y)'
      BY <2>4, <2>9 DEF Bare
    <3>2. Moving(calls)'
      BY <1>1, <2>4, <2>9, <2>15, <2>16, <3>1 DEF Moving
    <3>3. QED
      BY <3>2 DEF Shape
  <2> HIDE DEF calls
  <2>18. /\ InHand(calls) \subseteq InHand(frames[a])
         /\ \A y \in InHand(frames[a]) \ InHand(calls) : y \in new.contents
         /\ new.leaf => nodes[m].leaf
         /\ nodes[m].contents \cap (before \ moved) \subseteq new.contents
         /\ \A y \in contents \ InHand(frames[a]) : y \in nodes[m].contents => y \in new.contents
    BY <2>10, <2>13, <2>14
  <2>19. QED
    BY <1>1, <2>9, <2>10, <2>11, <2>13, <2>17, <2>18, NodeStep
<1>6. QED
  BY <1>1, <1>3, <1>4, <1>5, Where

(* The quarters of a rectangle are within it.                              *)
LEMMA QuarterWithin ==
  ASSUME NEW r \in [x : Int, y : Int, w : Int, h : Int], r.w >= 0, r.h >= 0, NEW i \in 1..4
  PROVE  /\ QuarterRect(r, i) \in [x : Int, y : Int, w : Int, h : Int]
         /\ QuarterRect(r, i).w >= 0 /\ QuarterRect(r, i).h >= 0
         /\ ContainsRect(r, QuarterRect(r, i))
<1>1. PICK v \in Int : v = r.w \div 2 /\ v >= 0 /\ 2 * v <= r.w
  OBVIOUS
<1>2. PICK u \in Int : u = r.h \div 2 /\ u >= 0 /\ 2 * u <= r.h
  OBVIOUS
<1>3. PICK p \in {0, 1}, q \in {0, 1} : p = (i - 1) % 2 /\ q = (i - 1) \div 2
  <2>1. i = 1 \/ i = 2 \/ i = 3 \/ i = 4
    OBVIOUS
  <2>2. QED
    BY <2>1
<1>4. QuarterRect(r, i) = [x |-> r.x + v * p, y |-> r.y + u * q, w |-> v, h |-> u]
  BY <1>1, <1>2, <1>3 DEF QuarterRect
<1>5. v * p \in {0, v} /\ u * q \in {0, u}
  BY <1>3
<1>6. PICK x \in Int, y \in Int : /\ x = r.x + v * p /\ r.x <= x /\ x + v <= r.x + r.w
                                  /\ y = r.y + u * q /\ r.y <= y /\ y + u <= r.y + r.h
  <2>1. PICK vp \in {0, v}, uq \in {0, u} : vp = v * p /\ uq = u * q
    BY <1>5
  <2>2. r.x \in Int /\ r.y \in Int /\ r.w \in Int /\ r.h \in Int
    OBVIOUS
  <2>3. /\ r.x + vp \in Int /\ r.x <= r.x + vp /\ r.x + vp + v <= r.x + r.w
        /\ r.y + uq \in Int /\ r.y <= r.y + uq /\ r.y + uq + u <= r.y + r.h
    BY <1>1, <1>2, <2>2
  <2>4. QED
    BY <2>1, <2>3
<1>7. PICK k : k = QuarterRect(r, i)
  OBVIOUS
<1>8. k = [x |-> x, y |-> y, w |-> v, h |-> u]
  BY <1>4, <1>6, <1>7
<1>9. k.x = x /\ k.y = y /\ k.w = v /\ k.h = u /\ k \in [x : Int, y : Int, w : Int, h : Int]
  BY <1>8
<1>10. r.x \in Int /\ r.y \in Int /\ r.w \in Int /\ r.h \in Int
  OBVIOUS
<1>11. ContainsRect(r, k)
  <2>1. r.x <= x /\ x + v <= r.x + r.w /\ r.y <= y /\ y + u <= r.y + r.h /\ v >= 0 /\ u >= 0
    BY <1>1, <1>2, <1>6
  <2>2. MinLongitude(r) = r.x /\ MaxLongitude(r) = r.x + r.w /\ MinLatitude(r) = r.y /\ MaxLatitude(r) = r.y + r.h
    BY <1>10 DEF MinLongitude, MaxLongitude, MinLatitude, MaxLatitude
  <2>3. MinLongitude(k) = x /\ MaxLongitude(k) = x + v /\ MinLatitude(k) = y /\ MaxLatitude(k) = y + u
    BY <1>9, <2>1 DEF MinLongitude, MaxLongitude, MinLatitude, MaxLatitude
  <2>4. QED
    BY <1>10, <2>1, <2>2, <2>3 DEF ContainsRect
<1>12. QED
  BY <1>1, <1>2, <1>7, <1>9, <1>11

(* Two sequences put together.                                             *)
LEMMA Together ==
  ASSUME NEW S, NEW u \in Seq(S), NEW v \in Seq(S)
  PROVE  /\ u \o v \in Seq(S) /\ Len(u \o v) = Len(u) + Len(v)
         /\ \A k \in 1..Len(u) : (u \o v)[k] = u[k]
<1>1. Len(u) \in Nat /\ Len(v) \in Nat
  BY LenProperties
<1>2. u \o v \in Seq(S) /\ Len(u \o v) = Len(u) + Len(v)
  BY ConcatProperties
<1>3. ASSUME NEW k \in 1..Len(u) PROVE (u \o v)[k] = u[k]
  BY <1>1, ConcatProperties
<1>4. QED
  BY <1>2, <1>3

(* ... and what comes from the second.                                     *)
LEMMA TogetherSecond ==
  ASSUME NEW S, NEW u \in Seq(S), NEW v \in Seq(S), NEW k \in (Len(u) + 1)..(Len(u) + Len(v))
  PROVE  (u \o v)[k] = v[k - Len(u)]
<1>1. Len(u) \in Nat /\ Len(v) \in Nat
  BY LenProperties
<1>2. QED
  BY <1>1, ConcatProperties

(* Four elements are put after a sequence.                                 *)
LEMMA Grown ==
  ASSUME NEW T, NEW s \in Seq(T), NEW r \in Seq(T), Len(r) = 4
  PROVE  /\ s \o r \in Seq(T) /\ Len(s \o r) = Len(s) + 4
         /\ \A m \in 1..Len(s) : (s \o r)[m] = s[m]
         /\ \A i \in 1..4 : (s \o r)[Len(s) + i] = r[i]
<1>1. Len(s) \in Nat
  BY LenProperties
<1>2. s \o r \in Seq(T) /\ Len(s \o r) = Len(s) + Len(r)
  BY Together
<1>3. \A m \in 1..Len(s) : (s \o r)[m] = s[m]
  BY Together
<1>4. ASSUME NEW i \in 1..4 PROVE (s \o r)[Len(s) + i] = r[i]
  <2>1. PICK k : k = Len(s) + i
    OBVIOUS
  <2>2. k \in (Len(s) + 1)..(Len(s) + Len(r)) /\ k - Len(s) = i
    BY <1>1, <2>1
  <2>3. (s \o r)[k] = r[k - Len(s)]
    BY <2>2, TogetherSecond
  <2>4. QED
    BY <2>1, <2>2, <2>3
<1>5. QED
  BY <1>2, <1>3, <1>4

(* expand gives a leaf four children.                                      *)
LEMMA SplitNodes ==
  ASSUME NEW a \in Adders, IInv(a), NEW n \in Nodes,
         nodes' = [nodes EXCEPT ![n].children = [i \in 1..4 |-> Len(nodes) + i]]
                    \o [i \in 1..4 |-> NewNode(QuarterRect(nodes[n].bounds, i))]
  PROVE  /\ nodes' \in Seq(Node) /\ Len(nodes') = Len(nodes) + 4
         /\ \A m \in Nodes : /\ nodes'[m].bounds = nodes[m].bounds
                             /\ nodes'[m].leaf = nodes[m].leaf
                             /\ nodes'[m].contents = nodes[m].contents
                             /\ m # n => nodes'[m].children = nodes[m].children
         /\ nodes'[n].children = [i \in 1..4 |-> Len(nodes) + i]
         /\ \A i \in 1..4 : \E q : /\ nodes'[Len(nodes) + i] = NewNode(q)
                                   /\ q.w >= 0 /\ q.h >= 0 /\ ContainsRect(nodes[n].bounds, q)
<1>1. PICK kids : kids = [i \in 1..4 |-> Len(nodes) + i]
  OBVIOUS
<1>2. PICK b : b = nodes[n].bounds
  OBVIOUS
<1>3. PICK rest : rest = [i \in 1..4 |-> NewNode(QuarterRect(b, i))]
  OBVIOUS
<1>4. PICK new : new = [nodes[n] EXCEPT !.children = kids]
  OBVIOUS
<1>5. nodes' = [nodes EXCEPT ![n] = new] \o rest
  BY <1>1, <1>2, <1>3, <1>4
<1>6. nodes \in Seq(Node) /\ Len(nodes) \in Nat /\ nodes[n] \in Node
  BY Typed
<1>7. kids \in Seq(Nat)
  BY <1>1, <1>6
<1>8. b \in [x : Int, y : Int, w : Int, h : Int] /\ b.w >= 0 /\ b.h >= 0
  BY <1>2, <1>6 DEF Node, IInv, Tree
<1>9. \A i \in 1..4 : /\ QuarterRect(b, i) \in [x : Int, y : Int, w : Int, h : Int]
                      /\ QuarterRect(b, i).w >= 0 /\ QuarterRect(b, i).h >= 0
                      /\ ContainsRect(b, QuarterRect(b, i))
  BY <1>8, QuarterWithin
<1>10. \A r \in [x : Int, y : Int, w : Int, h : Int] : NewNode(r) \in Node
  BY DEF NewNode, Node
<1>11. rest \in Seq(Node) /\ Len(rest) = 4 /\ \A i \in 1..4 : rest[i] = NewNode(QuarterRect(b, i))
  BY <1>3, <1>9, <1>10
<1>12. /\ new \in Node /\ new.bounds = b /\ new.leaf = nodes[n].leaf
       /\ new.contents = nodes[n].contents /\ new.children = kids
  BY <1>2, <1>4, <1>6, <1>7 DEF Node
<1>13. /\ nodes' \in Seq(Node) /\ Len(nodes') = Len(nodes) + 4
       /\ nodes'[n] = new /\ \A m \in Nodes : m # n => nodes'[m] = nodes[m]
       /\ \A i \in 1..4 : nodes'[Len(nodes) + i] = rest[i]
  <2>1. PICK old : old = [nodes EXCEPT ![n] = new]
    OBVIOUS
  <2>2. /\ old \in Seq(Node) /\ Len(old) = Len(nodes)
        /\ \A m \in Nodes : old[m] = IF m = n THEN new ELSE nodes[m]
    BY <1>6, <1>12, <2>1, ExceptSeq DEF Nodes
  <2>3. nodes' = old \o rest
    BY <1>5, <2>1
  <2>4. old \in Seq(Node) /\ rest \in Seq(Node) /\ Len(rest) = 4
    BY <1>11, <2>2
  <2>5. old \o rest \in Seq(Node) /\ Len(old \o rest) = Len(old) + 4
    BY <2>4, Grown
  <2>6. \A m \in 1..Len(old) : (old \o rest)[m] = old[m]
    BY <2>4, Grown
  <2>7. \A i \in 1..4 : (old \o rest)[Len(old) + i] = rest[i]
    BY <2>4, Grown
  <2>8. nodes' \in Seq(Node) /\ Len(nodes') = Len(nodes) + 4
    BY <2>2, <2>3, <2>5
  <2>9. \A m \in Nodes : nodes'[m] = old[m]
    BY <2>2, <2>3, <2>6 DEF Nodes
  <2>10. \A i \in 1..4 : nodes'[Len(nodes) + i] = rest[i]
    BY <2>2, <2>3, <2>7
  <2>11. QED
    BY <2>2, <2>8, <2>9, <2>10
<1>14. \A m \in Nodes : /\ nodes'[m].bounds = nodes[m].bounds
                        /\ nodes'[m].leaf = nodes[m].leaf
                        /\ nodes'[m].contents = nodes[m].contents
                        /\ m # n => nodes'[m].children = nodes[m].children
  BY <1>2, <1>12, <1>13
<1>15. nodes'[n].children = [i \in 1..4 |-> Len(nodes) + i]
  BY <1>1, <1>12, <1>13
<1>16. ASSUME NEW i \in 1..4
       PROVE  \E q : /\ nodes'[Len(nodes) + i] = NewNode(q)
                     /\ q.w >= 0 /\ q.h >= 0 /\ ContainsRect(nodes[n].bounds, q)
  <2>1. PICK q : q = QuarterRect(b, i)
    OBVIOUS
  <2>2. nodes'[Len(nodes) + i] = NewNode(q) /\ q.w >= 0 /\ q.h >= 0 /\ ContainsRect(b, q)
    BY <1>9, <1>11, <1>13, <2>1
  <2>3. QED
    BY <1>2, <2>2
<1>17. QED
  BY <1>13, <1>14, <1>15, <1>16

(* expand: a full leaf gets its children, and a copy of what it holds is   *)
(* taken.                                                                  *)
LEMMA SplitInv ==
  ASSUME NEW a \in Adders, IInv(a), Split(a)
  PROVE  IInv(a)'
<1>1. /\ Busy(a) /\ Top(a).at = "split" /\ UNCHANGED <<contents, search, before>>
      /\ nodes' = [nodes EXCEPT ![Top(a).node].children = [i \in 1..4 |-> Len(nodes) + i]]
                    \o [i \in 1..4 |-> NewNode(QuarterRect(nodes[Top(a).node].bounds, i))]
      /\ frames' = [frames EXCEPT ![a] = <<Call("empty", Top(a).node, nodes[Top(a).node].contents)>> \o Tail(frames[a])]
      /\ moved' = moved \cup nodes[Top(a).node].contents
  BY DEF Split, At, Continue
<1>2. /\ nodes \in Seq(Node) /\ Len(nodes) \in Nat
      /\ \A m \in Nodes : nodes[m] \in Node /\ nodes[m].contents \subseteq contents /\ ChildrenOf(m) \subseteq Nodes
      /\ contents \subseteq Objects
  BY Typed
<1>3. TypeOK /\ Tree /\ Placed /\ Limited /\ Shape(frames[a]) /\ NoneLost(a) /\ Search(a) /\ ExpandLimit \in Nat
  BY QuadTreeAssumption DEF IInv
<1>4. Splitting(frames[a])
  BY <1>1, <1>3, Where
<1>5. PICK n \in Nodes, o \in contents :
        /\ frames[a] = <<Call("split", n, {}), Call("insert", n, {o})>>
        /\ FitsIn(n, o) /\ Outside({o}) /\ Bare({})
        /\ nodes[n].leaf
  BY <1>4 DEF Splitting
<1>6. Top(a).node = n
  <2>1. Top(a) = Call("split", n, {})
    BY <1>5, Replaced DEF Top
  <2>2. QED
    BY <2>1, CallTyped
<1>7. PICK L \in Nat : L = Len(nodes)
  BY <1>2
<1>8. Nodes = 1..L /\ n \in 1..L /\ 1 \in 1..L
  BY <1>3, <1>7 DEF Nodes, Tree
<1>9. nodes' = [nodes EXCEPT ![n].children = [i \in 1..4 |-> Len(nodes) + i]]
                 \o [i \in 1..4 |-> NewNode(QuarterRect(nodes[n].bounds, i))]
  BY <1>1, <1>6
<1>10. /\ nodes' \in Seq(Node) /\ Len(nodes') = L + 4
       /\ \A m \in Nodes : /\ nodes'[m].bounds = nodes[m].bounds
                           /\ nodes'[m].leaf = nodes[m].leaf
                           /\ nodes'[m].contents = nodes[m].contents
                           /\ m # n => nodes'[m].children = nodes[m].children
       /\ nodes'[n].children = [i \in 1..4 |-> L + i]
       /\ \A i \in 1..4 : \E q : /\ nodes'[L + i] = NewNode(q)
                                 /\ q.w >= 0 /\ q.h >= 0 /\ ContainsRect(nodes[n].bounds, q)
  BY <1>7, <1>9, SplitNodes
<1>11. Nodes' = 1..(L + 4) /\ \A m \in 1..(L + 4) : m \in 1..L \/ \E i \in 1..4 : m = L + i
  <2>1. ASSUME NEW m \in 1..(L + 4), m \notin 1..L PROVE \E i \in 1..4 : m = L + i
    <3>1. m - L \in 1..4 /\ m = L + (m - L)
      BY <2>1
    <3>2. QED
      BY <3>1
  <2>2. QED
    BY <1>10, <2>1 DEF Nodes
<1>12. \A b : NewNode(b).bounds = b /\ NewNode(b).leaf /\ NewNode(b).contents = {} /\ NewNode(b).children = <<>>
  BY DEF NewNode
\* The new nodes.
<1>13. ASSUME NEW i \in 1..4
       PROVE  /\ nodes'[L + i] = NewNode(nodes'[L + i].bounds)
              /\ nodes'[L + i].leaf /\ nodes'[L + i].contents = {} /\ nodes'[L + i].children = <<>>
              /\ nodes'[L + i].bounds.w >= 0 /\ nodes'[L + i].bounds.h >= 0
              /\ ContainsRect(nodes[n].bounds, nodes'[L + i].bounds)
  <2>1. PICK q : nodes'[L + i] = NewNode(q) /\ q.w >= 0 /\ q.h >= 0 /\ ContainsRect(nodes[n].bounds, q)
    BY <1>10
  <2>2. nodes'[L + i].bounds = q
    BY <1>12, <2>1
  <2>3. QED
    BY <1>12, <2>1, <2>2
<1>14. /\ \A m \in 1..L : m # n => ChildrenOf(m)' = ChildrenOf(m)
       /\ ChildrenOf(n)' = {L + i : i \in 1..4}
       /\ \A i \in 1..4 : ChildrenOf(L + i)' = {}
  <2>1. ASSUME NEW m \in 1..L, m # n PROVE ChildrenOf(m)' = ChildrenOf(m)
    <3>1. nodes'[m].children = nodes[m].children
      BY <1>8, <1>10, <2>1
    <3>2. QED
      BY <3>1 DEF ChildrenOf
  <2>2. ChildrenOf(n)' = {L + i : i \in 1..4}
    <3>1. PICK kids : kids = [i \in 1..4 |-> L + i]
      OBVIOUS
    <3>2. Len(kids) = 4 /\ \A i \in 1..4 : kids[i] = L + i
      BY <3>1
    <3>3. nodes'[n].children = kids
      BY <1>10, <3>1
    <3>4. ChildrenOf(n)' = {kids[i] : i \in 1..4}
      BY <3>2, <3>3 DEF ChildrenOf
    <3>5. QED
      BY <3>2, <3>4
  <2>3. ASSUME NEW i \in 1..4 PROVE ChildrenOf(L + i)' = {}
    BY <1>13 DEF ChildrenOf
  <2>4. QED
    BY <2>1, <2>2, <2>3
<1>15. \A m \in 1..L : \A x : FitsIn(m, x)' = FitsIn(m, x)
  BY <1>8, <1>10 DEF FitsIn
<1>16. Tree'
  <2>1. 1 \in Nodes' /\ nodes'[1].bounds = RectFromTile(World)
    BY <1>3, <1>8, <1>10, <1>11 DEF Tree
  <2>2. ASSUME NEW m \in Nodes' PROVE nodes'[m].bounds.w >= 0 /\ nodes'[m].bounds.h >= 0
    <3>1. CASE m \in 1..L
      BY <1>3, <1>8, <1>10, <3>1 DEF Tree
    <3>2. CASE m \notin 1..L
      <4>1. PICK i \in 1..4 : m = L + i
        BY <1>11, <3>2
      <4>2. QED
        BY <1>13, <4>1
    <3>3. QED
      BY <3>1, <3>2
  <2>3. ASSUME NEW m \in Nodes', m # 1 PROVE \E k \in 1..(m - 1) : m \in ChildrenOf(k)'
    <3>1. CASE m \in 1..L
      <4>1. PICK k \in 1..(m - 1) : m \in ChildrenOf(k)
        BY <1>3, <1>8, <2>3, <3>1 DEF Tree
      <4>2. k # n
        <5>1. ChildrenOf(n) = {}
          BY <1>5 DEF Bare, ChildrenOf
        <5>2. QED
          BY <4>1, <5>1
      <4>3. k \in 1..L
        BY <3>1
      <4>4. QED
        BY <1>14, <4>1, <4>2, <4>3
    <3>2. CASE m \notin 1..L
      <4>1. PICK i \in 1..4 : m = L + i
        BY <1>11, <3>2
      <4>2. n \in 1..(m - 1) /\ m \in ChildrenOf(n)'
        BY <1>8, <1>14, <4>1
      <4>3. QED
        BY <4>2
    <3>3. QED
      BY <3>1, <3>2
  <2>4. ASSUME NEW m \in Nodes', NEW k \in ChildrenOf(m)'
        PROVE  k \in (m + 1)..Len(nodes') /\ ContainsRect(nodes'[m].bounds, nodes'[k].bounds)
    <3>1. CASE m \in 1..L /\ m # n
      <4>1. k \in ChildrenOf(m) /\ m \in Nodes /\ k \in Nodes
        BY <1>2, <1>8, <1>14, <2>4, <3>1
      <4>2. k \in (m + 1)..L /\ ContainsRect(nodes[m].bounds, nodes[k].bounds)
        BY <1>3, <1>7, <4>1 DEF Tree
      <4>3. nodes'[m].bounds = nodes[m].bounds /\ nodes'[k].bounds = nodes[k].bounds
        BY <1>10, <4>1
      <4>4. QED
        BY <1>10, <3>1, <4>2, <4>3
    <3>2. CASE m = n
      <4>1. PICK i \in 1..4 : k = L + i
        BY <1>14, <2>4, <3>2
      <4>2. k \in (m + 1)..Len(nodes')
        BY <1>8, <1>10, <3>2, <4>1
      <4>3. ContainsRect(nodes'[m].bounds, nodes'[k].bounds)
        BY <1>10, <1>13, <3>2, <4>1
      <4>4. QED
        BY <4>2, <4>3
    <3>3. CASE m \notin 1..L
      <4>1. PICK i \in 1..4 : m = L + i
        BY <1>11, <3>3
      <4>2. QED
        BY <1>14, <2>4, <4>1
    <3>4. QED
      BY <3>1, <3>2, <3>3
  <2>5. QED
    BY <2>1, <2>2, <2>3, <2>4 DEF Tree
\* What holds an object is an old node.
<1>17. ASSUME NEW m \in Nodes', NEW x \in nodes'[m].contents PROVE m \in Nodes /\ x \in nodes[m].contents
  <2>1. CASE m \in 1..L
    BY <1>8, <1>10, <1>17, <2>1
  <2>2. CASE m \notin 1..L
    <3>1. PICK i \in 1..4 : m = L + i
      BY <1>11, <2>2
    <3>2. QED
      BY <1>13, <1>17, <3>1
  <2>3. QED
    BY <2>1, <2>2
<1>18. \A m \in Nodes : m \in Nodes' /\ nodes'[m].contents = nodes[m].contents
  BY <1>8, <1>10, <1>11
<1>19. Placed'
  <2>1. ASSUME NEW m \in Nodes', NEW x \in nodes'[m].contents PROVE x \in contents' /\ FitsIn(m, x)'
    <3>1. m \in Nodes /\ x \in nodes[m].contents
      BY <1>17
    <3>2. x \in contents /\ FitsIn(m, x)
      BY <1>3, <3>1 DEF Placed
    <3>3. FitsIn(m, x)' = FitsIn(m, x)
      BY <1>8, <1>15, <3>1
    <3>4. QED
      BY <1>1, <3>2, <3>3
  <2>2. ASSUME NEW m \in Nodes', NEW k \in Nodes', NEW x \in nodes'[m].contents, x \in nodes'[k].contents
        PROVE  m = k
    BY <1>3, <1>17, <2>2 DEF Placed
  <2>3. QED
    BY <2>1, <2>2 DEF Placed
<1>20. Limited'
  <2> SUFFICES ASSUME NEW m \in Nodes', nodes'[m].leaf
               PROVE  IsFiniteSet(nodes'[m].contents) /\ Cardinality(nodes'[m].contents) <= ExpandLimit
    BY DEF Limited
  <2>1. CASE m \in 1..L
    BY <1>3, <1>8, <1>10, <2>1 DEF Limited
  <2>2. CASE m \notin 1..L
    <3>1. PICK i \in 1..4 : m = L + i
      BY <1>11, <2>2
    <3>2. nodes'[m].contents = {}
      BY <1>13, <3>1
    <3>3. QED
      BY <1>3, <3>2, FS_EmptySet
  <2>3. QED
    BY <2>1, <2>2
\* The adder.
<1>21. PICK X : X = nodes[n].contents
  OBVIOUS
<1> DEFINE calls == <<Call("empty", n, X), Call("insert", n, {o})>>
<1>22. frames' = [frames EXCEPT ![a] = calls]
  <2>1. <<Call("empty", n, X)>> \o Tail(<<Call("split", n, {}), Call("insert", n, {o})>>) = calls
    BY Replaced
  <2>2. QED
    BY <1>1, <1>5, <1>6, <1>21, <2>1
<1>23. /\ X \in SUBSET contents /\ {o} \in SUBSET contents
       /\ Call("empty", n, X).objects = X /\ Call("insert", n, {o}).objects = {o} /\ Call("split", n, {}).objects = {}
  BY <1>2, <1>21, CallTyped
<1>24. InHand(calls) = X \cup {o} /\ InHand(frames[a]) = {o}
  <2> DEFINE p == Call("empty", n, X)
             q == Call("insert", n, {o})
             r == Call("split", n, {})
  <2>1. frames[a] = <<r, q>> /\ calls = <<p, q>>
    BY <1>5
  <2>2. p.objects = X /\ q.objects = {o} /\ r.objects = {}
    BY <1>23
  <2> HIDE DEF p, q, r, calls
  <2>3. InHand(<<p, q>>) = p.objects \cup q.objects /\ InHand(<<r, q>>) = r.objects \cup q.objects
    BY HandOf
  <2>4. QED
    BY <2>1, <2>2, <2>3
<1>25. calls \in Seq(CallType')
  <2>1. n \in Nodes' /\ X \in SUBSET Objects /\ {o} \in SUBSET Objects
    BY <1>2, <1>18, <1>23
  <2>2. Call("empty", n, X) \in CallType' /\ Call("insert", n, {o}) \in CallType'
    BY <2>1 DEF Call, CallType
  <2>3. QED
    BY <2>2, StackTyped
<1>26. Shape(calls)'
  <2>1. Outside({o})'
    BY <1>5, <1>17 DEF Outside
  <2>2. Bare({n})'
    <3> SUFFICES ASSUME NEW m \in Nodes', m # n, nodes'[m].leaf PROVE nodes'[m].children = <<>>
      BY DEF Bare
    <3>1. CASE m \in 1..L
      BY <1>5, <1>8, <1>10, <3>1 DEF Bare
    <3>2. CASE m \notin 1..L
      <4>1. PICK i \in 1..4 : m = L + i
        BY <1>11, <3>2
      <4>2. QED
        BY <1>13, <4>1
    <3>3. QED
      BY <3>1, <3>2
  <2>3. ASSUME NEW m \in ChildrenOf(n)' PROVE nodes'[m] = NewNode(nodes'[m].bounds)
    <3>1. PICK i \in 1..4 : m = L + i
      BY <1>14
    <3>2. QED
      BY <1>13, <3>1
  <2>4. /\ FitsIn(n, o)' /\ nodes'[n].leaf /\ nodes'[n].contents = X
        /\ n \in Nodes' /\ o \in contents'
    BY <1>1, <1>5, <1>8, <1>10, <1>15, <1>18, <1>21
  <2>5. calls = <<Call("empty", n, nodes'[n].contents), Call("insert", n, {o})>>
    BY <2>4
  <2> HIDE DEF calls
  <2>6. Emptying(calls)'
    BY <2>1, <2>2, <2>3, <2>4, <2>5 DEF Emptying
  <2>7. QED
    BY <2>6 DEF Shape
<1> HIDE DEF calls
<1>27. frames'[a] = calls /\ frames' \in [Adders -> Seq(CallType')]
  <2>1. frames \in [Adders -> Seq(CallType)]
    BY <1>3 DEF TypeOK, CallType, Nodes
  <2>2. Seq(CallType) \subseteq Seq(CallType')
    <3>1. Nodes \subseteq Nodes'
      BY <1>18
    <3>2. CallType \subseteq CallType'
      BY <3>1 DEF CallType
    <3>3. QED
      BY <3>2
  <2>3. frames \in [Adders -> Seq(CallType')]
    BY <2>1, <2>2
  <2>4. QED
    BY <1>22, <1>25, <2>3
<1>28. search.toVisit \in Seq(Nodes')
  <2>1. Nodes \subseteq Nodes'
    BY <1>18
  <2>2. search.toVisit \in Seq(Nodes)
    BY <1>3 DEF TypeOK, Nodes
  <2>3. QED
    BY <2>1, <2>2
<1>29. TypeOK'
  <2>1. \A m \in 1..Len(nodes') : \A i \in 1..Len(nodes'[m].children) : nodes'[m].children[i] \in (m + 1)..Len(nodes')
    BY <1>16 DEF Tree, ChildrenOf, Nodes
  <2>2. frames' \in [Adders -> Seq([at : {"add", "insert", "place", "split", "empty", "move"},
                                    node : 1..Len(nodes'), objects : SUBSET Objects])]
    BY <1>27 DEF CallType, Nodes
  <2>3. search'.toVisit \in Seq(1..Len(nodes')) /\ search'.found \subseteq Objects
    BY <1>1, <1>3, <1>28 DEF TypeOK, Nodes
  <2>4. contents' \subseteq Objects /\ before' \subseteq contents' /\ moved' \subseteq contents'
    BY <1>1, <1>3, <1>6, <1>21, <1>23 DEF TypeOK
  <2>5. QED
    BY <1>10, <2>1, <2>2, <2>3, <2>4 DEF TypeOK
<1>30. NoneLost(a)'
  <2> SUFFICES ASSUME NEW x \in contents', x \notin InHand(frames'[a])
               PROVE  \E m \in Nodes' : x \in nodes'[m].contents
    BY DEF NoneLost
  <2>1. x \in contents /\ x \notin InHand(frames[a])
    BY <1>1, <1>24, <1>27
  <2>2. PICK m \in Nodes : x \in nodes[m].contents
    BY <1>3, <2>1 DEF NoneLost
  <2>3. QED
    BY <1>18, <2>2
\* The search.
<1>31. moved' = moved \cup X
  BY <1>1, <1>6, <1>21
<1>32. Search(a)'
  <2>1. InHand(frames'[a]) \cap before' \subseteq moved'
    BY <1>1, <1>3, <1>24, <1>27, <1>31 DEF Search
  <2>2. ASSUME NEW x \in before \ (moved \cup search.found), WantedIn(search.area, x),
               NEW S \in SUBSET (Nodes'), Closed(S)', Ahead(S)'
        PROVE  \E m \in S : x \in nodes'[m].contents
    <3>1. PICK T : T = S \cap Nodes
      OBVIOUS
    <3>2. Closed(T)
      <4> SUFFICES ASSUME NEW k \in T, ~nodes[k].leaf PROVE ChildrenOf(k) \subseteq T
        BY DEF Closed
      <4>1. k \in Nodes /\ k \in S /\ k # n /\ ~nodes'[k].leaf
        BY <1>5, <1>10, <3>1
      <4>2. ChildrenOf(k)' \subseteq S /\ ChildrenOf(k)' = ChildrenOf(k) /\ ChildrenOf(k) \subseteq Nodes
        BY <1>2, <1>8, <1>14, <2>2, <4>1 DEF Closed
      <4>3. QED
        BY <3>1, <4>2
    <3>3. Ahead(T)
      <4>1. search.toVisit \in Seq(Nodes) /\ Len(search.toVisit) \in Nat
        BY <1>3, LenProperties DEF TypeOK, Nodes
      <4>2. \A i \in 1..Len(search.toVisit) : search.toVisit[i] \in Nodes
        BY <4>1, ElementOfSeq
      <4>3. \A i \in 1..Len(search.toVisit) : (i = 1 /\ search.looked) \/ search.toVisit[i] \in T
        BY <1>1, <2>2, <3>1, <4>2 DEF Ahead
      <4>4. ASSUME search.looked, ~nodes[Visited].leaf PROVE ChildrenOf(Visited) \subseteq T
        <5>1. Visited \in Nodes /\ Visited' = Visited
          <6>1. search.toVisit # <<>>
            BY <1>3, <4>4 DEF Search, Searching
          <6>2. QED
            BY <1>1, <4>1, <6>1, HeadTailProperties DEF Visited
        <5>2. PICK k \in Nodes : k = Visited
          BY <5>1
        <5>3. k # n /\ ~nodes'[k].leaf
          BY <1>5, <1>10, <4>4, <5>2
        <5>4. ~nodes'[k].leaf => ChildrenOf(k)' \subseteq S
          BY <1>1, <2>2, <4>4, <5>1, <5>2 DEF Ahead
        <5>5. ChildrenOf(k)' = ChildrenOf(k) /\ ChildrenOf(k) \subseteq Nodes
          BY <1>2, <1>8, <1>14, <5>3
        <5>6. QED
          BY <3>1, <5>2, <5>3, <5>4, <5>5
      <4>5. QED
        BY <4>3, <4>4 DEF Ahead
    <3>4. T \in SUBSET Nodes
      BY <3>1
    <3>5. PICK m \in T : x \in nodes[m].contents
      BY <1>3, <2>2, <3>2, <3>3, <3>4 DEF Search
    <3>6. m \in S /\ x \in nodes'[m].contents
      BY <1>18, <3>1, <3>5
    <3>7. QED
      BY <3>6
  <2>3. /\ search.looked => Searching
        /\ search \in [area : [x : Int, y : Int, w : Int, h : Int], toVisit : Seq(Nodes'),
                       found : SUBSET Objects, looked : BOOLEAN]
    BY <1>3, <1>28 DEF Search
  <2>4. \A x \in before' \ (moved' \cup search'.found) : WantedIn(search'.area, x) =>
          \A S \in SUBSET (Nodes') : Closed(S)' /\ Ahead(S)' => \E m \in S : x \in nodes'[m].contents
    BY <1>1, <1>31, <2>2
  <2>5. QED
    BY <1>1, <2>1, <2>3, <2>4 DEF Search, Searching
<1>33. Shape(frames[a])'
  BY <1>26, <1>27
<1>34. QED
  BY <1>16, <1>19, <1>20, <1>29, <1>30, <1>32, <1>33 DEF IInv

-----------------------------------------------------------------------------
(* The search.                                                             *)

Rect == [x : Int, y : Int, w : Int, h : Int]

(* What is within a rectangle that is outside of another is so itself.     *)
LEMMA Outer ==
  ASSUME NEW p \in Rect, NEW q \in Rect, NEW r \in Rect, ContainsRect(p, q), IntersectsRect(q, r)
  PROVE  IntersectsRect(p, r)
<1>1. \A s \in Rect : /\ MinLongitude(s) \in Int /\ MaxLongitude(s) \in Int
                      /\ MinLatitude(s) \in Int /\ MaxLatitude(s) \in Int
  BY DEF Rect, MinLongitude, MaxLongitude, MinLatitude, MaxLatitude
<1>2. QED
  BY <1>1 DEF ContainsRect, IntersectsRect

(* The elements of a sequence but the first are those of its tail.         *)
LEMMA TailElements ==
  ASSUME NEW T, NEW s \in Seq(T), s # <<>>
  PROVE  /\ Tail(s) \in Seq(T) /\ Head(s) \in T /\ Head(s) = s[1] /\ Len(s) \in Nat /\ Len(s) >= 1
         /\ \A i \in 2..Len(s) : \E j \in 1..Len(Tail(s)) : Tail(s)[j] = s[i]
<1>1. /\ Tail(s) \in Seq(T) /\ Head(s) \in T /\ Head(s) = s[1] /\ Len(s) \in Nat /\ Len(s) >= 1
      /\ Len(Tail(s)) = Len(s) - 1 /\ \A j \in 1..Len(Tail(s)) : Tail(s)[j] = s[j + 1]
  <2>1. Tail(s) \in Seq(T) /\ Head(s) \in T /\ Len(Tail(s)) = Len(s) - 1 /\ \A j \in 1..Len(Tail(s)) : Tail(s)[j] = s[j + 1]
    BY HeadTailProperties
  <2>2. Len(s) \in Nat /\ Len(s) # 0
    BY LenProperties, EmptySeq
  <2>3. Head(s) = s[1]
    BY <2>2
  <2>4. QED
    BY <2>1, <2>2, <2>3
<1>2. ASSUME NEW i \in 2..Len(s) PROVE \E j \in 1..Len(Tail(s)) : Tail(s)[j] = s[i]
  <2>1. i - 1 \in 1..Len(Tail(s)) /\ (i - 1) + 1 = i
    BY <1>1
  <2>2. QED
    BY <1>1, <2>1
<1>3. QED
  BY <1>1, <1>2

(* The elements of two sequences are those of both together.               *)
LEMMA ConcatElements ==
  ASSUME NEW T, NEW u \in Seq(T), NEW v \in Seq(T)
  PROVE  /\ \A i \in 1..Len(u) : \E j \in 1..Len(u \o v) : (u \o v)[j] = u[i]
         /\ \A i \in 1..Len(v) : \E j \in 1..Len(u \o v) : (u \o v)[j] = v[i]
<1>1. Len(u) \in Nat /\ Len(v) \in Nat /\ Len(u \o v) = Len(u) + Len(v)
  BY LenProperties, ConcatProperties
<1>2. ASSUME NEW i \in 1..Len(u) PROVE \E j \in 1..Len(u \o v) : (u \o v)[j] = u[i]
  <2>1. i \in 1..Len(u \o v)
    BY <1>1
  <2>2. (u \o v)[i] = u[i]
    BY Together
  <2>3. QED
    BY <2>1, <2>2
<1>3. ASSUME NEW i \in 1..Len(v) PROVE \E j \in 1..Len(u \o v) : (u \o v)[j] = v[i]
  <2>1. PICK k : k = Len(u) + i
    OBVIOUS
  <2>2. k \in (Len(u) + 1)..(Len(u) + Len(v)) /\ k \in 1..Len(u \o v) /\ k - Len(u) = i
    BY <1>1, <2>1
  <2>3. (u \o v)[k] = v[k - Len(u)]
    BY <2>2, TogetherSecond
  <2>4. QED
    BY <2>2, <2>3
<1>4. QED
  BY <1>2, <1>3

(* A step of the search.                                                   *)
LEMMA SearchStep ==
  ASSUME NEW a \in Adders, IInv(a), UNCHANGED <<contents, nodes, frames, before, moved>>,
         search'.area = search.area,
         search' \in [area : Rect, toVisit : Seq(Nodes), found : SUBSET Objects, looked : BOOLEAN],
         search'.looked => search'.toVisit # <<>>,
         \A o \in before \ (moved \cup search'.found) : WantedIn(search.area, o) =>
           \A S \in SUBSET Nodes : Closed(S) /\ Ahead(S)' => \E n \in S : o \in nodes[n].contents
  PROVE  IInv(a)'
<1>1. TypeOK /\ Tree /\ Placed /\ Limited /\ Shape(frames[a]) /\ NoneLost(a) /\ Search(a)
  BY DEF IInv
<1>2. TypeOK'
  <2>1. search'.toVisit \in Seq(1..Len(nodes')) /\ search'.found \subseteq Objects
    BY DEF Nodes
  <2>2. QED
    BY <1>1, <2>1 DEF TypeOK
<1>3. /\ Nodes' = Nodes /\ \A n : ChildrenOf(n)' = ChildrenOf(n)
      /\ \A n, o : FitsIn(n, o)' = FitsIn(n, o)
  BY DEF Nodes, ChildrenOf, FitsIn
<1>4. Tree' /\ Placed' /\ Limited' /\ NoneLost(a)'
  BY <1>1, <1>3 DEF Tree, Placed, Limited, NoneLost
<1>5. Shape(frames[a])'
  <2>1. PICK calls : calls = frames[a]
    OBVIOUS
  <2>2. Shape(calls)'
    BY <1>1, <2>1, ShapeStays
  <2>3. frames'[a] = calls
    BY <2>1
  <2>4. QED
    BY <2>2, <2>3
<1>6. \A S : Closed(S)' = Closed(S)
  BY <1>3 DEF Closed
<1>7. Search(a)'
  <2>1. InHand(frames'[a]) \cap before' \subseteq moved'
    BY <1>1 DEF Search
  <2>2. QED
    BY <1>1, <1>3, <1>6, <2>1 DEF Search, Searching, Rect
<1>8. QED
  BY <1>2, <1>4, <1>5, <1>7 DEF IInv

(* A node is looked at, or left alone: a node outside of the area holds    *)
(* nothing that is in it, and nor does any that it leads to.               *)
LEMMA SearchContentsInv ==
  ASSUME NEW a \in Adders, IInv(a), SearchContents
  PROVE  IInv(a)'
<1>1. TypeOK /\ Tree /\ Placed /\ Search(a)
  BY DEF IInv
<1>2. /\ Searching /\ ~search.looked /\ UNCHANGED <<contents, nodes, frames, before, moved>>
      /\ search' = IF ~IntersectsRect(nodes[Visited].bounds, search.area)
                   THEN [search EXCEPT !.toVisit = Tail(@)]
                   ELSE [search EXCEPT !.looked = TRUE,
                           !.found = @ \cup {o \in nodes[Visited].contents : IntersectsRect(BoundsOf(o), search.area)}]
  BY DEF SearchContents
<1>3. search \in [area : Rect, toVisit : Seq(Nodes), found : SUBSET Objects, looked : BOOLEAN]
  BY <1>1 DEF Search, Rect
<1>4. /\ search.area \in Rect /\ search.toVisit \in Seq(Nodes) /\ search.found \in SUBSET Objects
      /\ search.toVisit # <<>>
  BY <1>2, <1>3 DEF Searching
<1>5. /\ Tail(search.toVisit) \in Seq(Nodes) /\ Visited \in Nodes /\ Visited = search.toVisit[1]
      /\ Len(search.toVisit) \in Nat
      /\ \A i \in 2..Len(search.toVisit) : \E j \in 1..Len(Tail(search.toVisit)) :
           Tail(search.toVisit)[j] = search.toVisit[i]
  BY <1>4, TailElements DEF Visited
<1>6. \A n \in Nodes : nodes[n] \in Node /\ nodes[n].bounds \in Rect /\ nodes[n].contents \subseteq contents /\ ChildrenOf(n) \subseteq Nodes
  BY Typed DEF Node, Rect
<1>7. contents \subseteq Objects /\ \A o \in Objects : BoundsOf(o) \in Rect
  BY Typed, QuadTreeAssumption DEF Rect
<1>8. CASE ~IntersectsRect(nodes[Visited].bounds, search.area)
  <2>1. search' = [search EXCEPT !.toVisit = Tail(search.toVisit)]
    BY <1>2, <1>8
  <2>2. /\ search' \in [area : Rect, toVisit : Seq(Nodes), found : SUBSET Objects, looked : BOOLEAN]
        /\ search'.toVisit = Tail(search.toVisit) /\ search'.looked = FALSE
        /\ search'.area = search.area /\ search'.found = search.found
    BY <1>2, <1>3, <1>5, <2>1
  <2>3. PICK R : R = {m \in Nodes : ~IntersectsRect(nodes[m].bounds, search.area)}
    OBVIOUS
  <2>4. ASSUME NEW o \in before \ (moved \cup search.found), WantedIn(search.area, o),
               NEW S \in SUBSET Nodes, Closed(S), Ahead(S)'
        PROVE  \E n \in S : o \in nodes[n].contents
    <3>1. Closed(S \cup R)
      <4> SUFFICES ASSUME NEW n \in R, ~nodes[n].leaf PROVE ChildrenOf(n) \subseteq R
        BY <2>4 DEF Closed
      <4> SUFFICES ASSUME NEW m \in ChildrenOf(n) PROVE m \in R
        OBVIOUS
      <4>1. n \in Nodes /\ m \in Nodes /\ ~IntersectsRect(nodes[n].bounds, search.area)
        BY <1>6, <2>3
      <4>2. ContainsRect(nodes[n].bounds, nodes[m].bounds)
        BY <1>1, <4>1 DEF Tree
      <4>3. ~IntersectsRect(nodes[m].bounds, search.area)
        BY <1>4, <1>6, <4>1, <4>2, Outer
      <4>4. QED
        BY <2>3, <4>1, <4>3
    <3>2. Ahead(S \cup R)
      <4>1. ASSUME NEW i \in 1..Len(search.toVisit) PROVE search.toVisit[i] \in S \cup R
        <5>1. CASE i = 1
          BY <1>5, <1>8, <2>3, <5>1
        <5>2. CASE i # 1
          <6>1. i \in 2..Len(search.toVisit)
            BY <1>5, <5>2
          <6>2. PICK j \in 1..Len(Tail(search.toVisit)) : Tail(search.toVisit)[j] = search.toVisit[i]
            BY <1>5, <6>1
          <6>3. search'.toVisit[j] \in S
            BY <2>2, <2>4 DEF Ahead
          <6>4. QED
            BY <2>2, <6>2, <6>3
        <5>3. QED
          BY <5>1, <5>2
      <4>2. QED
        BY <1>2, <4>1 DEF Ahead
    <3>3. S \cup R \in SUBSET Nodes
      BY <2>3
    <3>4. PICK n \in S \cup R : o \in nodes[n].contents
      BY <1>1, <2>4, <3>1, <3>2, <3>3 DEF Search
    <3>5. n \notin R
      <4> SUFFICES ASSUME n \in R PROVE FALSE
        OBVIOUS
      <4>1. n \in Nodes /\ ~IntersectsRect(nodes[n].bounds, search.area)
        BY <2>3
      <4>2. o \in contents /\ FitsIn(n, o)
        BY <1>1, <3>4, <4>1 DEF Placed
      <4>3. CASE n = 1
        BY <1>1, <2>4, <4>1, <4>3 DEF Tree, WantedIn
      <4>4. CASE n # 1
        <5>1. ContainsRect(nodes[n].bounds, BoundsOf(o))
          BY <4>2, <4>4 DEF FitsIn
        <5>2. BoundsOf(o) \in Rect
          BY <1>7, <4>2
        <5>3. QED
          BY <1>4, <1>6, <2>4, <4>1, <5>1, <5>2, Outer DEF WantedIn
      <4>5. QED
        BY <4>3, <4>4
    <3>6. QED
      BY <3>4, <3>5
  <2>5. QED
    BY <1>2, <1>3, <2>2, <2>4, SearchStep
<1>9. CASE IntersectsRect(nodes[Visited].bounds, search.area)
  <2>1. PICK found : found = search.found \cup {o \in nodes[Visited].contents : IntersectsRect(BoundsOf(o), search.area)}
    OBVIOUS
  <2>2. search' = [search EXCEPT !.looked = TRUE, !.found = found]
    BY <1>2, <1>9, <2>1
  <2>3. found \in SUBSET Objects
    BY <1>4, <1>5, <1>6, <1>7, <2>1
  <2>4. /\ search' \in [area : Rect, toVisit : Seq(Nodes), found : SUBSET Objects, looked : BOOLEAN]
        /\ search'.toVisit = search.toVisit /\ search'.looked = TRUE
        /\ search'.area = search.area /\ search'.found = found
    BY <1>3, <2>2, <2>3
  <2>5. ASSUME NEW o \in before \ (moved \cup found), WantedIn(search.area, o),
               NEW S \in SUBSET Nodes, Closed(S), Ahead(S)'
        PROVE  \E n \in S : o \in nodes[n].contents
    <3>1. PICK v : v = Visited
      OBVIOUS
    <3>2. v \in Nodes /\ Visited' = v
      BY <1>5, <2>4, <3>1 DEF Visited
    <3>3. ~nodes[v].leaf => ChildrenOf(v) \subseteq S
      <4>1. ~nodes'[v].leaf => ChildrenOf(v)' \subseteq S
        BY <2>4, <2>5, <3>2 DEF Ahead
      <4>2. ChildrenOf(v)' = ChildrenOf(v)
        BY <1>2 DEF ChildrenOf
      <4>3. QED
        BY <1>2, <4>1, <4>2
    <3>4. Closed(S \cup {v})
      BY <2>5, <3>3 DEF Closed
    <3>5. Ahead(S \cup {v})
      <4>1. ASSUME NEW i \in 1..Len(search.toVisit) PROVE search.toVisit[i] \in S \cup {v}
        <5>1. i = 1 \/ search'.toVisit[i] \in S
          BY <2>4, <2>5 DEF Ahead
        <5>2. QED
          BY <1>5, <2>4, <3>1, <5>1
      <4>2. QED
        BY <1>2, <4>1 DEF Ahead
    <3>6. o \in before \ (moved \cup search.found) /\ S \cup {v} \in SUBSET Nodes
      BY <2>1, <2>5, <3>2
    <3>7. PICK n \in S \cup {v} : o \in nodes[n].contents
      BY <1>1, <2>5, <3>4, <3>5, <3>6 DEF Search
    <3>8. n # v
      BY <2>1, <2>5, <3>1, <3>7 DEF WantedIn
    <3>9. QED
      BY <3>7, <3>8
  <2>6. QED
    BY <1>2, <1>3, <1>4, <2>4, <2>5, SearchStep
<1>10. QED
  BY <1>8, <1>9

(* The search goes on to the children.                                     *)
LEMMA SearchChildrenInv ==
  ASSUME NEW a \in Adders, IInv(a), SearchChildren
  PROVE  IInv(a)'
<1>1. TypeOK /\ Tree /\ Placed /\ Search(a)
  BY DEF IInv
<1>2. /\ Searching /\ search.looked /\ UNCHANGED <<contents, nodes, frames, before, moved>>
      /\ search' = [search EXCEPT !.looked = FALSE,
                      !.toVisit = (IF nodes[Visited].leaf THEN <<>> ELSE nodes[Visited].children) \o Tail(@)]
  BY DEF SearchChildren
<1>3. search \in [area : Rect, toVisit : Seq(Nodes), found : SUBSET Objects, looked : BOOLEAN]
  BY <1>1 DEF Search, Rect
<1>4. search.toVisit \in Seq(Nodes) /\ search.toVisit # <<>>
  BY <1>2, <1>3 DEF Searching
<1>5. /\ Tail(search.toVisit) \in Seq(Nodes) /\ Visited \in Nodes /\ Visited = search.toVisit[1]
      /\ Len(search.toVisit) \in Nat
      /\ \A i \in 2..Len(search.toVisit) : \E j \in 1..Len(Tail(search.toVisit)) :
           Tail(search.toVisit)[j] = search.toVisit[i]
  BY <1>4, TailElements DEF Visited
<1>6. PICK first : first = IF nodes[Visited].leaf THEN <<>> ELSE nodes[Visited].children
  OBVIOUS
<1>7. PICK rest : rest = Tail(search.toVisit)
  OBVIOUS
<1>8. first \in Seq(Nodes)
  <2>1. nodes[Visited].children \in Seq(Nodes)
    <3>1. PICK kids : kids = nodes[Visited].children
      OBVIOUS
    <3>2. kids \in Seq(Nat) /\ \A i \in 1..Len(kids) : kids[i] \in Nodes
      BY <1>5, <3>1, Typed DEF ChildrenOf
    <3>3. kids \in Seq(Nodes)
      BY <3>2, SeqDef, LenProperties
    <3>4. QED
      BY <3>1, <3>3
  <2>2. QED
    BY <1>6, <2>1
<1>9. rest \in Seq(Nodes)
  BY <1>5, <1>7
<1>10. PICK all : all = first \o rest
  OBVIOUS
<1>11. all \in Seq(Nodes)
  BY <1>8, <1>9, <1>10, Together
<1>12. search' = [search EXCEPT !.looked = FALSE, !.toVisit = all]
  BY <1>2, <1>6, <1>7, <1>10
<1>13. /\ search' \in [area : Rect, toVisit : Seq(Nodes), found : SUBSET Objects, looked : BOOLEAN]
       /\ search'.toVisit = all /\ search'.looked = FALSE
       /\ search'.area = search.area /\ search'.found = search.found
  BY <1>3, <1>11, <1>12
<1>14. /\ \A i \in 1..Len(first) : \E j \in 1..Len(all) : all[j] = first[i]
       /\ \A i \in 1..Len(rest) : \E j \in 1..Len(all) : all[j] = rest[i]
  BY <1>8, <1>9, <1>10, ConcatElements
<1>15. ASSUME NEW o \in before \ (moved \cup search.found), WantedIn(search.area, o),
              NEW S \in SUBSET Nodes, Closed(S), Ahead(S)'
       PROVE  \E n \in S : o \in nodes[n].contents
  <2>1. \A j \in 1..Len(all) : all[j] \in S
    BY <1>13, <1>15 DEF Ahead
  <2>2. ASSUME NEW i \in 1..Len(search.toVisit), i # 1 PROVE search.toVisit[i] \in S
    <3>1. i \in 2..Len(search.toVisit)
      BY <1>5, <2>2
    <3>2. PICK k \in 1..Len(rest) : rest[k] = search.toVisit[i]
      BY <1>5, <1>7, <3>1
    <3>3. QED
      BY <1>14, <2>1, <3>2
  <2>3. ASSUME ~nodes[Visited].leaf PROVE ChildrenOf(Visited) \subseteq S
    <3>1. first = nodes[Visited].children
      BY <1>6, <2>3
    <3>2. \A i \in 1..Len(first) : first[i] \in S
      BY <1>14, <2>1
    <3>3. QED
      BY <3>1, <3>2 DEF ChildrenOf
  <2>4. Ahead(S)
    BY <1>2, <2>2, <2>3 DEF Ahead
  <2>5. QED
    BY <1>1, <1>15, <2>4 DEF Search
<1>16. QED
  BY <1>2, <1>3, <1>13, <1>15, SearchStep

(* A leaf has children only while it is under expand, and they are leaves. *)
LEMMA LeafChildren ==
  ASSUME NEW a \in Adders, IInv(a), NEW n \in Nodes, nodes[n].leaf, NEW m \in ChildrenOf(n)
  PROVE  nodes[m].leaf
<1>1. Shape(frames[a]) /\ nodes[n].children # <<>>
  <2>1. ChildrenOf(n) # {}
    OBVIOUS
  <2>2. nodes[n].children # <<>>
    BY <2>1 DEF ChildrenOf
  <2>3. QED
    BY <2>2 DEF IInv
<1>2. ~Bare({})
  BY <1>1 DEF Bare
<1>3. \A k \in Nodes : Bare({k}) => n = k
  BY <1>1 DEF Bare
<1>4. CASE Emptying(frames[a])
  <2>1. PICK k \in Nodes : Bare({k}) /\ \A j \in ChildrenOf(k) : nodes[j] = NewNode(nodes[j].bounds)
    BY <1>4 DEF Emptying
  <2>2. nodes[m] = NewNode(nodes[m].bounds)
    BY <1>3, <2>1
  <2>3. QED
    BY <2>2 DEF NewNode
<1>5. CASE Moving(frames[a])
  <2>1. PICK k \in Nodes, moving \in SUBSET contents : Bare({k}) /\ HasRoom(k, moving)
    BY <1>5 DEF Moving
  <2>2. QED
    BY <1>3, <2>1 DEF HasRoom
<1>6. CASE MovingOne(frames[a])
  <2>1. PICK at \in {"add", "place", "insert"}, j \in Nodes, x \in contents,
             k \in Nodes, o \in contents, moving \in SUBSET contents :
          MovingAt(at, j, x, k, o, moving)
    BY <1>6 DEF MovingOne
  <2>2. Bare({k}) /\ HasRoom(k, moving \cup {x})
    BY <2>1 DEF MovingAt
  <2>3. QED
    BY <1>3, <2>1, <2>2 DEF HasRoom
<1>7. ~Adding(frames[a]) /\ ~Splitting(frames[a])
  BY <1>2 DEF Adding, Splitting
<1>8. QED
  BY <1>1, <1>2, <1>4, <1>5, <1>6, <1>7 DEF Shape

(* What is in hand has been added.                                         *)
LEMMA HandAdded ==
  ASSUME NEW a \in Adders, IInv(a)
  PROVE  InHand(frames[a]) \subseteq contents
<1>1. Shape(frames[a]) /\ \A n \in Nodes : nodes[n].contents \subseteq contents
  BY Typed DEF IInv
<1>2. CASE frames[a] = <<>>
  BY <1>2, HandOf
<1>3. CASE Adding(frames[a])
  <2>1. PICK at \in {"add", "place", "insert"}, n \in Nodes, o \in contents : frames[a] = <<Call(at, n, {o})>>
    BY <1>3 DEF Adding
  <2>2. InHand(frames[a]) = Call(at, n, {o}).objects
    BY <2>1, HandOf
  <2>3. QED
    BY <2>2, CallTyped
<1>4. CASE Splitting(frames[a])
  <2>1. PICK n \in Nodes, o \in contents : frames[a] = <<Call("split", n, {}), Call("insert", n, {o})>>
    BY <1>4 DEF Splitting
  <2>2. InHand(frames[a]) = Call("split", n, {}).objects \cup Call("insert", n, {o}).objects
    BY <2>1, HandOf
  <2>3. QED
    BY <2>2, CallTyped
<1>5. CASE Emptying(frames[a])
  <2>1. PICK n \in Nodes, o \in contents : frames[a] = <<Call("empty", n, nodes[n].contents), Call("insert", n, {o})>>
    BY <1>5 DEF Emptying
  <2>2. InHand(frames[a]) = Call("empty", n, nodes[n].contents).objects \cup Call("insert", n, {o}).objects
    BY <2>1, HandOf
  <2>3. QED
    BY <1>1, <2>2, CallTyped
<1>6. CASE Moving(frames[a])
  <2>1. PICK n \in Nodes, o \in contents, moving \in SUBSET contents :
          frames[a] = <<Call("move", n, moving), Call("insert", n, {o})>>
    BY <1>6 DEF Moving
  <2>2. InHand(frames[a]) = Call("move", n, moving).objects \cup Call("insert", n, {o}).objects
    BY <2>1, HandOf
  <2>3. QED
    BY <2>2, CallTyped
<1>7. CASE MovingOne(frames[a])
  <2>1. PICK at \in {"add", "place", "insert"}, m \in Nodes, x \in contents,
             n \in Nodes, o \in contents, moving \in SUBSET contents :
          frames[a] = <<Call(at, m, {x}), Call("move", n, moving), Call("insert", n, {o})>>
    BY <1>7 DEF MovingOne
  <2> DEFINE p == Call(at, m, {x})
             q == Call("move", n, moving)
             r == Call("insert", n, {o})
  <2>2. p.objects = {x} /\ q.objects = moving /\ r.objects = {o} /\ frames[a] = <<p, q, r>>
    BY <2>1, CallTyped
  <2> HIDE DEF p, q, r
  <2>3. InHand(<<p, q, r>>) = p.objects \cup q.objects \cup r.objects
    BY ONLY HandOfThree
  <2>4. QED
    BY <2>2, <2>3
<1>8. QED
  BY <1>1, <1>2, <1>3, <1>4, <1>5, <1>6, <1>7 DEF Shape

(* The search comes to every node but the children of a leaf.              *)
LEMMA ComesTo ==
  ASSUME NEW a \in Adders, IInv(a), NEW S \in SUBSET Nodes, Closed(S), 1 \in S, NEW n \in Nodes
  PROVE  n \in S \/ \E m \in 1..(n - 1) : nodes[m].leaf /\ n \in ChildrenOf(m)
<1> DEFINE Left == {k \in Nodes : ~(k \in S \/ \E m \in 1..(k - 1) : nodes[m].leaf /\ k \in ChildrenOf(m))}
<1>1. Nodes \subseteq Nat /\ Len(nodes) \in Nat
  BY Typed DEF Nodes
<1>2. Tree
  BY DEF IInv
<1>3. ASSUME Left # {} PROVE FALSE
  <2>1. PICK k \in Left : \A j \in Left : ~(<<j, k>> \in OpToRel(<, Nat))
    <3>1. Left \subseteq Nat
      BY <1>1
    <3> HIDE DEF Left
    <3>2. QED
      BY <1>3, <3>1, WFMin, NatLessThanWellFounded
  <2>2. k \in Nodes /\ k \notin S /\ ~ \E m \in 1..(k - 1) : nodes[m].leaf /\ k \in ChildrenOf(m)
    OBVIOUS
  <2>3. k # 1
    BY <2>2
  <2>4. PICK m \in 1..(k - 1) : k \in ChildrenOf(m)
    BY <1>2, <2>2, <2>3 DEF Tree
  <2>5. m \in Nodes /\ m \in Nat /\ k \in Nat /\ m < k
    BY <1>1, <2>2 DEF Nodes
  <2>6. ~nodes[m].leaf
    BY <2>2, <2>4
  <2>7. m \notin S
    BY <2>2, <2>4, <2>6 DEF Closed
  <2>8. m \notin Left
    <3> HIDE DEF Left
    <3>1. QED
      BY <2>1, <2>5 DEF OpToRel
  <2>9. PICK j \in 1..(m - 1) : nodes[j].leaf /\ m \in ChildrenOf(j)
    BY <2>5, <2>7, <2>8
  <2>10. j \in Nodes
    BY <1>1, <2>5, <2>9 DEF Nodes
  <2>11. nodes[m].leaf
    BY <2>9, <2>10, LeafChildren
  <2>12. QED
    BY <2>6, <2>11
<1>4. n \notin Left
  BY <1>3
<1>5. QED
  BY <1>4

(* Nothing but what the one adder has in hand is still to be added.        *)
LEMMA OnlyItsHands ==
  ASSUME NEW a \in Adders, Alone(a)
  PROVE  Added = contents \ InHand(frames[a])
<1>1. ASSUME NEW b \in Adders \ {a} PROVE 1..Len(frames[b]) = {}
  <2>1. frames[b] = <<>> /\ Len(<<>>) = 0 /\ 1..0 = {}
    BY <1>1 DEF Alone
  <2>2. QED
    BY <2>1
<1>2. QED
  BY <1>1 DEF Added, InHand

(* objectsInBounds: begins a search. What has been added, and is not being *)
(* moved, is in a node it comes to.                                        *)
LEMMA ObjectsInBoundsInv ==
  ASSUME NEW a \in Adders, Alone(a), IInv(a), NEW area \in SearchAreas, ObjectsInBounds(area)
  PROVE  IInv(a)'
<1>1. TypeOK /\ Tree /\ Placed /\ Limited /\ Shape(frames[a]) /\ NoneLost(a)
  BY DEF IInv
<1>2. /\ search' = [area |-> area, toVisit |-> <<1>>, found |-> {}, looked |-> FALSE]
      /\ before' = Added /\ moved' = BeingMoved
      /\ UNCHANGED <<contents, nodes, frames>>
  BY DEF ObjectsInBounds
<1>3. /\ \A n \in Nodes : nodes[n].contents \subseteq contents
      /\ frames[a] \in Seq(CallType) /\ Len(frames[a]) \in Nat
      /\ Nodes \subseteq Nat /\ Len(nodes) \in Nat
  BY Typed, LenProperties DEF Nodes
<1>4. Added = contents \ InHand(frames[a])
  BY OnlyItsHands
<1> DEFINE handed == UNION {UNION {frames[b][i].objects : i \in 1..Len(frames[b]) - 1} : b \in Adders}
           under == {n \in 1..Len(nodes) : \E m \in 1..(n - 1) :
                       nodes[m].leaf /\ n \in {nodes[m].children[i] : i \in 1..Len(nodes[m].children)}}
           beneath == UNION {nodes[n].contents : n \in under}
<1>5. BeingMoved = handed \cup beneath
  BY DEF BeingMoved
<1>6. handed \subseteq contents
  <2>1. \A i \in 1..Len(frames[a]) - 1 : i \in 1..Len(frames[a])
    BY <1>3
  <2>2. UNION {frames[a][i].objects : i \in 1..Len(frames[a]) - 1} \subseteq InHand(frames[a])
    BY <2>1 DEF InHand
  <2>3. ASSUME NEW b \in Adders \ {a}
        PROVE  UNION {frames[b][i].objects : i \in 1..Len(frames[b]) - 1} = {}
    <3>1. frames[b] = <<>> /\ Len(<<>>) = 0 /\ 1..(0 - 1) = {}
      BY <2>3 DEF Alone
    <3>2. QED
      BY <3>1
  <2>4. QED
    BY <2>2, <2>3, HandAdded
<1>7. under \subseteq Nodes /\ \A n \in Nodes : (\E m \in 1..(n - 1) : nodes[m].leaf /\ n \in ChildrenOf(m)) => n \in under
  BY DEF Nodes, ChildrenOf
<1> HIDE DEF handed, under
<1>8. beneath \subseteq contents /\ \A n \in under : nodes[n].contents \subseteq beneath
  BY <1>3, <1>7
<1> HIDE DEF beneath
<1>9. BeingMoved \subseteq contents
  BY <1>5, <1>6, <1>8
<1>10. \A n \in Nodes : (\E m \in 1..(n - 1) : nodes[m].leaf /\ n \in ChildrenOf(m)) => nodes[n].contents \subseteq BeingMoved
  BY <1>5, <1>7, <1>8
<1>11. area \in Rect /\ 1 \in Nodes
  BY <1>1, QuadTreeAssumption DEF Rect, Tree
<1>12. /\ search' \in [area : Rect, toVisit : Seq(Nodes), found : SUBSET Objects, looked : BOOLEAN]
      /\ search'.area = area /\ search'.toVisit = <<1>> /\ search'.found = {} /\ search'.looked = FALSE
  <2>1. <<1>> \in Seq(Nodes)
    BY <1>11, StackTyped
  <2>2. PICK s : s = <<1>>
    OBVIOUS
  <2>3. s \in Seq(Nodes) /\ search' = [area |-> area, toVisit |-> s, found |-> {}, looked |-> FALSE]
    BY <1>2, <2>1, <2>2
  <2>4. QED
    BY <1>11, <2>2, <2>3
<1>13. TypeOK'
  <2>1. search'.toVisit \in Seq(1..Len(nodes')) /\ search'.found \subseteq Objects
    BY <1>2, <1>12 DEF Nodes
  <2>2. before' \subseteq contents' /\ moved' \subseteq contents'
    BY <1>2, <1>4, <1>9
  <2>3. QED
    BY <1>1, <1>2, <2>1, <2>2 DEF TypeOK
<1>14. /\ Nodes' = Nodes /\ \A n : ChildrenOf(n)' = ChildrenOf(n)
       /\ \A n, o : FitsIn(n, o)' = FitsIn(n, o)
  BY <1>2 DEF Nodes, ChildrenOf, FitsIn
<1>15. Tree' /\ Placed' /\ Limited' /\ NoneLost(a)'
  BY <1>1, <1>2, <1>14 DEF Tree, Placed, Limited, NoneLost
<1>16. Shape(frames[a])'
  <2>1. PICK calls : calls = frames[a]
    OBVIOUS
  <2>2. Shape(calls)'
    BY <1>1, <1>2, <2>1, ShapeStays
  <2>3. frames'[a] = calls
    BY <1>2, <2>1
  <2>4. QED
    BY <2>2, <2>3
<1>17. ASSUME NEW o \in Added \ BeingMoved, NEW S \in SUBSET Nodes, Closed(S), Ahead(S)'
       PROVE  \E n \in S : o \in nodes[n].contents
  <2>1. 1 \in S
    <3>1. \A i \in 1..Len(search'.toVisit) : search'.toVisit[i] \in S
      BY <1>12, <1>17 DEF Ahead
    <3>2. QED
      BY <1>12, <3>1
  <2>2. PICK n \in Nodes : o \in nodes[n].contents
    BY <1>1, <1>4 DEF NoneLost
  <2>3. n \in S \/ \E m \in 1..(n - 1) : nodes[m].leaf /\ n \in ChildrenOf(m)
    BY <1>17, <2>1, ComesTo
  <2>4. QED
    BY <1>10, <2>2, <2>3
<1>18. \A S : Closed(S)' = Closed(S)
  BY <1>2, <1>14 DEF Closed
<1>19. Search(a)'
  <2>1. InHand(frames'[a]) \cap before' \subseteq moved'
    BY <1>2, <1>4
  <2>2. QED
    BY <1>2, <1>12, <1>14, <1>17, <1>18, <2>1 DEF Search, Searching, Rect
<1>20. QED
  BY <1>13, <1>15, <1>16, <1>19 DEF IInv

-----------------------------------------------------------------------------
(* The inductive invariant holds.                                          *)

(* The world is a rectangle that is not empty.                             *)
LEMMA WorldRect ==
  /\ RectFromTile(World) \in Rect
  /\ RectFromTile(World).w >= 0 /\ RectFromTile(World).h >= 0
  /\ IntersectsRect(RectFromTile(World), RectFromTile(World))
<1>1. World.x = 0 /\ World.y = 0 /\ World.zoom = 0
  BY DEF World
<1>2. MaxZoom - 0 = MaxZoom /\ MaxZoom \in 0..MaxZoom
  BY TileGeometryAssumption
<1>3. PICK p \in Nat \ {0} : p = 2^(MaxZoom - 0)
  BY <1>2, PowerAssumption
<1>4. PICK width \in Nat : width = Unit * p
  BY <1>3, TileGeometryAssumption
<1>5. RectFromTile(World) = [x |-> 0 * width, y |-> 0 * width, w |-> width, h |-> width]
  BY <1>1, <1>3, <1>4 DEF RectFromTile
<1>6. 0 * width = 0
  OBVIOUS
<1>7. PICK r : r = RectFromTile(World)
  OBVIOUS
<1>8. r \in Rect /\ r.x = 0 /\ r.y = 0 /\ r.w = width /\ r.h = width
  BY <1>5, <1>6, <1>7 DEF Rect
<1>9. IntersectsRect(r, r)
  BY <1>8 DEF IntersectsRect, MinLongitude, MaxLongitude, MinLatitude, MaxLatitude
<1>10. QED
  BY <1>7, <1>8, <1>9

(* init: a root that is an empty leaf.                                     *)
LEMMA InitInv ==
  ASSUME NEW a \in Adders, Init
  PROVE  IInv(a)
<1>1. PICK world \in Rect : world = RectFromTile(World) /\ world.w >= 0 /\ world.h >= 0
  BY WorldRect
<1>2. PICK root : root = NewNode(world)
  OBVIOUS
<1>3. /\ root \in Node /\ root.bounds = world /\ root.leaf /\ root.contents = {} /\ root.children = <<>>
  BY <1>2 DEF NewNode, Node, Rect
<1>4. /\ contents = {} /\ nodes = <<root>> /\ frames = [b \in Adders |-> <<>>]
      /\ search = [area |-> world, toVisit |-> <<>>, found |-> {}, looked |-> FALSE]
      /\ before = {} /\ moved = {}
  BY <1>1, <1>2 DEF Init, NoSearch
<1>5. nodes \in Seq(Node) /\ Len(nodes) = 1 /\ nodes[1] = root /\ frames[a] = <<>>
  BY <1>3, <1>4, StackTyped
<1>6. Nodes = {1} /\ ChildrenOf(1) = {}
  BY <1>3, <1>5 DEF Nodes, ChildrenOf
<1>7. search \in [area : Rect, toVisit : Seq(Nodes), found : SUBSET Objects, looked : BOOLEAN]
  <2>1. PICK empty : empty = <<>>
    OBVIOUS
  <2>2. empty \in Seq(Nodes)
    BY <2>1
  <2>3. search = [area |-> world, toVisit |-> empty, found |-> {}, looked |-> FALSE]
    BY <1>4, <2>1
  <2>4. QED
    BY <2>2, <2>3
<1>8. TypeOK
  <2>1. \A n \in 1..Len(nodes) : \A i \in 1..Len(nodes[n].children) : nodes[n].children[i] \in (n + 1)..Len(nodes)
    BY <1>3, <1>5
  <2>2. frames \in [Adders -> Seq([at : {"add", "insert", "place", "split", "empty", "move"},
                                   node : 1..Len(nodes), objects : SUBSET Objects])]
    BY <1>4, StackTyped
  <2>3. search.toVisit \in Seq(1..Len(nodes)) /\ search.found \subseteq Objects
    BY <1>7 DEF Nodes
  <2>4. QED
    BY <1>4, <1>5, <2>1, <2>2, <2>3 DEF TypeOK
<1>9. Tree
  BY <1>1, <1>3, <1>5, <1>6 DEF Tree
<1>10. Placed
  BY <1>3, <1>5, <1>6 DEF Placed
<1>11. Limited
  <2>1. IsFiniteSet({}) /\ Cardinality({}) = 0
    BY FS_EmptySet
  <2>2. \A n \in Nodes : nodes[n].contents = {}
    BY <1>3, <1>5, <1>6
  <2>3. Cardinality({}) <= ExpandLimit
    BY <2>1, QuadTreeAssumption
  <2>4. QED
    BY <2>1, <2>2, <2>3 DEF Limited
<1>12. Shape(frames[a])
  BY <1>3, <1>5, <1>6 DEF Shape, Bare
<1>13. NoneLost(a)
  BY <1>4 DEF NoneLost
<1>14. Search(a)
  <2>1. search.looked = FALSE
    BY <1>4
  <2>2. QED
    BY <1>4, <1>7, <2>1 DEF Search, Rect
<1>15. QED
  BY <1>8, <1>9, <1>10, <1>11, <1>12, <1>13, <1>14 DEF IInv

(* The parser that is at work keeps its invariant, and the others rest.    *)
LEMMA AdderInv ==
  ASSUME NEW a \in Adders, Alone(a), IInv(a), Adder(a)
  PROVE  IInv(a)' /\ Alone(a)'
<1>1. IInv(a)'
  BY MapAddInv, AddObjectInv, InsertInv, PlaceInv, SplitInv, EmptyContentsInv, MoveObjectInv,
     ExpandedInv DEF Adder
<1>2. PICK calls : frames' = [frames EXCEPT ![a] = calls]
  BY DEF Adder, MapAdd, AddObject, Insert, PlaceObjectInChild, Split, EmptyContents, MoveObject, Expanded, Continue
<1>3. DOMAIN frames = Adders
  BY DEF IInv, TypeOK
<1>4. \A b \in Adders \ {a} : frames'[b] = frames[b]
  BY <1>2, <1>3
<1>5. QED
  BY <1>1, <1>4 DEF Alone

(* A parser that rests can take the place of one that does.                *)
LEMMA TakeTurns ==
  ASSUME NEW a \in Adders, NEW b \in Adders, Alone(a), IInv(a), frames[a] = <<>>
  PROVE  Alone(b) /\ IInv(b)
<1>1. frames[b] = frames[a]
  BY DEF Alone
<1>2. Alone(b)
  BY DEF Alone
<1>3. Shape(frames[b]) /\ NoneLost(b)
  BY <1>1 DEF IInv, NoneLost
<1>4. Search(b)
  BY <1>1 DEF IInv, Search
<1>5. QED
  BY <1>2, <1>3, <1>4 DEF IInv

(* A search keeps it too.                                                  *)
LEMMA SearchInv ==
  ASSUME NEW a \in Adders, Alone(a), IInv(a),
         UNCHANGED vars \/ (\E area \in SearchAreas : ObjectsInBounds(area)) \/ SearchContents \/ SearchChildren
  PROVE  IInv(a)' /\ Alone(a)'
<1>1. CASE UNCHANGED vars
  <2>1. UNCHANGED <<contents, nodes, frames, search, before, moved>>
    BY <1>1 DEF vars
  <2>2. Search(a) /\ search \in [area : Rect, toVisit : Seq(Nodes), found : SUBSET Objects, looked : BOOLEAN]
    BY DEF IInv, Search, Rect
  <2>3. \A S : Ahead(S)' = Ahead(S)
    BY <2>1 DEF Ahead, Visited, ChildrenOf
  <2>4. \A o \in before \ (moved \cup search'.found) : WantedIn(search.area, o) =>
          \A S \in SUBSET Nodes : Closed(S) /\ Ahead(S)' => \E n \in S : o \in nodes[n].contents
    BY <2>1, <2>2, <2>3 DEF Search
  <2>5. search'.looked => search'.toVisit # <<>>
    BY <2>1, <2>2 DEF Search, Searching
  <2>6. QED
    BY <2>1, <2>2, <2>4, <2>5, SearchStep DEF Alone
<1>2. ASSUME NEW area \in SearchAreas, ObjectsInBounds(area) PROVE IInv(a)' /\ Alone(a)'
  <2>1. UNCHANGED frames
    BY <1>2 DEF ObjectsInBounds
  <2>2. QED
    BY <1>2, <2>1, ObjectsInBoundsInv DEF Alone
<1>3. CASE SearchContents
  <2>1. UNCHANGED frames
    BY <1>3 DEF SearchContents
  <2>2. QED
    BY <1>3, <2>1, SearchContentsInv DEF Alone
<1>4. CASE SearchChildren
  <2>1. UNCHANGED frames
    BY <1>4 DEF SearchChildren
  <2>2. QED
    BY <1>4, <2>1, SearchChildrenInv DEF Alone
<1>5. QED
  BY <1>1, <1>2, <1>3, <1>4

\* No two parsers are in the tree at one time: OSPOSMFile starts one only, by
\* dispatch_once; the loads of OSPPBFFile and the downloads of OSPMapServer
\* where they follow one another.
OneAtATime == \A a, b \in Adders : Busy(a) /\ Busy(b) => a = b

Inv == \E a \in Adders : Alone(a) /\ IInv(a)

(* Every step keeps the inductive invariant, that of the parser whose turn *)
(* it is.                                                                  *)
LEMMA NextInv ==
  ASSUME Inv, [Next]_vars, OneAtATime'
  PROVE  Inv'
<1>1. PICK a \in Adders : Alone(a) /\ IInv(a)
  BY DEF Inv
<1>2. CASE UNCHANGED vars \/ (\E area \in SearchAreas : ObjectsInBounds(area)) \/ SearchContents \/ SearchChildren
  BY <1>1, <1>2, SearchInv DEF Inv
<1>3. ASSUME NEW b \in Adders, Adder(b) PROVE Inv'
  <2>1. Alone(b) /\ IInv(b)
    <3>1. CASE b = a
      BY <1>1, <3>1
    <3>2. CASE b # a
      <4>1. frames[b] = <<>> /\ DOMAIN frames = Adders
        BY <1>1, <3>2 DEF Alone, IInv, TypeOK
      <4>2. PICK o \in Objects : MapAdd(b, o)
        BY <1>3, <4>1 DEF Adder, AddObject, Insert, PlaceObjectInChild, Split, EmptyContents, MoveObject,
                          Expanded, At, Busy
      <4>3. frames' = [frames EXCEPT ![b] = <<Call("add", 1, {o})>>]
        BY <4>2 DEF MapAdd
      <4>4. frames'[b] # <<>> /\ frames'[a] = frames[a]
        BY <3>2, <4>1, <4>3
      <4>5. frames[a] = <<>>
        BY <3>2, <4>4 DEF OneAtATime, Busy
      <4>6. QED
        BY <1>1, <4>5, TakeTurns
    <3>3. QED
      BY <3>1, <3>2
  <2>2. QED
    BY <1>3, <2>1, AdderInv DEF Inv
<1>4. QED
  BY <1>2, <1>3 DEF Next

(* However many parsers there are, while they add one at a time everything *)
(* about the tree and the search that is needed below stays so.            *)
THEOREM Invariance ==
  ASSUME Adders # {}
  PROVE  Spec /\ []OneAtATime => []Inv
<1>1. Init => Inv
  <2> SUFFICES ASSUME Init PROVE Inv
    OBVIOUS
  <2>1. PICK a \in Adders : TRUE
    OBVIOUS
  <2>2. Alone(a)
    BY DEF Init, Alone
  <2>3. QED
    BY <2>2, InitInv DEF Inv
<1>2. Inv /\ OneAtATime' /\ [Next]_vars => Inv'
  BY NextInv
<1>3. QED
  BY <1>1, <1>2, PTL DEF Spec

-----------------------------------------------------------------------------
(* What follows from it.                                                   *)

(* Reachable is what its definition says: the function exists, as the      *)
(* least set of nodes that holds the root and with a node its children.    *)
LEMMA ReachableIs ==
  \A n \in Nat : Reachable[n] <=>
    n = 1 \/ \E m \in 1..(n - 1) : Reachable[m] /\ \E i \in 1..Len(nodes[m].children) : nodes[m].children[i] = n
<1> DEFINE Kid(m, n) == \E i \in 1..Len(nodes[m].children) : nodes[m].children[i] = n
           Under(C) == 1 \in C /\ \A n \in Nat : \A m \in 1..(n - 1) : m \in C /\ Kid(m, n) => n \in C
           R == {n \in Nat : \A C \in SUBSET Nat : Under(C) => n \in C}
           f == [n \in Nat |-> n \in R]
<1>1. Under(R)
  <2>1. 1 \in R
    OBVIOUS
  <2>2. ASSUME NEW n \in Nat, NEW m \in 1..(n - 1), m \in R, Kid(m, n) PROVE n \in R
    <3> SUFFICES ASSUME NEW C \in SUBSET Nat, Under(C) PROVE n \in C
      OBVIOUS
    <3>1. m \in C
      BY <2>2
    <3> HIDE DEF Kid, R
    <3>2. QED
      BY <2>2, <3>1
  <2> HIDE DEF R, Kid
  <2>3. QED
    BY <2>1, <2>2
<1>2. ASSUME NEW n \in Nat
      PROVE  n \in R <=> (n = 1 \/ \E m \in 1..(n - 1) : m \in R /\ Kid(m, n))
  <2>1. ASSUME n = 1 \/ \E m \in 1..(n - 1) : m \in R /\ Kid(m, n) PROVE n \in R
    <3> HIDE DEF R, Kid
    <3>1. QED
      BY <1>1, <2>1
  <2>2. ASSUME n \in R, n # 1, ~ \E m \in 1..(n - 1) : m \in R /\ Kid(m, n) PROVE FALSE
    <3>1. PICK C : C = R \ {n}
      OBVIOUS
    <3>2. C \in SUBSET Nat
      BY <3>1
    <3>3. Under(C)
      <4> HIDE DEF R, Kid
      <4>1. 1 \in C
        BY <1>1, <2>2, <3>1
      <4>2. ASSUME NEW k \in Nat, NEW m \in 1..(k - 1), m \in C, Kid(m, k) PROVE k \in C
        BY <1>1, <2>2, <3>1, <4>2
      <4>3. QED
        BY <4>1, <4>2
    <3>4. n \in C
      <4> HIDE DEF Under
      <4>1. QED
        BY <2>2, <3>2, <3>3
    <3>5. QED
      BY <3>1, <3>4
  <2> HIDE DEF R, Kid
  <2>3. QED
    BY <2>1, <2>2
<1> HIDE DEF R
<1>3. f = [n \in Nat |-> n = 1 \/ \E m \in 1..(n - 1) : f[m] /\ \E i \in 1..Len(nodes[m].children) : nodes[m].children[i] = n]
  <2> DEFINE P(n) == n = 1 \/ \E m \in 1..(n - 1) : f[m] /\ Kid(m, n)
  <2>1. \A n \in Nat : f[n] = (n \in R)
    OBVIOUS
  <2>2. ASSUME NEW n \in Nat PROVE n \in R <=> P(n)
    <3>1. \A m \in 1..(n - 1) : m \in Nat
      OBVIOUS
    <3>2. \A m \in 1..(n - 1) : f[m] <=> m \in R
      <4> HIDE DEF f
      <4>1. QED
        BY <2>1, <3>1, Zenon
    <3> HIDE DEF f, Kid
    <3>3. (\E m \in 1..(n - 1) : f[m] /\ Kid(m, n)) <=> (\E m \in 1..(n - 1) : m \in R /\ Kid(m, n))
      BY <3>2
    <3>4. QED
      BY <1>2, <3>3
  <2>3. \A n \in Nat : P(n) \in BOOLEAN
    OBVIOUS
  <2>4. \A n \in Nat : (n \in R) = P(n)
    <3>1. \A p, q \in BOOLEAN : (p <=> q) => p = q
      OBVIOUS
    <3>2. \A n \in Nat : (n \in R) \in BOOLEAN
      OBVIOUS
    <3> HIDE DEF P
    <3>3. QED
      BY <2>2, <2>3, <3>1, <3>2
  <2>5. f = [n \in Nat |-> P(n)]
    <3> HIDE DEF P
    <3>1. QED
      BY <2>4
  <2>6. QED
    BY <2>5, Zenon
<1>4. \E g : g = [n \in Nat |-> n = 1 \/ \E m \in 1..(n - 1) : g[m] /\ \E i \in 1..Len(nodes[m].children) : nodes[m].children[i] = n]
  <2> HIDE DEF f
  <2>1. QED
    BY <1>3
<1>5. Reachable = [n \in Nat |-> n = 1 \/ \E m \in 1..(n - 1) : Reachable[m] /\ \E i \in 1..Len(nodes[m].children) : nodes[m].children[i] = n]
  BY <1>4, Zenon DEF Reachable
<1>6. QED
  BY <1>5, Zenon

(* The root leads to every node.                                           *)
LEMMA AllReachable ==
  ASSUME NEW a, IInv(a), NEW n \in Nodes
  PROVE  Reachable[n]
<1> DEFINE Left == {k \in Nodes : ~Reachable[k]}
<1>1. Tree /\ Len(nodes) \in Nat
  BY LenProperties DEF IInv, TypeOK
<1>2. Nodes \subseteq Nat
  BY DEF Nodes
<1>3. ASSUME Left # {} PROVE FALSE
  <2>1. PICK k \in Left : \A j \in Left : ~(<<j, k>> \in OpToRel(<, Nat))
    <3>1. Left \subseteq Nat
      BY <1>2
    <3> HIDE DEF Left
    <3>2. QED
      BY <1>3, <3>1, WFMin, NatLessThanWellFounded
  <2>2. k \in Nodes /\ k \in Nat /\ ~Reachable[k]
    BY <1>2
  <2>3. k # 1
    BY <2>2, ReachableIs
  <2>4. PICK m \in 1..(k - 1) : k \in ChildrenOf(m)
    BY <1>1, <2>2, <2>3 DEF Tree
  <2>5. m \in Nodes /\ m \in Nat /\ m < k
    BY <1>1, <2>2 DEF Nodes
  <2>6. m \notin Left
    <3> HIDE DEF Left
    <3>1. QED
      BY <2>1, <2>2, <2>5 DEF OpToRel
  <2>7. Reachable[m]
    BY <2>5, <2>6
  <2>8. \E i \in 1..Len(nodes[m].children) : nodes[m].children[i] = k
    BY <2>4 DEF ChildrenOf
  <2>9. QED
    BY <2>2, <2>7, <2>8, ReachableIs
<1>4. QED
  BY <1>3

(* OnePlace: no object is lost on its way down the tree, and once no       *)
(* addObject: is under way each is in one node, that contains its bounds.  *)
THEOREM SpecOnePlace ==
  ASSUME Adders # {}
  PROVE  Spec /\ []OneAtATime => []OnePlace
<1>1. ASSUME NEW a \in Adders, Alone(a), IInv(a) PROVE OnePlace
  <2>1. Placed /\ NoneLost(a) /\ Shape(frames[a])
    BY <1>1 DEF IInv
  <2>2. Added = contents \ InHand(frames[a])
    BY <1>1, OnlyItsHands
  <2>3. \A o : Holders(o) = {n \in Nodes : o \in nodes[n].contents}
    BY <1>1, AllReachable DEF Holders, Nodes
  <2>4. \A o \in Added : Holders(o) # {}
    BY <2>1, <2>2, <2>3 DEF NoneLost
  <2>5. ASSUME \A b \in Adders : ~Busy(b), NEW o \in contents
        PROVE  \E n \in 1..Len(nodes) : /\ Holders(o) = {n}
                                        /\ n = 1 \/ ContainsRect(nodes[n].bounds, BoundsOf(o))
    <3>1. InHand(frames[a]) = {}
      BY <2>1, <2>5, HandOf DEF Busy
    <3>2. PICK n \in Nodes : o \in nodes[n].contents
      BY <2>1, <3>1 DEF NoneLost
    <3>3. Holders(o) = {n}
      BY <2>1, <2>3, <3>2 DEF Placed
    <3>4. n = 1 \/ ContainsRect(nodes[n].bounds, BoundsOf(o))
      BY <2>1, <3>2 DEF Placed, FitsIn
    <3>5. QED
      BY <3>2, <3>3, <3>4 DEF Nodes
  <2>6. QED
    BY <2>4, <2>5 DEF OnePlace
<1>2. Inv => OnePlace
  BY <1>1 DEF Inv
<1>3. QED
  BY <1>2, Invariance, PTL

(* LeafWithinLimit: a leaf never outgrows the limit at which it expands,   *)
(* not even one that an expand above it fills.                             *)
THEOREM SpecLeafWithinLimit ==
  ASSUME Adders # {}
  PROVE  Spec /\ []OneAtATime => []LeafWithinLimit
<1>1. Inv => LeafWithinLimit
  BY DEF Inv, IInv, Limited, LeafWithinLimit, Nodes
<1>2. QED
  BY <1>1, Invariance, PTL

(* An area that is searched meets the world, where those asked for do.     *)
Meets == IntersectsRect(RectFromTile(World), search.area)

(* SearchMissesOnlyMoved: a search of an area that meets the world finds   *)
(* what was there when it began, but what an expand was moving.            *)
THEOREM SpecSearchMissesOnlyMoved ==
  ASSUME Adders # {}, \A area \in SearchAreas : IntersectsRect(RectFromTile(World), area)
  PROVE  Spec /\ []OneAtATime => []SearchMissesOnlyMoved
<1>1. Init => Meets
  BY WorldRect DEF Init, NoSearch, Meets
<1>2. Inv /\ Meets /\ [Next]_vars => Meets'
  <2> SUFFICES ASSUME NEW a \in Adders, IInv(a), Meets, [Next]_vars PROVE Meets'
    BY DEF Inv
  <2>1. search \in [area : Rect, toVisit : Seq(Nodes), found : SUBSET Objects, looked : BOOLEAN]
    BY DEF IInv, Search, Rect
  <2>2. CASE UNCHANGED search
    BY <2>2 DEF Meets
  <2>3. ASSUME NEW area \in SearchAreas, ObjectsInBounds(area) PROVE Meets'
    BY <2>3 DEF ObjectsInBounds, Meets
  <2>4. CASE SearchContents
    <3>1. search'.area = search.area
      BY <2>1, <2>4 DEF SearchContents
    <3>2. QED
      BY <3>1 DEF Meets
  <2>5. CASE SearchChildren
    <3>1. search'.area = search.area
      BY <2>1, <2>5 DEF SearchChildren
    <3>2. QED
      BY <3>1 DEF Meets
  <2>6. ASSUME NEW b \in Adders, Adder(b) PROVE UNCHANGED search
    BY <2>6 DEF Adder, MapAdd, AddObject, Insert, PlaceObjectInChild, Split, EmptyContents, MoveObject, Expanded
  <2>7. QED
    BY <2>2, <2>3, <2>4, <2>5, <2>6 DEF Next, vars
<1>3. Inv /\ Meets => SearchMissesOnlyMoved
  <2> SUFFICES ASSUME NEW a \in Adders, IInv(a), Meets, ~Searching, NEW o \in before,
                      IntersectsRect(BoundsOf(o), search.area), o \notin search.found \cup moved
               PROVE  FALSE
    BY DEF SearchMissesOnlyMoved, Inv
  <2>1. Search(a) /\ WantedIn(search.area, o)
    BY DEF IInv, Meets, WantedIn
  <2>2. Closed({})
    BY DEF Closed
  <2>3. Ahead({})
    <3>1. search.toVisit = <<>> /\ ~search.looked
      BY <2>1 DEF Search, Searching
    <3>2. QED
      BY <3>1 DEF Ahead
  <2>4. QED
    BY <2>1, <2>2, <2>3 DEF Search
<1>4. QED
  BY <1>1, <1>2, <1>3, Invariance, PTL DEF Spec
=============================================================================
