------------------------------ MODULE TileArray ------------------------------
(***************************************************************************)
(* OSPTileArray (OpenStreetPad): the set of tiles already requested, as a  *)
(* quad tree (OSPTileTree) whose complete nodes are folded into leaves.    *)
(*                                                                         *)
(* A node is known by the tile it represents: a leaf that expands makes    *)
(* its quarters' nodes, and nothing else makes one.  Every method is one   *)
(* step: each node is locked from its parent's lock on, so a call holds    *)
(* the root's lock from end to end.                                        *)
(***************************************************************************)
EXTENDS TileGeometry, Sequences, SequencesExt

CONSTANT AddedTiles   \* the tiles a client may add

ASSUME TileArrayAssumption == AddedTiles \subseteq Tiles

VARIABLE tileTree     \* of each tile that has a node, its leaf and included

\* initWithTile:
NewNode == [leaf |-> TRUE, included |-> FALSE]
TreeWithTile(t) == [s \in {t} |-> NewNode]

\* The node of a tile takes its quarters' place.
Included(tree, t) ==
  [s \in {s \in DOMAIN tree : s = t \/ ~(Cells[s] \subseteq Cells[t])} |->
     IF s = t THEN [leaf |-> TRUE, included |-> TRUE] ELSE tree[s]]

\* Leaves, one below the other, get quarters.
Expanded(tree, leaves) ==
  [s \in DOMAIN tree \cup {Quarter(t, i) : t \in leaves, i \in 1..4} |->
     [leaf |-> s \notin leaves /\ (s \in DOMAIN tree => tree[s].leaf),
      included |-> s \in DOMAIN tree /\ tree[s].included]]

\* A node all of whose quarters are included becomes an included leaf.
\* Mutants: it does not; it does when one of them is.
FoldedNever(tree, t) == tree
FoldedEarly(tree, t) ==
  IF \E i \in 1..3 : tree[Quarter(t, i)].included THEN Included(tree, t) ELSE tree

Folded(tree, t) ==
  IF \A i \in 1..4 : tree[Quarter(t, i)].included THEN Included(tree, t) ELSE tree

\* indexForChild: - from 1.
IndexForChild(t, tile) ==
  LET shift == tile.zoom - t.zoom - 1
      xHalf == (tile.x \div 2^shift) % 2
      yHalf == (tile.y \div 2^shift) % 2
  IN yHalf * 2 + xHalf + 1

\* The tiles from the root's down to a tile.
Path(tile) ==
  LET at[z \in 0..tile.zoom] ==
        IF z = 0 THEN World ELSE Quarter(at[z - 1], IndexForChild(at[z - 1], tile))
  IN at

\* How deep a call for a tile gets: to the first node that is included or a
\* leaf, or to that of the tile.
Depth(tree, tile) ==
  LET at == Path(tile)
      Ends(z) == z = tile.zoom \/ tree[at[z]].included \/ tree[at[z]].leaf
  IN CHOOSE z \in 0..tile.zoom : Ends(z) /\ \A y \in 0..(z - 1) : ~Ends(y)

\* addTile: up[z] is what the call for the node of zoom z leaves.
AddTile(tree, tile) ==
  LET at == Path(tile)
      depth == Depth(tree, tile)
      done == tree[at[depth]].leaf /\ tree[at[depth]].included
      bottom == IF done THEN depth ELSE tile.zoom
      up[z \in 0..bottom] ==
        IF z < bottom THEN Folded(up[z + 1], at[z])
        ELSE IF done THEN tree
        ELSE Included(Expanded(tree, {at[y] : y \in depth..(tile.zoom - 1)}), tile)
  IN up[0]

\* containsTile:
ContainsTile(tree, tile) == tree[Path(tile)[Depth(tree, tile)]].included

\* notIncludedSubtiles of the node of a tile.
NotIncludedSubtiles(tree, tile) ==
  LET rest[t \in DOMAIN tree] ==
        IF tree[t].included THEN <<>>
        ELSE IF tree[t].leaf THEN <<t>>
        ELSE rest[Quarter(t, 1)] \o rest[Quarter(t, 2)] \o rest[Quarter(t, 3)] \o rest[Quarter(t, 4)]
  IN rest[tile]

\* notIncludedSubtilesOfTile:  Mutant: a leaf answers the tile it stands for.
NotIncludedOfLeaf(tree, tile) ==
  LET end == Path(tile)[Depth(tree, tile)] IN
  IF tree[end].included THEN <<>>
  ELSE IF tree[end].leaf THEN <<end>>
  ELSE NotIncludedSubtiles(tree, end)

NotIncludedSubtilesOfTile(tree, tile) ==
  LET end == Path(tile)[Depth(tree, tile)] IN
  IF tree[end].included THEN <<>>
  ELSE IF tree[end].leaf THEN <<tile>>
  ELSE NotIncludedSubtiles(tree, end)

-----------------------------------------------------------------------------
\* init
ArrayInit == tileTree = TreeWithTile(World)

Add(t) == tileTree' = AddTile(tileTree, t)

ArrayNext == \E t \in AddedTiles : Add(t)

ArraySpec == ArrayInit /\ [][ArrayNext]_tileTree

-----------------------------------------------------------------------------
\* The cells of the included nodes.
CoveredBy(tree) == UNION {Cells[t] : t \in {s \in DOMAIN tree : tree[s].included}}

Cover == INSTANCE TileCover WITH covered <- CoveredBy(tileTree)

(* The tree is a set of cells: it implements TileCover, addTile: of a tile *)
(* by the adding of the cells of that tile and no other, however the tiles *)
(* added before overlap it.                                                *)
ImplementsCover ==
  /\ Cover!CoverSpec
  /\ [][\A t \in AddedTiles : Add(t) => Cover!CoverAdd(t)]_tileTree

(* containsTile: answers whether all of the tile has been added, as one    *)
(* tile or piece by piece; notIncludedSubtilesOfTile: answers the fewest   *)
(* tiles that complete the tile, each once.                                *)
AnswersAsTheSet ==
  \A t \in Tiles :
    LET rest == NotIncludedSubtilesOfTile(tileTree, t) IN
    /\ ContainsTile(tileTree, t) <=> Cover!Contains(CoveredBy(tileTree), t)
    /\ ToSet(rest) = Cover!NotIncluded(CoveredBy(tileTree), t)
    /\ Len(rest) = Cardinality(ToSet(rest))

(* The tree does not grow with what is asked of it: there is nothing below *)
(* a leaf, and only a leaf is included; any other node has its four        *)
(* quarters, not all of them included and not all of them untouched.       *)
TreeIsReduced ==
  \A t \in DOMAIN tileTree :
    IF tileTree[t].leaf THEN \A s \in DOMAIN tileTree : Cells[s] \subseteq Cells[t] => s = t
    ELSE /\ ~tileTree[t].included
         /\ \A i \in 1..4 : Quarter(t, i) \in DOMAIN tileTree
         /\ \E i \in 1..4 : ~tileTree[Quarter(t, i)].included
         /\ \E i \in 1..4 : tileTree[Quarter(t, i)] # NewNode
=============================================================================
