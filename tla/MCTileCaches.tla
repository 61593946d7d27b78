---------------------------- MODULE MCTileCaches ----------------------------
(***************************************************************************)
(* Instances of TileCaches.  Addresses are interchangeable.                *)
(***************************************************************************)
EXTENDS TileCaches, TLC

Tile(z, x, y) == [zoom |-> z, x |-> x, y |-> y]
ThreeTiles == {Tile(0, 0, 0), Tile(1, 0, 1), Tile(1, 1, 0)}
TwoTiles == {Tile(1, 0, 1), Tile(1, 1, 0)}
Symmetry == Permutations(Addresses)
=============================================================================
