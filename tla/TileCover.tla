------------------------------ MODULE TileCover ------------------------------
(***************************************************************************)
(* What OSPTileArray promises: a set of cells of the world that grows by   *)
(* whole tiles.  OSPTileArray (module TileArray) implements it with a quad *)
(* tree; OSPMapServer uses it for the tiles it has requested.              *)
(***************************************************************************)
EXTENDS TileGeometry

VARIABLE covered

\* addTile:
AddTo(cells, t) == cells \cup Cells[t]

\* containsTile:
Contains(cells, t) == Cells[t] \subseteq cells

\* notIncludedSubtilesOfTile:
NotIncluded(cells, t) == Maximal(Cells[t] \ cells)

CoverInit == covered = {}
CoverAdd(t) == covered' = AddTo(covered, t)
CoverNext == \E t \in Tiles : CoverAdd(t)
CoverSpec == CoverInit /\ [][CoverNext]_covered
=============================================================================
