----------------------------- MODULE TileGeometry -----------------------------
(***************************************************************************)
(* The quad tiles of OpenStreetPad: OSPTile and OSPCoordinateRect.         *)
(*                                                                         *)
(* The world is the unit square.  Its double coordinates are integers in   *)
(* units of a cell, the side of a tile of zoom MaxZoom, divided by Unit:   *)
(* the world is WorldSize by WorldSize.                                    *)
(***************************************************************************)
EXTENDS Integers, FiniteSets

CONSTANTS
  MaxZoom,   \* bound: the finest tiles
  Unit       \* coordinates per side of a finest tile

ASSUME TileGeometryAssumption == MaxZoom \in Nat /\ Unit \in Nat \ {0}

\* The provers know nothing of powers.
ASSUME PowerAssumption ==
  /\ \A n \in 0..MaxZoom : 2^n \in Nat \ {0}
  /\ 2^1 = 2 /\ \A m, n \in 0..MaxZoom : m + n <= MaxZoom => 2^(m + n) = 2^m * 2^n

WorldSize == Unit * 2^MaxZoom

\* OSPTile
TilesOfZoom(z) == [x : 0..(2^z - 1), y : 0..(2^z - 1), zoom : {z}]
Tiles == UNION {TilesOfZoom(z) : z \in 0..MaxZoom}
World == [x |-> 0, y |-> 0, zoom |-> 0]

\* The four quarters of a tile, in the order the code builds them: bottom
\* left, bottom right, top left, top right.
\* Mutant: the right ones are built as the left ones.
QuarterLeft(t, i) == [x |-> t.x * 2, y |-> t.y * 2 + ((i - 1) \div 2), zoom |-> t.zoom + 1]

Quarter(t, i) == [x |-> t.x * 2 + ((i - 1) % 2), y |-> t.y * 2 + ((i - 1) \div 2), zoom |-> t.zoom + 1]

\* The finest tiles each tile covers.
Cells == [t \in Tiles |->
  LET side == 2^(MaxZoom - t.zoom) IN
  {c \in TilesOfZoom(MaxZoom) : c.x \div side = t.x /\ c.y \div side = t.y}]

\* The fewest tiles that cover exactly a set of cells.
Inside(cells) == {t \in Tiles : Cells[t] \subseteq cells}
Maximal(cells) ==
  {t \in Inside(cells) : ~ \E s \in Inside(cells) : s.zoom < t.zoom /\ Cells[t] \subseteq Cells[s]}

-----------------------------------------------------------------------------
\* OSPCoordinateRect: its origin, and its size, that may be negative.
MinLongitude(r) == IF r.w >= 0 THEN r.x ELSE r.x + r.w
MaxLongitude(r) == IF r.w < 0 THEN r.x ELSE r.x + r.w
MinLatitude(r) == IF r.h >= 0 THEN r.y ELSE r.y + r.h
MaxLatitude(r) == IF r.h < 0 THEN r.y ELSE r.y + r.h

RectFromTile(t) ==
  LET width == Unit * 2^(MaxZoom - t.zoom) IN
  [x |-> t.x * width, y |-> t.y * width, w |-> width, h |-> width]

ContainsRect(a, b) ==
  /\ MinLongitude(a) <= MinLongitude(b) /\ MaxLongitude(a) >= MaxLongitude(b)
  /\ MinLatitude(a) <= MinLatitude(b) /\ MaxLatitude(a) >= MaxLatitude(b)

\* Closed rectangles: two that only touch do intersect.
IntersectsRect(a, b) ==
  /\ MaxLongitude(a) >= MinLongitude(b) /\ MinLongitude(a) <= MaxLongitude(b)
  /\ MaxLatitude(a) >= MinLatitude(b) /\ MinLatitude(a) <= MaxLatitude(b)
=============================================================================
