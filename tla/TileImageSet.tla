---------------------------- MODULE TileImageSet ----------------------------
(***************************************************************************)
(* RMTileImageSet (MapView): the tile images of the screen, which of them  *)
(* are added for a rectangle of the map, and which are taken away for a    *)
(* better one.                                                             *)
(*                                                                         *)
(* A set of images is a function from tiles to images.  Lengths are in     *)
(* units of the world, WorldSide by WorldSide, y growing to the south as   *)
(* the rows of tiles do; a screen location is held as the place of the map *)
(* the screen has there.  The world repeats itself east and west.          *)
(***************************************************************************)
EXTENDS Integers, FiniteSets, SequencesExt

CONSTANTS
  WorldSide,   \* a multiple of 2^MaxTileZoom
  MinTileZoom, MaxTileZoom,  \* of the tile source
  TileDepth,   \* tileDepth: how many coarser levels lie under the screen's
  MaxSpan      \* bound: columns or rows of tiles on the screen

ASSUME TileImageSetAssumption ==
  /\ MaxTileZoom \in Nat /\ MinTileZoom \in 0..MaxTileZoom
  /\ WorldSide \in Nat \ {0} /\ \A z \in 0..MaxTileZoom : 2^z \in Nat \ {0} /\ WorldSide % 2^z = 0
  /\ TileDepth \in Nat /\ MaxSpan \in Nat \ {0}

\* The provers know nothing of powers.
ASSUME PowerAssumption ==
  2^1 = 2 /\ \A m, n \in 0..MaxTileZoom : m + n <= MaxTileZoom => 2^(m + n) = 2^m * 2^n

TileSide(z) == WorldSide \div 2^z
Tiles == UNION {[x : 0..(2^z - 1), y : 0..(2^z - 1), zoom : {z}] : z \in MinTileZoom..MaxTileZoom}

\* layer.contents is nil while an image is loading or was given up; a proxy
\* (the error or the missing tile) counts as loaded.
ImageStates == {"loading", "failed", "proxy", "shown"}
IsLoaded(image) == image.state \in {"proxy", "shown"}
LoadedTiles(images) == {t \in DOMAIN images : IsLoaded(images[t])}

Distance(a, b) == IF a > b THEN a - b ELSE b - a
CeilDiv(a, b) == -((-a) \div b)

-----------------------------------------------------------------------------
\* normaliseTile: - columns wrap; a row off the world is no tile.
NormalisedTile(c) == [c EXCEPT !.x = @ % 2^c.zoom]
IsDummy(c) == c.y >= 2^c.zoom

\* One of two tiles lies in the other.
Overlap(s, o) ==
  LET z == Min({s.zoom, o.zoom}) IN
  /\ s.x \div 2^(s.zoom - z) = o.x \div 2^(o.zoom - z)
  /\ s.y \div 2^(s.zoom - z) = o.y \div 2^(o.zoom - z)

\* isTile:worseThanTile: - the image of s is of no use once that of o has
\* loaded, on a screen of the given zoom.
\* Mutant: the lower limit of the zoom is not part of the comparison.
IsWorseAnyDepth(zoom, s, o) ==
  /\ o.zoom <= zoom
  /\ s.zoom > zoom
  /\ Overlap(s, o)
  /\ Distance(zoom, s.zoom) >= Distance(zoom, o.zoom)

IsWorse(zoom, s, o) ==
  /\ o.zoom <= zoom
  /\ ~ (s.zoom + TileDepth >= zoom /\ s.zoom <= zoom)
  /\ Overlap(s, o)
  /\ Distance(zoom, s.zoom) >= Distance(zoom, o.zoom)

\* removeTilesWorseThan: for each tile of a set; removeTile: takes an image
\* out and cancels its loading.
RemoveTilesWorseThan(zoom, images, better) ==
  Restrict(images, {s \in DOMAIN images : ~ \E o \in better \ {s} : IsWorse(zoom, s, o)})

\* setZoom: - the images it removes still compare with the ones left, it
\* walks a copy of the set.
SetZoomTo(zoom, images, z) ==
  IF zoom = z THEN images ELSE RemoveTilesWorseThan(z, images, LoadedTiles(images))

-----------------------------------------------------------------------------
(***************************************************************************)
(* A rectangle of tiles (RMTileRect): the tile of its north-western corner *)
(* and how far into the tile the corner lies, its width and height, and    *)
(* the place of that corner on the (unrolled) map.                         *)
(***************************************************************************)
\* RMTileRectRound
Columns(r) == CeilDiv(r.w + r.dx, TileSide(r.zoom))
Rows(r) == CeilDiv(r.h + r.dy, TileSide(r.zoom))

\* "adjust rect for next zoom level down"
Coarser(r) ==
  [r EXCEPT !.zoom = @ - 1, !.x = @ \div 2, !.y = @ \div 2,
            !.dx = IF r.x % 2 = 1 THEN @ + TileSide(r.zoom) ELSE @,
            !.dy = IF r.y % 2 = 1 THEN @ + TileSide(r.zoom) ELSE @]

\* The walk of addTiles:ToDisplayIn: over a square, from its middle outwards.
Spiral[i \in 0..((MaxSpan + 3) * (MaxSpan + 3))] ==
  IF i = 0 THEN [x |-> 0, y |-> 0, dx |-> 0, dy |-> -1]
  ELSE LET p == Spiral[i - 1]
           turn == p.x = p.y \/ (p.x < 0 /\ p.x = -p.y) \/ (p.x > 0 /\ p.x = 1 - p.y)
           dx == IF turn THEN -p.dy ELSE p.dx
           dy == IF turn THEN p.dx ELSE p.dy
       IN [x |-> p.x + dx, y |-> p.y + dy, dx |-> dx, dy |-> dy]

\* The tiles of a rounded rectangle, some columns by some rows, at the steps
\* of that walk that add them.  At a tile off the world it stands still until
\* its steps are used up.
OddAbove(n) == n + 3 - (n % 2)
Walk(r, columns, rows) ==
  LET steps == Max({OddAbove(columns), OddAbove(rows)})
      cells == [i \in 1..(steps * steps) |->
        [x |-> Spiral[i - 1].x + r.x + OddAbove(columns) \div 2 - 1,
         y |-> Spiral[i - 1].y + r.y + OddAbove(rows) \div 2 - 1, zoom |-> r.zoom]]
      within == {i \in DOMAIN cells : /\ cells[i].x \in r.x..(r.x + columns - 1)
                                     /\ cells[i].y \in r.y..(r.y + rows - 1)}
  IN Restrict(cells, {i \in within : \A j \in within : j <= i => ~ IsDummy(cells[j])})

\* The screen location of a tile of the rectangle.
PlaceOf(r, c) ==
  [x |-> r.left - r.dx + (c.x - r.x) * TileSide(r.zoom),
   y |-> r.top - r.dy + (c.y - r.y) * TileSide(r.zoom)]

\* The places addTiles: gives the tiles of one level: a tile it meets twice
\* keeps the last.
PlacesAlong(r, walk) ==
  [t \in {NormalisedTile(walk[i]) : i \in DOMAIN walk} |->
    PlaceOf(r, walk[Max({i \in DOMAIN walk : NormalisedTile(walk[i]) = t})])]
PlacesOfLevel(r) == PlacesAlong(r, Walk(r, Columns(r), Rows(r)))

\* The levels it adds: the coarser ones above its lowest zoom.
LowestZoom(zoom) == Max({MinTileZoom, zoom - TileDepth - 1})
CoarserBy(r, n) ==
  LET level[i \in 0..n] == IF i = 0 THEN r ELSE Coarser(level[i - 1]) IN level[n]
Levels(zoom, r) == {CoarserBy(r, n) : n \in 0..Max({0, r.zoom - 1 - LowestZoom(zoom)})}

Merged(levels) ==
  [t \in UNION {DOMAIN l : l \in levels} |->
    (CHOOSE l \in levels : t \in DOMAIN l)[t]]
Places(zoom, r) == Merged({PlacesOfLevel(l) : l \in Levels(zoom, r)})

\* addTile:At: for each - an image of the set moves to its place, a tile
\* without one gets an image from the tile source: those of hits come out of
\* its cache and are loaded, the others start to load.
AddTilesAt(zoom, images, places, hits) ==
  LET needed == {t \in DOMAIN places \ DOMAIN images :
                   ~ \E o \in LoadedTiles(images) : IsWorse(zoom, t, o)}
      image(t) == IF t \in needed
                  THEN [at |-> places[t], state |-> IF t \in hits THEN "shown" ELSE "loading"]
                  ELSE IF t \in DOMAIN places THEN [images[t] EXCEPT !.at = places[t]] ELSE images[t]
  IN RemoveTilesWorseThan(zoom, [t \in DOMAIN images \union needed |-> image(t)], needed \intersect hits)
AddTiles(zoom, images, r, hits) == AddTilesAt(zoom, images, Places(zoom, r), hits)

\* What it returns: the place of the rectangle's whole tiles.
WholeTiles(r) ==
  [x |-> r.left - r.dx, y |-> r.top - r.dy,
   w |-> Columns(r) * TileSide(r.zoom), h |-> Rows(r) * TileSide(r.zoom)]

\* removeTilesOutsideOf: - columns from left to right, that may go round the
\* end of the world.
\* Mutant: they always do.
InColumnsRound(x, left, right) == x >= left \/ x <= right

InColumns(x, left, right) ==
  IF left <= right THEN x \in left..right ELSE x >= left \/ x <= right

\* The span of a rectangle without tiles is that of one.  The last column
\* wraps unless its row is off the world.
Span(n) == IF n > 1 THEN n - 1 ELSE 0
TilesInside(images, r) ==
  LET last == [x |-> r.x + Span(Columns(r)), y |-> r.y + Span(Rows(r)), zoom |-> r.zoom]
      right == IF IsDummy(last) THEN last.x ELSE NormalisedTile(last).x
      inside(t) ==
        LET z == Min({t.zoom, r.zoom})
            at(v) == v \div 2^(r.zoom - z)
        IN /\ t.y \div 2^(t.zoom - z) \in at(r.y)..at(last.y)
           /\ InColumns(t.x \div 2^(t.zoom - z), at(r.x), at(right))
  IN {t \in DOMAIN images : inside(t)}

RemoveTilesOutsideOf(images, r) == Restrict(images, TilesInside(images, r))
=============================================================================
