-------------------------------- MODULE Areas --------------------------------
(***************************************************************************)
(* The algorithms of OSPCoordinateRect and OSPNonRectangularArea: the      *)
(* tiles that cover a rectangle, and the rectangles left of an area when   *)
(* another is cut out of it.                                               *)
(***************************************************************************)
EXTENDS TileGeometry, Sequences, SequencesExt

Rect(x, y, w, h) == [x |-> x, y |-> y, w |-> w, h |-> h]

\* The rectangles of the map: their sizes are not negative.
Rectangles == [x : Int, y : Int, w : Nat, h : Nat]

-----------------------------------------------------------------------------
(* NSArrayOfTilesFromCoordinateRect                                        *)

\* Whether a tile sticks out of the rectangle by more than maxOverspill, on
\* either axis.
Split(r, maxOverspill, tile) ==
  \/ MinLongitude(r) - maxOverspill > MinLongitude(tile)
  \/ MaxLongitude(r) + maxOverspill < MaxLongitude(tile)
  \/ MinLatitude(r) - maxOverspill > MinLatitude(tile)
  \/ MaxLatitude(r) + maxOverspill < MaxLatitude(tile)

\* A tile no larger than maxOverspill is never split, so MaxZoom suffices for
\* every maxOverspill >= Unit.
TilesFromRect(r, maxOverspill) ==
  LET within[t \in Tiles] ==
        IF ~IntersectsRect(r, RectFromTile(t)) THEN <<>>
        ELSE IF Split(r, maxOverspill, RectFromTile(t))
             THEN within[Quarter(t, 1)] \o within[Quarter(t, 2)]
                    \o within[Quarter(t, 3)] \o within[Quarter(t, 4)]
             ELSE <<t>>
  IN within[World]

-----------------------------------------------------------------------------
(* OSPCoordinateRectSubtract                                               *)

\* The left and the right chop are taken off before the bottom and the top
\* one.  Mutant: those are as wide as the rectangle was.
SubtractWide(a, b) ==
  LET aRight == a.x + a.w  bRight == b.x + b.w
      aTop == a.y + a.h    bTop == b.y + b.h
  IN IF ~IntersectsRect(a, b) THEN <<a>>
     ELSE (IF a.x < b.x THEN <<Rect(a.x, a.y, b.x - a.x, a.h)>> ELSE <<>>)
       \o (IF aRight > bRight THEN <<Rect(bRight, a.y, aRight - bRight, a.h)>> ELSE <<>>)
       \o (IF a.y < b.y THEN <<Rect(a.x, a.y, a.w, b.y - a.y)>> ELSE <<>>)
       \o (IF aTop > bTop THEN <<Rect(a.x, bTop, a.w, aTop - bTop)>> ELSE <<>>)

Subtract(a, b) ==
  LET left == IF a.x < b.x THEN b.x ELSE a.x
      aRight == a.x + a.w  bRight == b.x + b.w
      right == IF aRight > bRight THEN bRight ELSE aRight
      aTop == a.y + a.h    bTop == b.y + b.h
  IN IF ~IntersectsRect(a, b) THEN <<a>>
     ELSE (IF a.x < b.x THEN <<Rect(a.x, a.y, b.x - a.x, a.h)>> ELSE <<>>)
       \o (IF aRight > bRight THEN <<Rect(bRight, a.y, aRight - bRight, a.h)>> ELSE <<>>)
       \o (IF a.y < b.y THEN <<Rect(left, a.y, right - left, b.y - a.y)>> ELSE <<>>)
       \o (IF aTop > bTop THEN <<Rect(left, bTop, right - left, aTop - bTop)>> ELSE <<>>)

\* areaBySubtractingArea:
AreaBySubtractingArea(area, other) ==
  FoldLeft(LAMBDA current, b : FlattenSeq([i \in 1..Len(current) |-> Subtract(current[i], b)]),
           area, other)
=============================================================================
