------------------------------ MODULE MetaTiles ------------------------------
(***************************************************************************)
(* OSPMapView (OpenStreetPad): the four meta tile views that move with a   *)
(* pan and are replaced by new ones where the pan uncovers the map.        *)
(*                                                                         *)
(* Lengths are pixels of the current zoom, or any smaller unit in which    *)
(* the places of the map area are whole numbers.  The map area is the one  *)
(* shown at the origin of the view; the doubles that project it are exact. *)
(* The float that holds the number of a meta tile is not: from zoom 16 on  *)
(* its 24 bits no longer tell all pixels of the world apart, and a place   *)
(* is rounded to the nearest multiple of Granularity[place].               *)
(***************************************************************************)
EXTENDS Integers

CONSTANTS
  MetaSize,      \* side of a meta tile, 1024.0f
  Width, Height, \* of the map view's bounds
  Pans,          \* the translations of one pan event: records [x, y]
  Origins,       \* bound: the values of origin.x and origin.y
  Granularity,   \* of the float that holds the number of a meta tile, at each of them
  Rounding       \* the furthest a place is off in that float

ASSUME MetaTilesAssumption ==
  /\ MetaSize \in Nat \ {0} /\ Width \in Nat \ {0} /\ Height \in Nat \ {0}
  /\ Pans \subseteq [x : Int, y : Int]
  /\ Origins \subseteq Int
  /\ Granularity \in [Origins -> Nat \ {0}]
  /\ Rounding \in Nat
  /\ \A v \in Origins : Granularity[v] <= 2 * Rounding + 1

VARIABLES
  origin,       \* mapRect.origin
  bottomLeft, bottomRight, topLeft, topRight
     \* the views: the origin of the frame, and the meta tile they show

views == <<bottomLeft, bottomRight, topLeft, topRight>>
vars == <<origin, views>>

\* A frame reaches beyond the bounds by less than two meta tiles.
Frames == -2 * MetaSize .. 2 * MetaSize
View == [x : Frames, y : Frames, column : Int, row : Int]

TypeOK ==
  /\ origin \in [x : Origins, y : Origins]
  /\ bottomLeft \in View /\ bottomRight \in View
  /\ topLeft \in View /\ topRight \in View

-----------------------------------------------------------------------------
\* (int) rounds to zero; storing a double in a float, to the nearest, and
\* from half way to the even one.
TruncatingDiv(a, b) == IF a >= 0 THEN a \div b ELSE -((-a) \div b)
RoundToFloat(v) ==
  LET g == Granularity[v]
      below == v \div g
      off == v - g * below
  IN IF 2 * off < g \/ (2 * off = g /\ below % 2 = 0) THEN g * below ELSE g * below + g

\* xMetaTile and xMetaTilePosition (yMetaTile and yMetaTilePosition).
MetaTile(v) == TruncatingDiv(RoundToFloat(v), MetaSize)
MetaTilePosition(v) == RoundToFloat(v) - MetaSize * MetaTile(v)

\* metaTileViewWithFrame:mapArea: - the view right of the left edge by i
\* meta tiles, above the bottom edge by j.
MetaTileView(o, i, j) ==
  [x |-> MetaSize * i - MetaTilePosition(o.x), y |-> MetaSize * j - MetaTilePosition(o.y),
   column |-> MetaTile(o.x) + i, row |-> MetaTile(o.y) + j]

Moved(view, d) ==
  [x |-> view.x + d.x, y |-> view.y + d.y, column |-> view.column, row |-> view.row]

MaxX(view) == view.x + MetaSize
MaxY(view) == view.y + MetaSize

\* One of the four checks of pan:, on the pair of views <<near, far>>: when
\* the near one left the edge of the bounds the far one is dropped, when the
\* far one no longer reaches their end the near one is.
\* Mutant: the far view is not the one that was near.
RecycleForgetting(near, far, left, exhausted, newNear, newFar) ==
  IF left THEN <<newNear, far>>
  ELSE IF exhausted THEN <<far, newFar>>
  ELSE <<near, far>>

Recycle(near, far, left, exhausted, newNear, newFar) ==
  IF left THEN <<newNear, near>>
  ELSE IF exhausted THEN <<far, newFar>>
  ELSE <<near, far>>

\* Mutant: the new far view is put where a near one would be.
RecycleXNear(pair, o, j) ==
  Recycle(pair[1], pair[2], pair[1].x > 0, MaxX(pair[2]) < Width,
          MetaTileView(o, 0, j), MetaTileView(o, 0, j))

RecycleX(pair, o, j) ==
  Recycle(pair[1], pair[2], pair[1].x > 0, MaxX(pair[2]) < Width,
          MetaTileView(o, 0, j), MetaTileView(o, 1, j))

RecycleY(pair, o, i) ==
  Recycle(pair[1], pair[2], pair[1].y > 0, MaxY(pair[2]) < Height,
          MetaTileView(o, i, 0), MetaTileView(o, i, 1))

-----------------------------------------------------------------------------
\* regenerateMetaTileViews
RegenerateMetaTileViews(o) ==
  /\ bottomLeft' = MetaTileView(o, 0, 0)
  /\ bottomRight' = MetaTileView(o, 1, 0)
  /\ topLeft' = MetaTileView(o, 0, 1)
  /\ topRight' = MetaTileView(o, 1, 1)

\* pan: by a translation since the last event: the views move with the
\* finger, the map area against it.
\* Mutant: the new views are placed before the move.
PanLate(t) ==
  /\ origin' = [x |-> origin.x - t.x, y |-> origin.y - t.y]
  /\ LET bottom == RecycleX(<<Moved(bottomLeft, t), Moved(bottomRight, t)>>, origin, 0)
         top == RecycleX(<<Moved(topLeft, t), Moved(topRight, t)>>, origin, 1)
         lefts == RecycleY(<<bottom[1], top[1]>>, origin, 0)
         rights == RecycleY(<<bottom[2], top[2]>>, origin, 1)
     IN /\ bottomLeft' = lefts[1] /\ topLeft' = lefts[2]
        /\ bottomRight' = rights[1] /\ topRight' = rights[2]

Pan(t) ==
  /\ origin' = [x |-> origin.x - t.x, y |-> origin.y - t.y]
  /\ LET bottom == RecycleX(<<Moved(bottomLeft, t), Moved(bottomRight, t)>>, origin', 0)
         top == RecycleX(<<Moved(topLeft, t), Moved(topRight, t)>>, origin', 1)
         lefts == RecycleY(<<bottom[1], top[1]>>, origin', 0)
         rights == RecycleY(<<bottom[2], top[2]>>, origin', 1)
     IN /\ bottomLeft' = lefts[1] /\ topLeft' = lefts[2]
        /\ bottomRight' = rights[1] /\ topRight' = rights[2]

InBounds(o) == o.x \in Origins /\ o.y \in Origins

\* zoom: in state Ended: the map area takes the new zoom level, in whose
\* pixels its origin is some other place.
ZoomEnded(o) ==
  /\ origin' = o
  /\ RegenerateMetaTileViews(o)

\* commonInit
Init ==
  /\ origin \in {[x |-> x, y |-> y] : x \in Origins, y \in Origins}
  /\ bottomLeft = MetaTileView(origin, 0, 0)
  /\ bottomRight = MetaTileView(origin, 1, 0)
  /\ topLeft = MetaTileView(origin, 0, 1)
  /\ topRight = MetaTileView(origin, 1, 1)

Next ==
  \/ \E t \in Pans : InBounds([x |-> origin.x - t.x, y |-> origin.y - t.y]) /\ Pan(t)
  \/ \E x, y \in Origins : ZoomEnded([x |-> x, y |-> y])

Spec == Init /\ [][Next]_vars

-----------------------------------------------------------------------------
(* OSPMapView.m:232-235, NSAssert: "Bottom Left is not left of bottom      *)
(* right", "Top Left is not left of top right", "Bottom Left is not below  *)
(* top left", "bottom right is not below top right".                       *)
ViewsInOrder ==
  /\ bottomLeft.x < bottomRight.x /\ topLeft.x < topRight.x
  /\ bottomLeft.y < topLeft.y /\ bottomRight.y < topRight.y

\* The pixels of the bounds a view shows.
Shows(view, x, y) == x >= view.x /\ x < MaxX(view) /\ y >= view.y /\ y < MaxY(view)

(* A view shows the map where the map is: after any number of moves it is  *)
(* at the place of its meta tile relative to the map area, but for the     *)
(* rounding of the one float it was placed with; nothing adds up.          *)
InPlace(view) ==
  /\ view.x - (MetaSize * view.column - origin.x) \in -Rounding..Rounding
  /\ view.y - (MetaSize * view.row - origin.y) \in -Rounding..Rounding
ViewsInPlace == \A i \in 1..4 : InPlace(views[i])

(* Wherever the map is panned, the four views cover the bounds: what they  *)
(* leave blank is a crack between two of them, no wider than two views     *)
(* placed with different floats drift apart; none if the float is exact.   *)
Crack(from, to, v) == from <= v /\ v < to /\ to - from <= 2 * Rounding
OnlyCracksBlank ==
  \A x \in 0..(Width - 1), y \in 0..(Height - 1) :
    \/ \E i \in 1..4 : Shows(views[i], x, y)
    \/ \E i, j \in 1..4 : \/ Crack(MaxX(views[i]), views[j].x, x)
                         \/ Crack(MaxY(views[i]), views[j].y, y)

(* The four views are a grid of meta tiles that skips no row or column.    *)
(* (A float rounded up may number the new view like the one it joins.)     *)
NoneSkipped ==
  /\ bottomLeft.column = topLeft.column /\ bottomRight.column = topRight.column
  /\ bottomLeft.row = bottomRight.row /\ topLeft.row = topRight.row
  /\ bottomRight.column - bottomLeft.column \in {0, 1}
  /\ topLeft.row - bottomLeft.row \in {0, 1}
=============================================================================
