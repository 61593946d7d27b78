--------------------------- MODULE MetaTiles_proofs ---------------------------
(***************************************************************************)
(* Theorems about the meta tile views of OSPMapView, for meta tiles, map   *)
(* views and pans of any size and a float of any precision.                *)
(***************************************************************************)
EXTENDS MetaTiles, TLAPS

Point == [x : Int, y : Int]
Place == [x : Origins, y : Origins]

\* A view with its meta tile at its place when the map area is at o, but for
\* the rounding.
PlacedAt(view, o) ==
  /\ view \in [x : Int, y : Int, column : Int, row : Int]
  /\ MetaSize * view.column - o.x - Rounding <= view.x
  /\ view.x <= MetaSize * view.column - o.x + Rounding
  /\ MetaSize * view.row - o.y - Rounding <= view.y
  /\ view.y <= MetaSize * view.row - o.y + Rounding

Opposite(o, t) == [x |-> o.x - t.x, y |-> o.y - t.y]

-----------------------------------------------------------------------------
(* Arithmetic.                                                             *)

(* What integer division rounds off.                                       *)
LEMMA DivBounds ==
  ASSUME NEW a \in Int, NEW m \in Nat \ {0}
  PROVE  /\ a \div m \in Int
         /\ m * (a \div m) \in Int
         /\ m * (a \div m) <= a
         /\ a < m * (a \div m) + m
         /\ a >= 0 => m * (a \div m) >= 0
  BY SMT

(* Multiples of a few neighbours, which the solvers take for unrelated.    *)
LEMMA Multiples ==
  ASSUME NEW m \in Int, NEW c \in Int
  PROVE  /\ m * c \in Int
         /\ m * (c - 1) = m * c - m
         /\ m * (c + 0) = m * c
         /\ m * (c + 1) = m * c + m
         /\ m * (c + 2) = m * c + m + m
  BY SMT

(* Of two multiples less than one apart in their numbers.                  *)
LEMMA MultiplesInOrder ==
  ASSUME NEW m \in Nat \ {0}, NEW a \in Int, NEW b \in Int, m * a < m * b + m
  PROVE  a <= b
  BY SMT

(* A float is off by no more than Rounding.                                *)
LEMMA FloatError ==
  ASSUME NEW v \in Origins
  PROVE  /\ RoundToFloat(v) \in Int
         /\ v - Rounding <= RoundToFloat(v) /\ RoundToFloat(v) <= v + Rounding
         /\ v >= 0 => RoundToFloat(v) >= 0
<1> DEFINE g == Granularity[v]
           below == v \div g
           low == g * below
           even == below % 2 = 0
<1>1. /\ v \in Int /\ g \in Nat \ {0} /\ Rounding \in Nat /\ g <= 2 * Rounding + 1
  BY MetaTilesAssumption
<1>2. low \in Int /\ low <= v /\ v < low + g /\ (v >= 0 => low >= 0)
  BY <1>1, DivBounds
<1>3. RoundToFloat(v) =
        IF 2 * (v - low) < g \/ (2 * (v - low) = g /\ even) THEN low ELSE low + g
  BY DEF RoundToFloat
<1> HIDE DEF low, even, g
<1>4. \/ RoundToFloat(v) = low /\ 2 * (v - low) <= g
      \/ RoundToFloat(v) = low + g /\ 2 * (v - low) >= g
  BY <1>1, <1>2, <1>3
<1> QED  BY <1>1, <1>2, <1>4

(* The number of a meta tile is an integer, ...                            *)
LEMMA MetaTileInt ==
  ASSUME NEW v \in Origins
  PROVE  MetaTile(v) \in Int
<1> DEFINE f == RoundToFloat(v)
<1>1. f \in Int /\ -f \in Int
  BY FloatError
<1>2. MetaTile(v) = IF f >= 0 THEN f \div MetaSize ELSE -((-f) \div MetaSize)
  BY DEF MetaTile, TruncatingDiv
<1> HIDE DEF f
<1>3. f \div MetaSize \in Int /\ (-f) \div MetaSize \in Int
  BY <1>1, DivBounds, MetaTilesAssumption
<1> QED  BY <1>2, <1>3

(* ... and east and north of the origin of the world the place rounded to  *)
(* a float lies in that meta tile.                                         *)
LEMMA MetaTileBounds ==
  ASSUME NEW v \in Origins, v >= 0
  PROVE  /\ MetaTilePosition(v) = RoundToFloat(v) - MetaSize * MetaTile(v)
         /\ MetaTilePosition(v) \in Int
         /\ 0 <= MetaTilePosition(v) /\ MetaTilePosition(v) < MetaSize
<1> DEFINE f == RoundToFloat(v)
<1>1. f \in Int /\ f >= 0 /\ MetaSize \in Nat \ {0}
  BY FloatError, MetaTilesAssumption
<1>2. MetaTile(v) = f \div MetaSize
  BY <1>1 DEF MetaTile, TruncatingDiv
<1>3. MetaTilePosition(v) = f - MetaSize * (f \div MetaSize)
  BY <1>2 DEF MetaTilePosition
<1>4. MetaTilePosition(v) = f - MetaSize * MetaTile(v)
  BY DEF MetaTilePosition
<1> HIDE DEF f
<1>5. /\ MetaSize * (f \div MetaSize) \in Int
      /\ MetaSize * (f \div MetaSize) <= f
      /\ f < MetaSize * (f \div MetaSize) + MetaSize
  BY <1>1, DivBounds
<1>6. /\ MetaTilePosition(v) \in Int
      /\ 0 <= MetaTilePosition(v) /\ MetaTilePosition(v) < MetaSize
  BY <1>1, <1>3, <1>5
<1> QED  BY <1>4, <1>6 DEF f

-----------------------------------------------------------------------------
(* Where a view is put, and where it is after a move.                      *)

(* A new view is where its meta tile is, but for the rounding.             *)
LEMMA NewViewPlaced ==
  ASSUME NEW o \in Place, NEW i \in Int, NEW j \in Int
  PROVE  /\ PlacedAt(MetaTileView(o, i, j), o)
         /\ MetaTileView(o, i, j).column = MetaTile(o.x) + i
         /\ MetaTileView(o, i, j).row = MetaTile(o.y) + j
         /\ MetaTileView(o, i, j).x = MetaSize * i - MetaTilePosition(o.x)
         /\ MetaTileView(o, i, j).y = MetaSize * j - MetaTilePosition(o.y)
<1> DEFINE cx == MetaTile(o.x)
           cy == MetaTile(o.y)
           fx == RoundToFloat(o.x)
           fy == RoundToFloat(o.y)
           v == MetaTileView(o, i, j)
<1>1. o.x \in Origins /\ o.y \in Origins
  BY DEF Place
<1>2. o.x \in Int /\ o.y \in Int /\ MetaSize \in Int /\ Rounding \in Int
  <2>1. Origins \subseteq Int /\ MetaSize \in Int /\ Rounding \in Int
    BY MetaTilesAssumption
  <2> QED  BY <1>1, <2>1
<1>3. cx \in Int /\ cy \in Int
  BY <1>1, MetaTileInt
<1>4. /\ fx \in Int /\ o.x - Rounding <= fx /\ fx <= o.x + Rounding
      /\ fy \in Int /\ o.y - Rounding <= fy /\ fy <= o.y + Rounding
  BY <1>1, FloatError
<1>5. /\ v.x = MetaSize * i - (fx - MetaSize * cx) /\ v.column = cx + i
      /\ v.y = MetaSize * j - (fy - MetaSize * cy) /\ v.row = cy + j
      /\ v = [x |-> v.x, y |-> v.y, column |-> v.column, row |-> v.row]
  BY DEF MetaTileView, MetaTilePosition
<1>6. /\ v.column = MetaTile(o.x) + i /\ v.row = MetaTile(o.y) + j
      /\ v.x = MetaSize * i - MetaTilePosition(o.x)
      /\ v.y = MetaSize * j - MetaTilePosition(o.y)
  BY DEF MetaTileView
<1> HIDE DEF cx, cy, fx, fy, v
<1>7. v.x \in Int /\ v.y \in Int /\ v.column \in Int /\ v.row \in Int
  BY <1>2, <1>3, <1>4, <1>5
<1>8. v.x = MetaSize * v.column - fx /\ v.y = MetaSize * v.row - fy
  BY <1>2, <1>3, <1>4, <1>5
<1>9. MetaSize * v.column \in Int /\ MetaSize * v.row \in Int
  BY <1>2, <1>7
<1>10. /\ MetaSize * v.column - o.x - Rounding <= v.x
       /\ v.x <= MetaSize * v.column - o.x + Rounding
       /\ MetaSize * v.row - o.y - Rounding <= v.y
       /\ v.y <= MetaSize * v.row - o.y + Rounding
  BY <1>2, <1>4, <1>8, <1>9
<1>11. PlacedAt(v, o)
  BY <1>5, <1>7, <1>10 DEF PlacedAt
<1> QED  BY <1>6, <1>11 DEF v

(* A view that is moved with the map area is as far off as it was.         *)
LEMMA MovedPlaced ==
  ASSUME NEW o \in Point, NEW t \in Point, NEW view, PlacedAt(view, o)
  PROVE  /\ PlacedAt(Moved(view, t), Opposite(o, t))
         /\ Moved(view, t).column = view.column
         /\ Moved(view, t).row = view.row
<1>1. MetaSize \in Int /\ Rounding \in Int
  BY MetaTilesAssumption
<1>2. /\ Moved(view, t) \in [x : Int, y : Int, column : Int, row : Int]
      /\ Moved(view, t).x = view.x + t.x
      /\ Moved(view, t).y = view.y + t.y
      /\ Moved(view, t).column = view.column
      /\ Moved(view, t).row = view.row
  <2>1. view \in [x : Int, y : Int, column : Int, row : Int] /\ t.x \in Int /\ t.y \in Int
    BY DEF PlacedAt, Point
  <2> QED  BY <2>1 DEF Moved
<1>3. Opposite(o, t).x = o.x - t.x /\ Opposite(o, t).y = o.y - t.y
  BY DEF Opposite
<1> DEFINE mc == MetaSize * view.column
           mr == MetaSize * view.row
<1>4. /\ mc \in Int /\ mr \in Int /\ view.x \in Int /\ view.y \in Int
      /\ mc - o.x - Rounding <= view.x /\ view.x <= mc - o.x + Rounding
      /\ mr - o.y - Rounding <= view.y /\ view.y <= mr - o.y + Rounding
  BY <1>1 DEF PlacedAt
<1> HIDE DEF mc, mr
<1>5. /\ mc - (o.x - t.x) - Rounding <= view.x + t.x
      /\ view.x + t.x <= mc - (o.x - t.x) + Rounding
      /\ mr - (o.y - t.y) - Rounding <= view.y + t.y
      /\ view.y + t.y <= mr - (o.y - t.y) + Rounding
  BY <1>1, <1>4 DEF Point
<1> QED  BY <1>2, <1>3, <1>5 DEF PlacedAt, mc, mr

(* The map area's origin moves to a point.                                 *)
LEMMA OppositePoint ==
  ASSUME NEW o \in Point, NEW t \in Point
  PROVE  Opposite(o, t) \in Point
  BY DEF Opposite, Point

(* A place is a point.                                                     *)
LEMMA PlaceIsPoint ==
  ASSUME NEW o \in Place
  PROVE  o \in Point /\ o.x \in Origins /\ o.y \in Origins
  BY MetaTilesAssumption DEF Place, Point

\* Whichever of its views a check keeps, all of them are in place.
LEMMA RecycledPlaced ==
  ASSUME NEW o \in Place, NEW near, NEW far, NEW k \in {0, 1},
         PlacedAt(near, o), PlacedAt(far, o)
  PROVE  /\ PlacedAt(RecycleX(<<near, far>>, o, k)[1], o)
         /\ PlacedAt(RecycleX(<<near, far>>, o, k)[2], o)
         /\ PlacedAt(RecycleY(<<near, far>>, o, k)[1], o)
         /\ PlacedAt(RecycleY(<<near, far>>, o, k)[2], o)
<1>1. \A i \in {0, 1}, j \in {0, 1} : PlacedAt(MetaTileView(o, i, j), o)
  BY NewViewPlaced
<1>2. /\ PlacedAt(MetaTileView(o, 0, k), o) /\ PlacedAt(MetaTileView(o, 1, k), o)
      /\ PlacedAt(MetaTileView(o, k, 0), o) /\ PlacedAt(MetaTileView(o, k, 1), o)
  BY <1>1
<1> QED  BY <1>2, ZenonT(30) DEF RecycleX, RecycleY, Recycle

-----------------------------------------------------------------------------
(* Every pan leaves every view where its meta tile is.                     *)

PlaceInv ==
  /\ origin \in Place
  /\ \A view \in {bottomLeft, bottomRight, topLeft, topRight} : PlacedAt(view, origin)

(* pan: keeps the views in place.                                          *)
LEMMA PanPlaces ==
  ASSUME PlaceInv, NEW t \in Pans, InBounds(Opposite(origin, t)), Pan(t)
  PROVE  PlaceInv'
<1>1. t \in Point /\ origin \in Point
  BY MetaTilesAssumption, PlaceIsPoint DEF PlaceInv, Point
<1>2. origin' = Opposite(origin, t) /\ origin' \in Place
  BY <1>1 DEF Pan, Opposite, InBounds, Place
<1> DEFINE o == Opposite(origin, t)
           bottom == RecycleX(<<Moved(bottomLeft, t), Moved(bottomRight, t)>>, o, 0)
           top == RecycleX(<<Moved(topLeft, t), Moved(topRight, t)>>, o, 1)
           lefts == RecycleY(<<bottom[1], top[1]>>, o, 0)
           rights == RecycleY(<<bottom[2], top[2]>>, o, 1)
<1>3. \A view \in {bottomLeft, bottomRight, topLeft, topRight} : PlacedAt(Moved(view, t), o)
  BY <1>1, MovedPlaced DEF PlaceInv
<1>4. o \in Place
  BY <1>2
<1> HIDE DEF o
<1>5. PlacedAt(bottom[1], o) /\ PlacedAt(bottom[2], o)
  BY <1>3, <1>4, RecycledPlaced
<1>6. PlacedAt(top[1], o) /\ PlacedAt(top[2], o)
  BY <1>3, <1>4, RecycledPlaced
<1> HIDE DEF bottom, top
<1>7. PlacedAt(lefts[1], o) /\ PlacedAt(lefts[2], o)
  BY <1>4, <1>5, <1>6, RecycledPlaced
<1>8. PlacedAt(rights[1], o) /\ PlacedAt(rights[2], o)
  BY <1>4, <1>5, <1>6, RecycledPlaced
<1>9. /\ bottomLeft' = lefts[1] /\ topLeft' = lefts[2]
      /\ bottomRight' = rights[1] /\ topRight' = rights[2]
  BY <1>2 DEF Pan, bottom, top, o
<1> HIDE DEF lefts, rights
<1>10. origin' = o
  BY <1>2 DEF o
<1> QED  BY <1>2, <1>7, <1>8, <1>9, <1>10 DEF PlaceInv

(* A zoom that ends puts all four views in place.                          *)
LEMMA RegeneratePlaces ==
  ASSUME NEW o \in Place, origin' = o, RegenerateMetaTileViews(o)
  PROVE  PlaceInv'
<1>1. \A i \in {0, 1}, j \in {0, 1} : PlacedAt(MetaTileView(o, i, j), o)
  BY NewViewPlaced
<1>2. \A view \in {bottomLeft', bottomRight', topLeft', topRight'} : PlacedAt(view, o)
  BY <1>1 DEF RegenerateMetaTileViews
<1> QED  BY <1>2 DEF PlaceInv

(* A view in place is one the property calls so.                           *)
LEMMA PlacedInPlace ==
  ASSUME PlaceInv, NEW view \in {bottomLeft, bottomRight, topLeft, topRight}
  PROVE  InPlace(view)
<1> DEFINE mc == MetaSize * view.column
           mr == MetaSize * view.row
<1>1. /\ MetaSize \in Int /\ Rounding \in Int /\ origin.x \in Int /\ origin.y \in Int
      /\ view.column \in Int /\ view.row \in Int /\ view.x \in Int /\ view.y \in Int
  BY MetaTilesAssumption, PlaceIsPoint DEF PlaceInv, PlacedAt, Point
<1>2. mc \in Int /\ mr \in Int
  BY <1>1
<1>3. /\ mc - origin.x - Rounding <= view.x /\ view.x <= mc - origin.x + Rounding
      /\ mr - origin.y - Rounding <= view.y /\ view.y <= mr - origin.y + Rounding
  BY DEF PlaceInv, PlacedAt
<1> HIDE DEF mc, mr
<1>4. /\ view.x - (mc - origin.x) \in -Rounding..Rounding
      /\ view.y - (mr - origin.y) \in -Rounding..Rounding
  BY <1>1, <1>2, <1>3
<1> QED  BY <1>4 DEF InPlace, mc, mr

(* After any number of pans and zooms, in any direction, each view shows   *)
(* the map at the place of its meta tile, off by no more than the rounding *)
(* of one float (OSPMapView pan: and zoom:).                               *)
THEOREM PlaceCorrect == Spec => []ViewsInPlace
<1>1. Init => PlaceInv
  <2> SUFFICES ASSUME Init PROVE PlaceInv
    OBVIOUS
  <2>1. origin \in Place
    BY DEF Init, Place
  <2>2. \A i \in {0, 1}, j \in {0, 1} : PlacedAt(MetaTileView(origin, i, j), origin)
    BY <2>1, NewViewPlaced
  <2> QED  BY <2>1, <2>2 DEF Init, PlaceInv
<1>2. PlaceInv /\ [Next]_vars => PlaceInv'
  <2> SUFFICES ASSUME PlaceInv, [Next]_vars PROVE PlaceInv'
    OBVIOUS
  <2>1. ASSUME NEW t \in Pans, InBounds([x |-> origin.x - t.x, y |-> origin.y - t.y]), Pan(t)
        PROVE  PlaceInv'
    BY <2>1, PanPlaces DEF Opposite
  <2>2. ASSUME NEW x \in Origins, NEW y \in Origins, ZoomEnded([x |-> x, y |-> y])
        PROVE  PlaceInv'
    <3>1. [x |-> x, y |-> y] \in Place
      BY DEF Place
    <3> QED  BY <2>2, <3>1, RegeneratePlaces DEF ZoomEnded
  <2>3. CASE UNCHANGED vars
    BY <2>3 DEF vars, views, PlaceInv
  <2> QED  BY <2>1, <2>2, <2>3 DEF Next
<1>3. PlaceInv => ViewsInPlace
  <2> SUFFICES ASSUME PlaceInv PROVE ViewsInPlace
    OBVIOUS
  <2>1. /\ InPlace(bottomLeft) /\ InPlace(bottomRight)
        /\ InPlace(topLeft) /\ InPlace(topRight)
    BY PlacedInPlace
  <2>2. /\ views[1] = bottomLeft /\ views[2] = bottomRight
        /\ views[3] = topLeft /\ views[4] = topRight
    BY DEF views
  <2>3. \A i \in 1..4 : i = 1 \/ i = 2 \/ i = 3 \/ i = 4
    OBVIOUS
  <2> QED  BY <2>1, <2>2, <2>3 DEF ViewsInPlace
<1> QED  BY <1>1, <1>2, <1>3, PTL DEF Spec

-----------------------------------------------------------------------------
(* Pans along the x axis, east and north of the world's origin, of a view  *)
(* no larger than a meta tile: the four views stay a grid that covers the  *)
(* bounds.                                                                 *)

\* A finger does not cross the whole view from one event to the next.
SidewaysPans ==
  /\ Origins \subseteq Nat
  /\ Width <= MetaSize /\ Height <= MetaSize
  /\ \A t \in Pans : t.y = 0 /\ t.x + 2 * Rounding < Width /\ 2 * Rounding - t.x < Width

\* Two views of a row that cover the width.
Row(near, far, row, y) ==
  /\ near.column <= far.column /\ far.column <= near.column + 1
  /\ near.row = row /\ far.row = row
  /\ near.y = y /\ far.y = y
  /\ near.x <= 0 /\ MaxX(far) >= Width
  /\ near.x < far.x

\* Two views of a column, one above the other.
SameX(a, b) == a.x = b.x /\ a.column = b.column

(* The sizes, and a place east and north of the origin of the world.       *)
LEMMA Sizes ==
  ASSUME Origins \subseteq Nat, NEW o \in Place
  PROVE  /\ o.x \in Origins /\ o.x \in Int /\ o.x >= 0
         /\ o.y \in Origins /\ o.y \in Int /\ o.y >= 0
         /\ MetaSize \in Nat \ {0} /\ Width \in Nat \ {0} /\ Height \in Nat \ {0}
         /\ Rounding \in Nat
<1>1. /\ MetaSize \in Nat \ {0} /\ Width \in Nat \ {0} /\ Height \in Nat \ {0}
      /\ Rounding \in Nat
  BY MetaTilesAssumption
<1>2. o.x \in Origins /\ o.y \in Origins
  BY DEF Place
<1>3. o.x \in Nat /\ o.y \in Nat
  BY <1>2
<1> QED  BY <1>1, <1>2, <1>3

(* The check of a pair of views keeps a row that covers the width.         *)
LEMMA RecycleXKeepsRow ==
  ASSUME SidewaysPans, NEW o \in Place, NEW k \in {0, 1}, NEW row, NEW y,
         row = MetaTile(o.y) + k, y = MetaSize * k - MetaTilePosition(o.y),
         NEW near, NEW far, PlacedAt(near, o), PlacedAt(far, o),
         near.column <= far.column, far.column <= near.column + 1,
         near.row = row, far.row = row, near.y = y, far.y = y, near.x < far.x,
         near.x + 2 * Rounding < Width, MaxX(far) > 2 * Rounding,
         NEW p, p = RecycleX(<<near, far>>, o, k)
  PROVE  PlacedAt(p[1], o) /\ PlacedAt(p[2], o) /\ Row(p[1], p[2], row, y)
<1>1. PlacedAt(p[1], o) /\ PlacedAt(p[2], o)
  BY RecycledPlaced
<1> DEFINE mt == MetaTile(o.x)
           pos == MetaTilePosition(o.x)
           f == RoundToFloat(o.x)
           w == MetaTileView(o, 0, k)
           e == MetaTileView(o, 1, k)
<1>2. /\ o.x \in Origins /\ o.x \in Int /\ o.x >= 0 /\ Rounding \in Nat
      /\ MetaSize \in Nat \ {0} /\ Width \in Nat \ {0} /\ Width <= MetaSize
  BY Sizes DEF SidewaysPans
<1>3. /\ mt \in Int /\ f \in Int /\ pos = f - MetaSize * mt
      /\ pos \in Int /\ 0 <= pos /\ pos < MetaSize
      /\ o.x - Rounding <= f /\ f <= o.x + Rounding
  BY <1>2, MetaTileInt, MetaTileBounds, FloatError
<1>4. /\ w.column = mt + 0 /\ w.row = row /\ w.x = MetaSize * 0 - pos /\ w.y = y
      /\ e.column = mt + 1 /\ e.row = row /\ e.x = MetaSize * 1 - pos /\ e.y = y
  BY NewViewPlaced
<1>5. /\ near.x \in Int /\ far.x \in Int /\ near.column \in Int /\ far.column \in Int
      /\ MetaSize * near.column - o.x - Rounding <= near.x
      /\ near.x <= MetaSize * near.column - o.x + Rounding
      /\ MetaSize * far.column - o.x - Rounding <= far.x
      /\ far.x <= MetaSize * far.column - o.x + Rounding
  BY DEF PlacedAt
<1> HIDE DEF mt, pos, f, w, e
<1>6. w.column = mt /\ w.x = -pos /\ e.column = mt + 1 /\ e.x = MetaSize - pos
  BY <1>2, <1>3, <1>4
<1> DEFINE mm == MetaSize * mt
           mn == MetaSize * near.column
           mf == MetaSize * far.column
<1>7. mm \in Int /\ mn \in Int /\ mf \in Int
  BY <1>2, <1>3, <1>5, Multiples
<1>8. CASE near.x > 0
  <2>1. p[1] = w /\ p[2] = near
    BY <1>8 DEF RecycleX, Recycle, w
  <2>2. mn < mm + MetaSize + MetaSize /\ mm < mn + MetaSize
    <3>1. /\ mn - o.x - Rounding <= near.x /\ near.x <= mn - o.x + Rounding
          /\ pos = f - mm
      BY <1>3, <1>5
    <3> HIDE DEF mm, mn, mf
    <3> QED  BY <1>2, <1>3, <1>5, <1>7, <1>8, <3>1
  <2>3. near.column <= mt + 1 /\ mt <= near.column
    <3>1. MetaSize * (mt + 1) = mm + MetaSize
      BY <1>2, <1>3, Multiples
    <3>2. MetaSize * near.column < MetaSize * (mt + 1) + MetaSize
      BY <2>2, <3>1
    <3>3. MetaSize * mt < MetaSize * near.column + MetaSize
      BY <2>2
    <3> QED  BY <1>2, <1>3, <1>5, <3>2, <3>3, MultiplesInOrder
  <2>4. p[1].x <= 0 /\ MaxX(p[2]) >= Width /\ p[1].x < p[2].x
    BY <1>2, <1>3, <1>5, <1>6, <1>8, <2>1 DEF MaxX
  <2>5. p[1].column <= p[2].column /\ p[2].column <= p[1].column + 1
    BY <1>6, <2>1, <2>3
  <2>6. p[1].row = row /\ p[2].row = row /\ p[1].y = y /\ p[2].y = y
    BY <1>4, <2>1
  <2> QED  BY <1>1, <2>4, <2>5, <2>6 DEF Row
<1>9. CASE ~(near.x > 0) /\ MaxX(far) < Width
  <2>1. p[1] = far /\ p[2] = e
    BY <1>9 DEF RecycleX, Recycle, e
  <2>2. mf < mm + MetaSize + MetaSize /\ mm < mf + MetaSize
    <3>1. /\ mf - o.x - Rounding <= far.x /\ far.x <= mf - o.x + Rounding
          /\ pos = f - mm /\ far.x + MetaSize < Width /\ far.x + MetaSize > 2 * Rounding
      BY <1>3, <1>5, <1>9 DEF MaxX
    <3> HIDE DEF mm, mn, mf
    <3> QED  BY <1>2, <1>3, <1>5, <1>7, <3>1
  <2>3. far.column <= mt + 1 /\ mt <= far.column
    <3>1. MetaSize * (mt + 1) = mm + MetaSize
      BY <1>2, <1>3, Multiples
    <3>2. MetaSize * far.column < MetaSize * (mt + 1) + MetaSize
      BY <2>2, <3>1
    <3>3. MetaSize * mt < MetaSize * far.column + MetaSize
      BY <2>2
    <3> QED  BY <1>2, <1>3, <1>5, <3>2, <3>3, MultiplesInOrder
  <2>4. p[1].x <= 0 /\ MaxX(p[2]) >= Width /\ p[1].x < p[2].x
    BY <1>2, <1>3, <1>5, <1>6, <1>9, <2>1 DEF MaxX
  <2>5. p[1].column <= p[2].column /\ p[2].column <= p[1].column + 1
    BY <1>3, <1>5, <1>6, <2>1, <2>3
  <2>6. p[1].row = row /\ p[2].row = row /\ p[1].y = y /\ p[2].y = y
    BY <1>4, <2>1
  <2> QED  BY <1>1, <2>4, <2>5, <2>6 DEF Row
<1>10. CASE ~(near.x > 0) /\ ~(MaxX(far) < Width)
  <2>1. p[1] = near /\ p[2] = far
    BY <1>10 DEF RecycleX, Recycle
  <2>2. near.x <= 0 /\ MaxX(far) >= Width
    BY <1>2, <1>5, <1>10 DEF MaxX
  <2> QED  BY <1>1, <2>1, <2>2 DEF Row
<1> QED  BY <1>8, <1>9, <1>10

(* The checks of the two rows find the same and do the same.               *)
LEMMA RecycleXSame ==
  ASSUME NEW o, NEW nearB, NEW farB, NEW nearT, NEW farT,
         SameX(nearB, nearT), SameX(farB, farT),
         NEW b, b = RecycleX(<<nearB, farB>>, o, 0),
         NEW u, u = RecycleX(<<nearT, farT>>, o, 1)
  PROVE  SameX(b[1], u[1]) /\ SameX(b[2], u[2])
<1>1. /\ SameX(MetaTileView(o, 0, 0), MetaTileView(o, 0, 1))
      /\ SameX(MetaTileView(o, 1, 0), MetaTileView(o, 1, 1))
  BY DEF SameX, MetaTileView
<1>2. nearB.x = nearT.x /\ MaxX(farB) = MaxX(farT)
  BY DEF SameX, MaxX
<1> QED  BY <1>1, <1>2 DEF RecycleX, Recycle

\* Two views of a column that starts with the row of the map area stay.
LEMMA RecycleYKeepsColumn ==
  ASSUME SidewaysPans, NEW o \in Place, NEW k \in {0, 1}, NEW near, NEW far,
         near.y = -MetaTilePosition(o.y), far.y = MetaSize - MetaTilePosition(o.y)
  PROVE  RecycleY(<<near, far>>, o, k) = <<near, far>>
<1> DEFINE pos == MetaTilePosition(o.y)
<1>1. /\ o.y \in Origins /\ o.y >= 0
      /\ MetaSize \in Nat \ {0} /\ Height \in Nat \ {0} /\ Height <= MetaSize
  BY Sizes DEF SidewaysPans
<1>2. pos \in Int /\ 0 <= pos /\ pos < MetaSize
  BY <1>1, MetaTileBounds
<1> HIDE DEF pos
<1>3. near.y = -pos /\ far.y = MetaSize - pos
  BY DEF pos
<1>4. ~(near.y > 0) /\ ~(MaxY(far) < Height)
  BY <1>1, <1>2, <1>3 DEF MaxY
<1> QED  BY <1>4 DEF RecycleY, Recycle

\* The four views: a grid that starts with the row of the map area and covers
\* the bounds.
SquareInv ==
  /\ PlaceInv
  /\ Row(bottomLeft, bottomRight, MetaTile(origin.y), -MetaTilePosition(origin.y))
  /\ Row(topLeft, topRight, MetaTile(origin.y) + 1, MetaSize - MetaTilePosition(origin.y))
  /\ SameX(bottomLeft, topLeft) /\ SameX(bottomRight, topRight)

(* New views are a grid.                                                   *)
LEMMA NewViewsAreSquare ==
  ASSUME SidewaysPans, NEW o \in Place
  PROVE  /\ Row(MetaTileView(o, 0, 0), MetaTileView(o, 1, 0),
                MetaTile(o.y), -MetaTilePosition(o.y))
         /\ Row(MetaTileView(o, 0, 1), MetaTileView(o, 1, 1),
                MetaTile(o.y) + 1, MetaSize - MetaTilePosition(o.y))
         /\ SameX(MetaTileView(o, 0, 0), MetaTileView(o, 0, 1))
         /\ SameX(MetaTileView(o, 1, 0), MetaTileView(o, 1, 1))
<1> DEFINE c == MetaTile(o.x)
           r == MetaTile(o.y)
           px == MetaTilePosition(o.x)
           py == MetaTilePosition(o.y)
<1>1. /\ o.x \in Origins /\ o.y \in Origins /\ o.x >= 0 /\ o.y >= 0
      /\ MetaSize \in Nat \ {0} /\ Width \in Nat /\ Width <= MetaSize
  BY Sizes DEF SidewaysPans
<1>2. /\ c \in Int /\ r \in Int /\ px \in Int /\ py \in Int
      /\ 0 <= px /\ px < MetaSize
  BY <1>1, MetaTileInt, MetaTileBounds
<1>3. \A i \in {0, 1}, j \in {0, 1} :
        /\ MetaTileView(o, i, j).column = c + i
        /\ MetaTileView(o, i, j).row = r + j
        /\ MetaTileView(o, i, j).x = MetaSize * i - px
        /\ MetaTileView(o, i, j).y = MetaSize * j - py
  BY NewViewPlaced
<1> HIDE DEF c, r, px, py
<1>4. /\ c + 0 = c /\ r + 0 = r
      /\ MetaSize * 0 - px = -px /\ MetaSize * 1 - px = MetaSize - px
      /\ MetaSize * 0 - py = -py /\ MetaSize * 1 - py = MetaSize - py
  BY <1>1, <1>2
<1>5. ASSUME NEW j \in {0, 1}
      PROVE  Row(MetaTileView(o, 0, j), MetaTileView(o, 1, j), r + j, MetaSize * j - py)
  <2> DEFINE near == MetaTileView(o, 0, j)
             far == MetaTileView(o, 1, j)
  <2>1. /\ near.column = c /\ near.row = r + j /\ near.x = -px /\ near.y = MetaSize * j - py
        /\ far.column = c + 1 /\ far.row = r + j /\ far.x = MetaSize - px
        /\ far.y = MetaSize * j - py
    BY <1>3, <1>4
  <2> HIDE DEF near, far
  <2>2. near.x <= 0 /\ MaxX(far) >= Width /\ near.x < far.x
    BY <1>1, <1>2, <2>1 DEF MaxX
  <2>3. near.column <= far.column /\ far.column <= near.column + 1
    BY <1>2, <2>1
  <2>4. Row(near, far, r + j, MetaSize * j - py)
    BY <2>1, <2>2, <2>3 DEF Row
  <2> QED  BY <2>4 DEF near, far
<1>6. /\ Row(MetaTileView(o, 0, 0), MetaTileView(o, 1, 0), r, -py)
      /\ Row(MetaTileView(o, 0, 1), MetaTileView(o, 1, 1), r + 1, MetaSize - py)
  <2>1. /\ Row(MetaTileView(o, 0, 0), MetaTileView(o, 1, 0), r + 0, MetaSize * 0 - py)
        /\ Row(MetaTileView(o, 0, 1), MetaTileView(o, 1, 1), r + 1, MetaSize * 1 - py)
    BY <1>5
  <2> QED  BY <1>4, <2>1
<1>7. /\ SameX(MetaTileView(o, 0, 0), MetaTileView(o, 0, 1))
      /\ SameX(MetaTileView(o, 1, 0), MetaTileView(o, 1, 1))
  BY DEF SameX, MetaTileView
<1> QED  BY <1>6, <1>7 DEF r, py

(* Panning along the x axis keeps the grid.                                *)
LEMMA PanKeepsSquare ==
  ASSUME SidewaysPans, SquareInv, NEW t \in Pans, InBounds(Opposite(origin, t)), Pan(t)
  PROVE  SquareInv'
<1> DEFINE o == Opposite(origin, t)
           bl == Moved(bottomLeft, t)
           br == Moved(bottomRight, t)
           tl == Moved(topLeft, t)
           tr == Moved(topRight, t)
           bottom == RecycleX(<<bl, br>>, o, 0)
           top == RecycleX(<<tl, tr>>, o, 1)
           lefts == RecycleY(<<bottom[1], top[1]>>, o, 0)
           rights == RecycleY(<<bottom[2], top[2]>>, o, 1)
<1>1. /\ t \in Point /\ t.y = 0 /\ t.x \in Int
      /\ t.x + 2 * Rounding < Width /\ 2 * Rounding - t.x < Width
  BY MetaTilesAssumption DEF SidewaysPans, Point
<1>2. origin \in Place /\ origin \in Point /\ origin.x \in Int /\ origin.y \in Int
  BY PlaceIsPoint DEF SquareInv, PlaceInv, Point
<1>3. /\ origin' = o /\ o \in Place /\ o.y = origin.y
  BY <1>1, <1>2 DEF Pan, InBounds, Opposite, Place
<1>4. PlaceInv'
  BY PanPlaces DEF SquareInv
<1>5. /\ PlacedAt(bl, o) /\ bl.column = bottomLeft.column /\ bl.row = bottomLeft.row
      /\ PlacedAt(br, o) /\ br.column = bottomRight.column /\ br.row = bottomRight.row
      /\ PlacedAt(tl, o) /\ tl.column = topLeft.column /\ tl.row = topLeft.row
      /\ PlacedAt(tr, o) /\ tr.column = topRight.column /\ tr.row = topRight.row
  BY <1>1, <1>2, MovedPlaced DEF SquareInv, PlaceInv
<1>6. /\ bottomLeft.x \in Int /\ bottomRight.x \in Int /\ bottomLeft.y \in Int
      /\ topLeft.x \in Int /\ topRight.x \in Int /\ bottomRight.y \in Int
      /\ topLeft.y \in Int /\ topRight.y \in Int
  BY DEF SquareInv, PlaceInv, PlacedAt
<1>7. /\ bl.x = bottomLeft.x + t.x /\ br.x = bottomRight.x + t.x
      /\ tl.x = topLeft.x + t.x /\ tr.x = topRight.x + t.x
      /\ bl.y = bottomLeft.y /\ br.y = bottomRight.y
      /\ tl.y = topLeft.y /\ tr.y = topRight.y
  BY <1>1, <1>6 DEF Moved
<1> DEFINE r == MetaTile(o.y)
           y == MetaTilePosition(o.y)
<1>8. /\ r \in Int /\ y \in Int /\ MetaSize \in Int
      /\ Width \in Int /\ Rounding \in Int
  BY <1>3, Sizes, MetaTileInt, MetaTileBounds DEF SidewaysPans
<1>9. r + 0 = r /\ MetaSize * 0 - y = -y /\ MetaSize * 1 - y = MetaSize - y
  BY <1>8
<1>10. /\ Row(bottomLeft, bottomRight, r + 0, MetaSize * 0 - y)
       /\ Row(topLeft, topRight, r + 1, MetaSize * 1 - y)
       /\ SameX(bottomLeft, topLeft) /\ SameX(bottomRight, topRight)
  BY <1>3, <1>9 DEF SquareInv
<1> HIDE DEF o, bl, br, tl, tr, r, y
<1>11. SameX(bl, tl) /\ SameX(br, tr)
  BY <1>5, <1>7, <1>10 DEF SameX
<1>12. /\ bl.column <= br.column /\ br.column <= bl.column + 1 /\ bl.x < br.x
       /\ bl.row = r + 0 /\ br.row = r + 0
       /\ bl.y = MetaSize * 0 - y /\ br.y = MetaSize * 0 - y
       /\ tl.column <= tr.column /\ tr.column <= tl.column + 1 /\ tl.x < tr.x
       /\ tl.row = r + 1 /\ tr.row = r + 1
       /\ tl.y = MetaSize * 1 - y /\ tr.y = MetaSize * 1 - y
  BY <1>1, <1>5, <1>6, <1>7, <1>10 DEF Row
<1>13. /\ bl.x + 2 * Rounding < Width /\ MaxX(br) > 2 * Rounding
       /\ tl.x + 2 * Rounding < Width /\ MaxX(tr) > 2 * Rounding
  <2>1. /\ bottomLeft.x <= 0 /\ bottomRight.x + MetaSize >= Width
        /\ topLeft.x <= 0 /\ topRight.x + MetaSize >= Width
    BY <1>10 DEF Row, MaxX
  <2> QED  BY <1>1, <1>6, <1>7, <1>8, <2>1 DEF MaxX
<1>14. /\ PlacedAt(bottom[1], o) /\ PlacedAt(bottom[2], o)
       /\ Row(bottom[1], bottom[2], r + 0, MetaSize * 0 - y)
  <2>1. 0 \in {0, 1} /\ r + 0 = MetaTile(o.y) + 0
           /\ MetaSize * 0 - y = MetaSize * 0 - MetaTilePosition(o.y)
    BY DEF r, y
  <2> HIDE DEF bottom
  <2>2. bottom = RecycleX(<<bl, br>>, o, 0)
    BY DEF bottom
  <2> QED  BY <1>3, <1>5, <1>12, <1>13, <2>1, <2>2, RecycleXKeepsRow
<1>15. /\ PlacedAt(top[1], o) /\ PlacedAt(top[2], o)
       /\ Row(top[1], top[2], r + 1, MetaSize * 1 - y)
  <2>1. 1 \in {0, 1} /\ r + 1 = MetaTile(o.y) + 1
           /\ MetaSize * 1 - y = MetaSize * 1 - MetaTilePosition(o.y)
    BY DEF r, y
  <2> HIDE DEF top
  <2>2. top = RecycleX(<<tl, tr>>, o, 1)
    BY DEF top
  <2> QED  BY <1>3, <1>5, <1>12, <1>13, <2>1, <2>2, RecycleXKeepsRow
<1>16. SameX(bottom[1], top[1]) /\ SameX(bottom[2], top[2])
  BY <1>11, RecycleXSame
<1> HIDE DEF bottom, top
<1>17. lefts = <<bottom[1], top[1]>> /\ rights = <<bottom[2], top[2]>>
  <2>1. /\ bottom[1].y = -MetaTilePosition(o.y) /\ bottom[2].y = -MetaTilePosition(o.y)
        /\ top[1].y = MetaSize - MetaTilePosition(o.y)
        /\ top[2].y = MetaSize - MetaTilePosition(o.y)
    BY <1>9, <1>14, <1>15 DEF Row, y
  <2> QED  BY <1>3, <2>1, RecycleYKeepsColumn
<1>18. /\ bottomLeft' = lefts[1] /\ topLeft' = lefts[2]
       /\ bottomRight' = rights[1] /\ topRight' = rights[2]
  BY <1>3 DEF Pan, o, bl, br, tl, tr, bottom, top
<1>19. /\ bottomLeft' = bottom[1] /\ topLeft' = top[1]
       /\ bottomRight' = bottom[2] /\ topRight' = top[2]
  BY <1>17, <1>18
<1>20. MetaTile(origin.y)' = r /\ MetaTilePosition(origin.y)' = y
  BY <1>3 DEF r, y
<1> QED  BY <1>4, <1>9, <1>14, <1>15, <1>16, <1>19, <1>20 DEF SquareInv

(* What two views of neighbouring columns leave between them.              *)
LEMMA CrackIsNarrow ==
  ASSUME NEW o \in Point, NEW near, NEW far, PlacedAt(near, o), PlacedAt(far, o)
  PROVE  /\ far.column <= near.column + 1 => far.x - MaxX(near) <= 2 * Rounding
         /\ far.row <= near.row + 1 => far.y - MaxY(near) <= 2 * Rounding
<1>1. /\ near.x \in Int /\ far.x \in Int /\ near.column \in Int /\ far.column \in Int
      /\ near.y \in Int /\ far.y \in Int /\ near.row \in Int /\ far.row \in Int
      /\ o.x \in Int /\ o.y \in Int /\ MetaSize \in Nat \ {0} /\ Rounding \in Nat
  BY MetaTilesAssumption DEF PlacedAt, Point
<1>2. ASSUME NEW a \in Int, NEW b \in Int, b <= a + 1
      PROVE  MetaSize * b <= MetaSize * a + MetaSize
  BY <1>1, <1>2, SMT
<1> DEFINE cn == MetaSize * near.column
           cf == MetaSize * far.column
           rn == MetaSize * near.row
           rf == MetaSize * far.row
<1>3. cn \in Int /\ cf \in Int /\ rn \in Int /\ rf \in Int
  BY <1>1
<1>4. /\ cn - o.x - Rounding <= near.x /\ far.x <= cf - o.x + Rounding
      /\ rn - o.y - Rounding <= near.y /\ far.y <= rf - o.y + Rounding
  BY DEF PlacedAt
<1>5. /\ far.column <= near.column + 1 => cf <= cn + MetaSize
      /\ far.row <= near.row + 1 => rf <= rn + MetaSize
  BY <1>1, <1>2
<1> HIDE DEF cn, cf, rn, rf
<1>6. /\ far.column <= near.column + 1 => far.x - (near.x + MetaSize) <= 2 * Rounding
      /\ far.row <= near.row + 1 => far.y - (near.y + MetaSize) <= 2 * Rounding
  BY <1>1, <1>3, <1>4, <1>5
<1> QED  BY <1>6 DEF MaxX, MaxY

(* The views by their number.                                              *)
LEMMA ViewNumbers ==
  /\ views[1] = bottomLeft /\ views[2] = bottomRight
  /\ views[3] = topLeft /\ views[4] = topRight
  /\ 1 \in 1..4 /\ 2 \in 1..4 /\ 3 \in 1..4 /\ 4 \in 1..4
  BY DEF views

(* A grid is what the properties ask of the views.                         *)
LEMMA SquareImplies ==
  ASSUME SidewaysPans, SquareInv
  PROVE  ViewsInOrder /\ NoneSkipped /\ OnlyCracksBlank
<1> DEFINE r == MetaTile(origin.y)
           y0 == MetaTilePosition(origin.y)
<1>1. /\ MetaSize \in Nat \ {0} /\ Width \in Nat /\ Height \in Nat
      /\ Width <= MetaSize /\ Height <= MetaSize
      /\ origin \in Point /\ r \in Int /\ y0 \in Int /\ 0 <= y0 /\ y0 < MetaSize
  BY Sizes, PlaceIsPoint, MetaTileInt, MetaTileBounds DEF SidewaysPans, SquareInv, PlaceInv
<1>2. /\ bottomLeft.x \in Int /\ bottomRight.x \in Int
      /\ bottomLeft.column \in Int /\ bottomRight.column \in Int
      /\ PlacedAt(bottomLeft, origin) /\ PlacedAt(bottomRight, origin)
  BY DEF SquareInv, PlaceInv, PlacedAt
<1>3. /\ bottomLeft.row = r /\ bottomRight.row = r /\ topLeft.row = r + 1 /\ topRight.row = r + 1
      /\ bottomLeft.y = -y0 /\ bottomRight.y = -y0
      /\ topLeft.y = MetaSize - y0 /\ topRight.y = MetaSize - y0
      /\ topLeft.x = bottomLeft.x /\ topRight.x = bottomRight.x
      /\ topLeft.column = bottomLeft.column /\ topRight.column = bottomRight.column
  BY DEF SquareInv, Row, SameX
<1>4. /\ bottomLeft.column <= bottomRight.column
      /\ bottomRight.column <= bottomLeft.column + 1
      /\ bottomLeft.x <= 0 /\ bottomRight.x + MetaSize >= Width
      /\ bottomLeft.x < bottomRight.x
  BY DEF SquareInv, Row, MaxX
<1>5. bottomRight.x - MaxX(bottomLeft) <= 2 * Rounding
  BY <1>1, <1>2, <1>4, CrackIsNarrow
<1> HIDE DEF r, y0
<1>6. ViewsInOrder
  BY <1>1, <1>2, <1>3, <1>4 DEF ViewsInOrder
<1>7. NoneSkipped
  <2>1. /\ bottomRight.column - bottomLeft.column \in {0, 1}
        /\ topLeft.row - bottomLeft.row \in {0, 1}
    BY <1>1, <1>2, <1>3, <1>4
  <2> QED  BY <1>3, <2>1 DEF NoneSkipped
<1>8. OnlyCracksBlank
  <2> SUFFICES ASSUME NEW x \in 0..(Width - 1), NEW y \in 0..(Height - 1)
               PROVE  \/ \E i \in 1..4 : Shows(views[i], x, y)
                      \/ Crack(MaxX(bottomLeft), bottomRight.x, x)
    BY ViewNumbers DEF OnlyCracksBlank
  <2>1. \/ Shows(bottomLeft, x, y) \/ Shows(bottomRight, x, y)
        \/ Shows(topLeft, x, y) \/ Shows(topRight, x, y)
        \/ MaxX(bottomLeft) <= x /\ x < bottomRight.x
    BY <1>1, <1>2, <1>3, <1>4 DEF Shows, MaxX, MaxY
  <2> QED  BY <1>5, <2>1, ViewNumbers DEF Crack
<1> QED  BY <1>6, <1>7, <1>8

(* The views are a grid for ever.                                          *)
LEMMA SquareInvariance ==
  ASSUME SidewaysPans
  PROVE  Spec => []SquareInv
<1>1. Init => SquareInv
  <2> SUFFICES ASSUME Init PROVE SquareInv
    OBVIOUS
  <2>1. origin \in Place
    BY DEF Init, Place
  <2>2. \A i \in {0, 1}, j \in {0, 1} : PlacedAt(MetaTileView(origin, i, j), origin)
    BY <2>1, NewViewPlaced
  <2>3. PlaceInv
    BY <2>1, <2>2 DEF Init, PlaceInv
  <2> QED  BY <2>1, <2>3, NewViewsAreSquare DEF Init, SquareInv
<1>2. SquareInv /\ [Next]_vars => SquareInv'
  <2> SUFFICES ASSUME SquareInv, [Next]_vars PROVE SquareInv'
    OBVIOUS
  <2>1. ASSUME NEW t \in Pans, InBounds([x |-> origin.x - t.x, y |-> origin.y - t.y]), Pan(t)
        PROVE  SquareInv'
    BY <2>1, PanKeepsSquare DEF Opposite
  <2>2. ASSUME NEW x \in Origins, NEW y \in Origins, ZoomEnded([x |-> x, y |-> y])
        PROVE  SquareInv'
    <3> DEFINE o == [x |-> x, y |-> y]
    <3>1. o \in Place
      BY DEF Place
    <3>2. origin' = o /\ RegenerateMetaTileViews(o)
      BY <2>2 DEF ZoomEnded
    <3> HIDE DEF o
    <3>3. PlaceInv'
      BY <3>1, <3>2, RegeneratePlaces
    <3> QED  BY <3>1, <3>2, <3>3, NewViewsAreSquare DEF RegenerateMetaTileViews, SquareInv
  <2>3. CASE UNCHANGED vars
    <3>1. PlaceInv'
      BY <2>3 DEF vars, views, SquareInv, PlaceInv
    <3>2. /\ MetaTile(origin.y)' = MetaTile(origin.y)
          /\ MetaTilePosition(origin.y)' = MetaTilePosition(origin.y)
      BY <2>3 DEF vars
    <3> QED  BY <2>3, <3>1, <3>2 DEF vars, views, SquareInv
  <2> QED  BY <2>1, <2>2, <2>3 DEF Next
<1> QED  BY <1>1, <1>2, PTL DEF Spec

(* Panned along the x axis the views stay in the order NSAssert asks for   *)
(* (OSPMapView.m:232-235), for any sizes of views and meta tiles, any pan  *)
(* events shorter than the view and floats of any precision.               *)
THEOREM SidewaysOrder ==
  ASSUME SidewaysPans
  PROVE  Spec => []ViewsInOrder
<1>1. SquareInv => ViewsInOrder
  BY SquareImplies
<1> QED  BY <1>1, SquareInvariance, PTL

(* ... show a grid of meta tiles that skips none ...                       *)
THEOREM SidewaysNeighbours ==
  ASSUME SidewaysPans
  PROVE  Spec => []NoneSkipped
<1>1. SquareInv => NoneSkipped
  BY SquareImplies
<1> QED  BY <1>1, SquareInvariance, PTL

(* ... and leave nothing of the map view blank but a crack as wide as the  *)
(* float is off, twice.                                                    *)
THEOREM SidewaysCoverage ==
  ASSUME SidewaysPans
  PROVE  Spec => []OnlyCracksBlank
<1>1. SquareInv => OnlyCracksBlank
  BY SquareImplies
<1> QED  BY <1>1, SquareInvariance, PTL

-----------------------------------------------------------------------------
(* Pans along the y axis, east and north of the world's origin, of a view  *)
(* no larger than a meta tile: the same, turned around.  The checks of the *)
(* rows come first and find nothing to replace.                            *)

\* A finger does not cross the whole view from one event to the next.
UprightPans ==
  /\ Origins \subseteq Nat
  /\ Height <= MetaSize /\ Width <= MetaSize
  /\ \A t \in Pans : t.x = 0 /\ t.y + 2 * Rounding < Height /\ 2 * Rounding - t.y < Height

\* Two views of a column that cover the height.
Column(near, far, column, x) ==
  /\ near.row <= far.row /\ far.row <= near.row + 1
  /\ near.column = column /\ far.column = column
  /\ near.x = x /\ far.x = x
  /\ near.y <= 0 /\ MaxY(far) >= Height
  /\ near.y < far.y

\* Two views of a row, side by side.
SameY(a, b) == a.y = b.y /\ a.row = b.row

(* The check of a pair of views keeps a column that covers the height.     *)
LEMMA RecycleYKeepsColumnPair ==
  ASSUME UprightPans, NEW o \in Place, NEW k \in {0, 1}, NEW column, NEW x,
         column = MetaTile(o.x) + k, x = MetaSize * k - MetaTilePosition(o.x),
         NEW near, NEW far, PlacedAt(near, o), PlacedAt(far, o),
         near.row <= far.row, far.row <= near.row + 1,
         near.column = column, far.column = column, near.x = x, far.x = x, near.y < far.y,
         near.y + 2 * Rounding < Height, MaxY(far) > 2 * Rounding,
         NEW p, p = RecycleY(<<near, far>>, o, k)
  PROVE  PlacedAt(p[1], o) /\ PlacedAt(p[2], o) /\ Column(p[1], p[2], column, x)
<1>1. PlacedAt(p[1], o) /\ PlacedAt(p[2], o)
  BY RecycledPlaced
<1> DEFINE mt == MetaTile(o.y)
           pos == MetaTilePosition(o.y)
           f == RoundToFloat(o.y)
           w == MetaTileView(o, k, 0)
           e == MetaTileView(o, k, 1)
<1>2. /\ o.y \in Origins /\ o.y \in Int /\ o.y >= 0 /\ Rounding \in Nat
      /\ MetaSize \in Nat \ {0} /\ Height \in Nat \ {0} /\ Height <= MetaSize
  BY Sizes DEF UprightPans
<1>3. /\ mt \in Int /\ f \in Int /\ pos = f - MetaSize * mt
      /\ pos \in Int /\ 0 <= pos /\ pos < MetaSize
      /\ o.y - Rounding <= f /\ f <= o.y + Rounding
  BY <1>2, MetaTileInt, MetaTileBounds, FloatError
<1>4. /\ w.row = mt + 0 /\ w.column = column /\ w.y = MetaSize * 0 - pos /\ w.x = x
      /\ e.row = mt + 1 /\ e.column = column /\ e.y = MetaSize * 1 - pos /\ e.x = x
  BY NewViewPlaced
<1>5. /\ near.y \in Int /\ far.y \in Int /\ near.row \in Int /\ far.row \in Int
      /\ MetaSize * near.row - o.y - Rounding <= near.y
      /\ near.y <= MetaSize * near.row - o.y + Rounding
      /\ MetaSize * far.row - o.y - Rounding <= far.y
      /\ far.y <= MetaSize * far.row - o.y + Rounding
  BY DEF PlacedAt
<1> HIDE DEF mt, pos, f, w, e
<1>6. w.row = mt /\ w.y = -pos /\ e.row = mt + 1 /\ e.y = MetaSize - pos
  BY <1>2, <1>3, <1>4
<1> DEFINE mm == MetaSize * mt
           mn == MetaSize * near.row
           mf == MetaSize * far.row
<1>7. mm \in Int /\ mn \in Int /\ mf \in Int
  BY <1>2, <1>3, <1>5, Multiples
<1>8. CASE near.y > 0
  <2>1. p[1] = w /\ p[2] = near
    BY <1>8 DEF RecycleY, Recycle, w
  <2>2. mn < mm + MetaSize + MetaSize /\ mm < mn + MetaSize
    <3>1. /\ mn - o.y - Rounding <= near.y /\ near.y <= mn - o.y + Rounding
          /\ pos = f - mm
      BY <1>3, <1>5
    <3> HIDE DEF mm, mn, mf
    <3> QED  BY <1>2, <1>3, <1>5, <1>7, <1>8, <3>1
  <2>3. near.row <= mt + 1 /\ mt <= near.row
    <3>1. MetaSize * (mt + 1) = mm + MetaSize
      BY <1>2, <1>3, Multiples
    <3>2. MetaSize * near.row < MetaSize * (mt + 1) + MetaSize
      BY <2>2, <3>1
    <3>3. MetaSize * mt < MetaSize * near.row + MetaSize
      BY <2>2
    <3> QED  BY <1>2, <1>3, <1>5, <3>2, <3>3, MultiplesInOrder
  <2>4. p[1].y <= 0 /\ MaxY(p[2]) >= Height /\ p[1].y < p[2].y
    BY <1>2, <1>3, <1>5, <1>6, <1>8, <2>1 DEF MaxY
  <2>5. p[1].row <= p[2].row /\ p[2].row <= p[1].row + 1
    BY <1>6, <2>1, <2>3
  <2>6. p[1].column = column /\ p[2].column = column /\ p[1].x = x /\ p[2].x = x
    BY <1>4, <2>1
  <2> QED  BY <1>1, <2>4, <2>5, <2>6 DEF Column
<1>9. CASE ~(near.y > 0) /\ MaxY(far) < Height
  <2>1. p[1] = far /\ p[2] = e
    BY <1>9 DEF RecycleY, Recycle, e
  <2>2. mf < mm + MetaSize + MetaSize /\ mm < mf + MetaSize
    <3>1. /\ mf - o.y - Rounding <= far.y /\ far.y <= mf - o.y + Rounding
          /\ pos = f - mm /\ far.y + MetaSize < Height /\ far.y + MetaSize > 2 * Rounding
      BY <1>3, <1>5, <1>9 DEF MaxY
    <3> HIDE DEF mm, mn, mf
    <3> QED  BY <1>2, <1>3, <1>5, <1>7, <3>1
  <2>3. far.row <= mt + 1 /\ mt <= far.row
    <3>1. MetaSize * (mt + 1) = mm + MetaSize
      BY <1>2, <1>3, Multiples
    <3>2. MetaSize * far.row < MetaSize * (mt + 1) + MetaSize
      BY <2>2, <3>1
    <3>3. MetaSize * mt < MetaSize * far.row + MetaSize
      BY <2>2
    <3> QED  BY <1>2, <1>3, <1>5, <3>2, <3>3, MultiplesInOrder
  <2>4. p[1].y <= 0 /\ MaxY(p[2]) >= Height /\ p[1].y < p[2].y
    BY <1>2, <1>3, <1>5, <1>6, <1>9, <2>1 DEF MaxY
  <2>5. p[1].row <= p[2].row /\ p[2].row <= p[1].row + 1
    BY <1>3, <1>5, <1>6, <2>1, <2>3
  <2>6. p[1].column = column /\ p[2].column = column /\ p[1].x = x /\ p[2].x = x
    BY <1>4, <2>1
  <2> QED  BY <1>1, <2>4, <2>5, <2>6 DEF Column
<1>10. CASE ~(near.y > 0) /\ ~(MaxY(far) < Height)
  <2>1. p[1] = near /\ p[2] = far
    BY <1>10 DEF RecycleY, Recycle
  <2>2. near.y <= 0 /\ MaxY(far) >= Height
    BY <1>2, <1>5, <1>10 DEF MaxY
  <2> QED  BY <1>1, <2>1, <2>2 DEF Column
<1> QED  BY <1>8, <1>9, <1>10

(* The checks of the two columns find the same and do the same.            *)
LEMMA RecycleYSame ==
  ASSUME NEW o, NEW nearB, NEW farB, NEW nearT, NEW farT,
         SameY(nearB, nearT), SameY(farB, farT),
         NEW b, b = RecycleY(<<nearB, farB>>, o, 0),
         NEW u, u = RecycleY(<<nearT, farT>>, o, 1)
  PROVE  SameY(b[1], u[1]) /\ SameY(b[2], u[2])
<1>1. /\ SameY(MetaTileView(o, 0, 0), MetaTileView(o, 1, 0))
      /\ SameY(MetaTileView(o, 0, 1), MetaTileView(o, 1, 1))
  BY DEF SameY, MetaTileView
<1>2. nearB.y = nearT.y /\ MaxY(farB) = MaxY(farT)
  BY DEF SameY, MaxY
<1> QED  BY <1>1, <1>2 DEF RecycleY, Recycle

\* Two views of a row that starts with the column of the map area stay.
LEMMA RecycleXKeepsUpright ==
  ASSUME UprightPans, NEW o \in Place, NEW k \in {0, 1}, NEW near, NEW far,
         near.x = -MetaTilePosition(o.x), far.x = MetaSize - MetaTilePosition(o.x)
  PROVE  RecycleX(<<near, far>>, o, k) = <<near, far>>
<1> DEFINE pos == MetaTilePosition(o.x)
<1>1. /\ o.x \in Origins /\ o.x >= 0
      /\ MetaSize \in Nat \ {0} /\ Width \in Nat \ {0} /\ Width <= MetaSize
  BY Sizes DEF UprightPans
<1>2. pos \in Int /\ 0 <= pos /\ pos < MetaSize
  BY <1>1, MetaTileBounds
<1> HIDE DEF pos
<1>3. near.x = -pos /\ far.x = MetaSize - pos
  BY DEF pos
<1>4. ~(near.x > 0) /\ ~(MaxX(far) < Width)
  BY <1>1, <1>2, <1>3 DEF MaxX
<1> QED  BY <1>4 DEF RecycleX, Recycle

\* The four views: a grid that starts with the column of the map area and
\* covers the bounds.
UprightInv ==
  /\ PlaceInv
  /\ Column(bottomLeft, topLeft, MetaTile(origin.x), -MetaTilePosition(origin.x))
  /\ Column(bottomRight, topRight, MetaTile(origin.x) + 1, MetaSize - MetaTilePosition(origin.x))
  /\ SameY(bottomLeft, bottomRight) /\ SameY(topLeft, topRight)

(* New views are a grid.                                                   *)
LEMMA NewViewsAreUpright ==
  ASSUME UprightPans, NEW o \in Place
  PROVE  /\ Column(MetaTileView(o, 0, 0), MetaTileView(o, 0, 1),
                MetaTile(o.x), -MetaTilePosition(o.x))
         /\ Column(MetaTileView(o, 1, 0), MetaTileView(o, 1, 1),
                MetaTile(o.x) + 1, MetaSize - MetaTilePosition(o.x))
         /\ SameY(MetaTileView(o, 0, 0), MetaTileView(o, 1, 0))
         /\ SameY(MetaTileView(o, 0, 1), MetaTileView(o, 1, 1))
<1> DEFINE c == MetaTile(o.y)
           r == MetaTile(o.x)
           py == MetaTilePosition(o.y)
           px == MetaTilePosition(o.x)
<1>1. /\ o.y \in Origins /\ o.x \in Origins /\ o.y >= 0 /\ o.x >= 0
      /\ MetaSize \in Nat \ {0} /\ Height \in Nat /\ Height <= MetaSize
  BY Sizes DEF UprightPans
<1>2. /\ c \in Int /\ r \in Int /\ py \in Int /\ px \in Int
      /\ 0 <= py /\ py < MetaSize
  BY <1>1, MetaTileInt, MetaTileBounds
<1>3. \A i \in {0, 1}, j \in {0, 1} :
        /\ MetaTileView(o, j, i).row = c + i
        /\ MetaTileView(o, j, i).column = r + j
        /\ MetaTileView(o, j, i).y = MetaSize * i - py
        /\ MetaTileView(o, j, i).x = MetaSize * j - px
  BY NewViewPlaced
<1> HIDE DEF c, r, py, px
<1>4. /\ c + 0 = c /\ r + 0 = r
      /\ MetaSize * 0 - py = -py /\ MetaSize * 1 - py = MetaSize - py
      /\ MetaSize * 0 - px = -px /\ MetaSize * 1 - px = MetaSize - px
  BY <1>1, <1>2
<1>5. ASSUME NEW j \in {0, 1}
      PROVE  Column(MetaTileView(o, j, 0), MetaTileView(o, j, 1), r + j, MetaSize * j - px)
  <2> DEFINE near == MetaTileView(o, j, 0)
             far == MetaTileView(o, j, 1)
  <2>1. /\ near.row = c /\ near.column = r + j /\ near.y = -py /\ near.x = MetaSize * j - px
        /\ far.row = c + 1 /\ far.column = r + j /\ far.y = MetaSize - py
        /\ far.x = MetaSize * j - px
    BY <1>3, <1>4
  <2> HIDE DEF near, far
  <2>2. near.y <= 0 /\ MaxY(far) >= Height /\ near.y < far.y
    BY <1>1, <1>2, <2>1 DEF MaxY
  <2>3. near.row <= far.row /\ far.row <= near.row + 1
    BY <1>2, <2>1
  <2>4. Column(near, far, r + j, MetaSize * j - px)
    BY <2>1, <2>2, <2>3 DEF Column
  <2> QED  BY <2>4 DEF near, far
<1>6. /\ Column(MetaTileView(o, 0, 0), MetaTileView(o, 0, 1), r, -px)
      /\ Column(MetaTileView(o, 1, 0), MetaTileView(o, 1, 1), r + 1, MetaSize - px)
  <2>1. /\ Column(MetaTileView(o, 0, 0), MetaTileView(o, 0, 1), r + 0, MetaSize * 0 - px)
        /\ Column(MetaTileView(o, 1, 0), MetaTileView(o, 1, 1), r + 1, MetaSize * 1 - px)
    BY <1>5
  <2> QED  BY <1>4, <2>1
<1>7. /\ SameY(MetaTileView(o, 0, 0), MetaTileView(o, 1, 0))
      /\ SameY(MetaTileView(o, 0, 1), MetaTileView(o, 1, 1))
  BY DEF SameY, MetaTileView
<1> QED  BY <1>6, <1>7 DEF r, px

(* Panning along the y axis keeps the grid.                                *)
LEMMA PanKeepsUpright ==
  ASSUME UprightPans, UprightInv, NEW t \in Pans, InBounds(Opposite(origin, t)), Pan(t)
  PROVE  UprightInv'
<1> DEFINE o == Opposite(origin, t)
           bl == Moved(bottomLeft, t)
           tl == Moved(topLeft, t)
           br == Moved(bottomRight, t)
           tr == Moved(topRight, t)
           bottom == RecycleX(<<bl, br>>, o, 0)
           top == RecycleX(<<tl, tr>>, o, 1)
           lefts == RecycleY(<<bl, tl>>, o, 0)
           rights == RecycleY(<<br, tr>>, o, 1)
<1>1. /\ t \in Point /\ t.x = 0 /\ t.y \in Int
      /\ t.y + 2 * Rounding < Height /\ 2 * Rounding - t.y < Height
  BY MetaTilesAssumption DEF UprightPans, Point
<1>2. origin \in Place /\ origin \in Point /\ origin.y \in Int /\ origin.x \in Int
  BY PlaceIsPoint DEF UprightInv, PlaceInv, Point
<1>3. /\ origin' = o /\ o \in Place /\ o.x = origin.x
  BY <1>1, <1>2 DEF Pan, InBounds, Opposite, Place
<1>4. PlaceInv'
  BY PanPlaces DEF UprightInv
<1>5. /\ PlacedAt(bl, o) /\ bl.row = bottomLeft.row /\ bl.column = bottomLeft.column
      /\ PlacedAt(tl, o) /\ tl.row = topLeft.row /\ tl.column = topLeft.column
      /\ PlacedAt(br, o) /\ br.row = bottomRight.row /\ br.column = bottomRight.column
      /\ PlacedAt(tr, o) /\ tr.row = topRight.row /\ tr.column = topRight.column
  BY <1>1, <1>2, MovedPlaced DEF UprightInv, PlaceInv
<1>6. /\ bottomLeft.y \in Int /\ topLeft.y \in Int /\ bottomLeft.x \in Int
      /\ bottomRight.y \in Int /\ topRight.y \in Int /\ topLeft.x \in Int
      /\ bottomRight.x \in Int /\ topRight.x \in Int
  BY DEF UprightInv, PlaceInv, PlacedAt
<1>7. /\ bl.y = bottomLeft.y + t.y /\ tl.y = topLeft.y + t.y
      /\ br.y = bottomRight.y + t.y /\ tr.y = topRight.y + t.y
      /\ bl.x = bottomLeft.x /\ tl.x = topLeft.x
      /\ br.x = bottomRight.x /\ tr.x = topRight.x
  BY <1>1, <1>6 DEF Moved
<1> DEFINE r == MetaTile(o.x)
           x == MetaTilePosition(o.x)
<1>8. /\ r \in Int /\ x \in Int /\ MetaSize \in Int
      /\ Height \in Int /\ Rounding \in Int
  BY <1>3, Sizes, MetaTileInt, MetaTileBounds DEF UprightPans
<1>9. r + 0 = r /\ MetaSize * 0 - x = -x /\ MetaSize * 1 - x = MetaSize - x
  BY <1>8
<1>10. /\ Column(bottomLeft, topLeft, r + 0, MetaSize * 0 - x)
       /\ Column(bottomRight, topRight, r + 1, MetaSize * 1 - x)
       /\ SameY(bottomLeft, bottomRight) /\ SameY(topLeft, topRight)
  BY <1>3, <1>9 DEF UprightInv
<1> HIDE DEF o, bl, tl, br, tr, r, x
<1>11. SameY(bl, br) /\ SameY(tl, tr)
  BY <1>5, <1>7, <1>10 DEF SameY
<1>12. /\ bl.row <= tl.row /\ tl.row <= bl.row + 1 /\ bl.y < tl.y
       /\ bl.column = r + 0 /\ tl.column = r + 0
       /\ bl.x = MetaSize * 0 - x /\ tl.x = MetaSize * 0 - x
       /\ br.row <= tr.row /\ tr.row <= br.row + 1 /\ br.y < tr.y
       /\ br.column = r + 1 /\ tr.column = r + 1
       /\ br.x = MetaSize * 1 - x /\ tr.x = MetaSize * 1 - x
  BY <1>1, <1>5, <1>6, <1>7, <1>10 DEF Column
<1>13. /\ bl.y + 2 * Rounding < Height /\ MaxY(tl) > 2 * Rounding
       /\ br.y + 2 * Rounding < Height /\ MaxY(tr) > 2 * Rounding
  <2>1. /\ bottomLeft.y <= 0 /\ topLeft.y + MetaSize >= Height
        /\ bottomRight.y <= 0 /\ topRight.y + MetaSize >= Height
    BY <1>10 DEF Column, MaxY
  <2> QED  BY <1>1, <1>6, <1>7, <1>8, <2>1 DEF MaxY
<1>14. /\ PlacedAt(lefts[1], o) /\ PlacedAt(lefts[2], o)
       /\ Column(lefts[1], lefts[2], r + 0, MetaSize * 0 - x)
  <2>1. 0 \in {0, 1} /\ r + 0 = MetaTile(o.x) + 0
           /\ MetaSize * 0 - x = MetaSize * 0 - MetaTilePosition(o.x)
    BY DEF r, x
  <2> HIDE DEF lefts
  <2>2. lefts = RecycleY(<<bl, tl>>, o, 0)
    BY DEF lefts
  <2> QED  BY <1>3, <1>5, <1>12, <1>13, <2>1, <2>2, RecycleYKeepsColumnPair
<1>15. /\ PlacedAt(rights[1], o) /\ PlacedAt(rights[2], o)
       /\ Column(rights[1], rights[2], r + 1, MetaSize * 1 - x)
  <2>1. 1 \in {0, 1} /\ r + 1 = MetaTile(o.x) + 1
           /\ MetaSize * 1 - x = MetaSize * 1 - MetaTilePosition(o.x)
    BY DEF r, x
  <2> HIDE DEF rights
  <2>2. rights = RecycleY(<<br, tr>>, o, 1)
    BY DEF rights
  <2> QED  BY <1>3, <1>5, <1>12, <1>13, <2>1, <2>2, RecycleYKeepsColumnPair
<1>16. SameY(lefts[1], rights[1]) /\ SameY(lefts[2], rights[2])
  BY <1>11, RecycleYSame
<1> HIDE DEF lefts, rights
<1>17. bottom = <<bl, br>> /\ top = <<tl, tr>>
  <2>1. /\ bl.x = -MetaTilePosition(o.x) /\ br.x = MetaSize - MetaTilePosition(o.x)
        /\ tl.x = -MetaTilePosition(o.x) /\ tr.x = MetaSize - MetaTilePosition(o.x)
    BY <1>9, <1>12 DEF x
  <2> QED  BY <1>3, <2>1, RecycleXKeepsUpright
<1>18. /\ bottomLeft' = RecycleY(<<bottom[1], top[1]>>, o, 0)[1]
       /\ topLeft' = RecycleY(<<bottom[1], top[1]>>, o, 0)[2]
       /\ bottomRight' = RecycleY(<<bottom[2], top[2]>>, o, 1)[1]
       /\ topRight' = RecycleY(<<bottom[2], top[2]>>, o, 1)[2]
  BY <1>3 DEF Pan, o, bl, br, tl, tr, bottom, top
<1>19. /\ bottomLeft' = lefts[1] /\ bottomRight' = rights[1]
       /\ topLeft' = lefts[2] /\ topRight' = rights[2]
  BY <1>17, <1>18 DEF lefts, rights
<1>20. MetaTile(origin.x)' = r /\ MetaTilePosition(origin.x)' = x
  BY <1>3 DEF r, x
<1> QED  BY <1>4, <1>9, <1>14, <1>15, <1>16, <1>19, <1>20 DEF UprightInv

(* A grid is what the properties ask of the views.                         *)
LEMMA UprightImplies ==
  ASSUME UprightPans, UprightInv
  PROVE  ViewsInOrder /\ NoneSkipped /\ OnlyCracksBlank
<1> DEFINE r == MetaTile(origin.x)
           x0 == MetaTilePosition(origin.x)
<1>1. /\ MetaSize \in Nat \ {0} /\ Height \in Nat /\ Width \in Nat
      /\ Height <= MetaSize /\ Width <= MetaSize
      /\ origin \in Point /\ r \in Int /\ x0 \in Int /\ 0 <= x0 /\ x0 < MetaSize
  BY Sizes, PlaceIsPoint, MetaTileInt, MetaTileBounds DEF UprightPans, UprightInv, PlaceInv
<1>2. /\ bottomLeft.y \in Int /\ topLeft.y \in Int
      /\ bottomLeft.row \in Int /\ topLeft.row \in Int
      /\ PlacedAt(bottomLeft, origin) /\ PlacedAt(topLeft, origin)
  BY DEF UprightInv, PlaceInv, PlacedAt
<1>3. /\ bottomLeft.column = r /\ topLeft.column = r /\ bottomRight.column = r + 1 /\ topRight.column = r + 1
      /\ bottomLeft.x = -x0 /\ topLeft.x = -x0
      /\ bottomRight.x = MetaSize - x0 /\ topRight.x = MetaSize - x0
      /\ bottomRight.y = bottomLeft.y /\ topRight.y = topLeft.y
      /\ bottomRight.row = bottomLeft.row /\ topRight.row = topLeft.row
  BY DEF UprightInv, Column, SameY
<1>4. /\ bottomLeft.row <= topLeft.row
      /\ topLeft.row <= bottomLeft.row + 1
      /\ bottomLeft.y <= 0 /\ topLeft.y + MetaSize >= Height
      /\ bottomLeft.y < topLeft.y
  BY DEF UprightInv, Column, MaxY
<1>5. topLeft.y - MaxY(bottomLeft) <= 2 * Rounding
  BY <1>1, <1>2, <1>4, CrackIsNarrow
<1> HIDE DEF r, x0
<1>6. ViewsInOrder
  BY <1>1, <1>2, <1>3, <1>4 DEF ViewsInOrder
<1>7. NoneSkipped
  <2>1. /\ topLeft.row - bottomLeft.row \in {0, 1}
        /\ bottomRight.column - bottomLeft.column \in {0, 1}
    BY <1>1, <1>2, <1>3, <1>4
  <2> QED  BY <1>3, <2>1 DEF NoneSkipped
<1>8. OnlyCracksBlank
  <2> SUFFICES ASSUME NEW x \in 0..(Width - 1), NEW y \in 0..(Height - 1)
               PROVE  \/ \E i \in 1..4 : Shows(views[i], x, y)
                      \/ Crack(MaxY(bottomLeft), topLeft.y, y)
    BY ViewNumbers DEF OnlyCracksBlank
  <2>1. \/ Shows(bottomLeft, x, y) \/ Shows(topLeft, x, y)
        \/ Shows(bottomRight, x, y) \/ Shows(topRight, x, y)
        \/ MaxY(bottomLeft) <= y /\ y < topLeft.y
    BY <1>1, <1>2, <1>3, <1>4 DEF Shows, MaxY, MaxX
  <2> QED  BY <1>5, <2>1, ViewNumbers DEF Crack
<1> QED  BY <1>6, <1>7, <1>8

(* The views are a grid for ever.                                          *)
LEMMA UprightInvariance ==
  ASSUME UprightPans
  PROVE  Spec => []UprightInv
<1>1. Init => UprightInv
  <2> SUFFICES ASSUME Init PROVE UprightInv
    OBVIOUS
  <2>1. origin \in Place
    BY DEF Init, Place
  <2>2. \A i \in {0, 1}, j \in {0, 1} : PlacedAt(MetaTileView(origin, i, j), origin)
    BY <2>1, NewViewPlaced
  <2>3. PlaceInv
    BY <2>1, <2>2 DEF Init, PlaceInv
  <2> QED  BY <2>1, <2>3, NewViewsAreUpright DEF Init, UprightInv
<1>2. UprightInv /\ [Next]_vars => UprightInv'
  <2> SUFFICES ASSUME UprightInv, [Next]_vars PROVE UprightInv'
    OBVIOUS
  <2>1. ASSUME NEW t \in Pans, InBounds([x |-> origin.x - t.x, y |-> origin.y - t.y]), Pan(t)
        PROVE  UprightInv'
    BY <2>1, PanKeepsUpright DEF Opposite
  <2>2. ASSUME NEW x \in Origins, NEW y \in Origins, ZoomEnded([x |-> x, y |-> y])
        PROVE  UprightInv'
    <3> DEFINE o == [x |-> x, y |-> y]
    <3>1. o \in Place
      BY DEF Place
    <3>2. origin' = o /\ RegenerateMetaTileViews(o)
      BY <2>2 DEF ZoomEnded
    <3> HIDE DEF o
    <3>3. PlaceInv'
      BY <3>1, <3>2, RegeneratePlaces
    <3> QED  BY <3>1, <3>2, <3>3, NewViewsAreUpright DEF RegenerateMetaTileViews, UprightInv
  <2>3. CASE UNCHANGED vars
    <3>1. PlaceInv'
      BY <2>3 DEF vars, views, UprightInv, PlaceInv
    <3>2. /\ MetaTile(origin.x)' = MetaTile(origin.x)
          /\ MetaTilePosition(origin.x)' = MetaTilePosition(origin.x)
      BY <2>3 DEF vars
    <3> QED  BY <2>3, <3>1, <3>2 DEF vars, views, UprightInv
  <2> QED  BY <2>1, <2>2, <2>3 DEF Next
<1> QED  BY <1>1, <1>2, PTL DEF Spec

(* Panned along the y axis the views stay in the order NSAssert asks for   *)
(* (OSPMapView.m:232-235), for any sizes of views and meta tiles, any pan  *)
(* events shorter than the view and floats of any precision.               *)
THEOREM UprightOrder ==
  ASSUME UprightPans
  PROVE  Spec => []ViewsInOrder
<1>1. UprightInv => ViewsInOrder
  BY UprightImplies
<1> QED  BY <1>1, UprightInvariance, PTL

(* ... show a grid of meta tiles that skips none ...                       *)
THEOREM UprightNeighbours ==
  ASSUME UprightPans
  PROVE  Spec => []NoneSkipped
<1>1. UprightInv => NoneSkipped
  BY UprightImplies
<1> QED  BY <1>1, UprightInvariance, PTL

(* ... and leave nothing of the map view blank but a crack as wide as the  *)
(* float is off, twice.                                                    *)
THEOREM UprightCoverage ==
  ASSUME UprightPans
  PROVE  Spec => []OnlyCracksBlank
<1>1. UprightInv => OnlyCracksBlank
  BY UprightImplies
<1> QED  BY <1>1, UprightInvariance, PTL

=============================================================================
