----------------------------- MODULE AreaQueries -----------------------------
(***************************************************************************)
(* A bench for the algorithms of Areas: a behaviour asks once, either for  *)
(* the tiles of a rectangle or for what is left of it when others are cut  *)
(* out of it.                                                              *)
(***************************************************************************)
EXTENDS Areas

CONSTANTS
  Questions,    \* the rectangles asked about
  Overspills,   \* values of maxOverspill
  Holes         \* areas to cut out: sequences of rectangles

\* No tile is finer than MaxZoom, and one of MaxZoom must not be split.
ASSUME AreaQueriesAssumption ==
  /\ Questions \subseteq Rectangles
  /\ \A o \in Overspills : o \in Nat /\ o >= Unit
  /\ Holes \subseteq Seq(Rectangles)

VARIABLES rect, other, overspill, found, rest

queryVars == <<rect, other, overspill, found, rest>>

\* The rectangle of the initial state.
NothingAsked == rect = Rect(0, 0, 0, 0)

AskTiles(r, o) ==
  /\ rect' = r /\ overspill' = o
  /\ found' = TilesFromRect(r, o)
  /\ other' = <<>> /\ rest' = <<r>>

AskRest(r, holes) ==
  /\ rect' = r /\ other' = holes
  /\ rest' = AreaBySubtractingArea(<<r>>, holes)
  /\ overspill' = Unit /\ found' = TilesFromRect(r, Unit)

QueryInit ==
  /\ NothingAsked /\ other = <<>> /\ overspill = Unit
  /\ found = TilesFromRect(rect, overspill)
  /\ rest = <<rect>>

QueryNext ==
  \/ \E r \in Questions, o \in Overspills : NothingAsked /\ AskTiles(r, o) /\ ~NothingAsked'
  \/ \E r \in Questions, holes \in Holes : NothingAsked /\ AskRest(r, holes) /\ ~NothingAsked'

QuerySpec == QueryInit /\ [][QueryNext]_queryVars

-----------------------------------------------------------------------------
Outset(r, d) == Rect(r.x - d, r.y - d, r.w + 2 * d, r.h + 2 * d)
Fits(t) == ContainsRect(Outset(rect, overspill), RectFromTile(t))

\* The unit squares of a rectangle, each at its lower left corner.
Squares(r) == {<<x, y>> : x \in r.x..(r.x + r.w - 1), y \in r.y..(r.y + r.h - 1)}

(* The tiles asked for are the largest that meet the rectangle and do not  *)
(* stick out of it by more than maxOverspill, each once; no part of the    *)
(* rectangle inside the world is left without a tile, and no tile lies in  *)
(* another.                                                                *)
TilesCover ==
  /\ ToSet(found) =
       {t \in Tiles : /\ IntersectsRect(rect, RectFromTile(t)) /\ Fits(t)
                      /\ \A s \in Tiles :
                           s.zoom < t.zoom /\ Cells[t] \subseteq Cells[s] => ~Fits(s)}
  /\ Len(found) = Cardinality(ToSet(found))
  /\ Squares(rect) \cap Squares(RectFromTile(World))
       \subseteq UNION {Squares(RectFromTile(t)) : t \in ToSet(found)}
  /\ \A s, t \in ToSet(found) : s # t => Cells[s] \cap Cells[t] = {}

(* What is left of an area is exactly what was not cut out of it, and no   *)
(* part of it is there twice.                                              *)
RestIsDifference ==
  /\ UNION {Squares(rest[i]) : i \in 1..Len(rest)}
       = Squares(rect) \ UNION {Squares(other[i]) : i \in 1..Len(other)}
  /\ \A i, j \in 1..Len(rest) : i # j => Squares(rest[i]) \cap Squares(rest[j]) = {}
=============================================================================
