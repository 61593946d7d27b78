----------------------------- MODULE MCMapScreen -----------------------------
(***************************************************************************)
(* Instances of MapScreen: a world of 128 whose tiles have 4 pixels, on a  *)
(* screen near its eastern end.  The screen's places keep their distance   *)
(* of 2 from the borders of the finest tiles, so that it shows one or two  *)
(* columns of tiles and one row or two.                                    *)
(***************************************************************************)
EXTENDS MapScreen

First == [x |-> 98, y |-> 58, mpp |-> 8, w |-> 3, h |-> 1]
SouthEnd == [x |-> 98, y |-> 136, mpp |-> 8, w |-> 3, h |-> 3]
Pans == {[x |-> -4, y |-> 0], [x |-> 4, y |-> 0], [x |-> 0, y |-> 4]}
Corner == {[x |-> 3, y |-> 1]}
BeyondTheEnd == {[x |-> 22, y |-> 54]}
Sizes == {[w |-> 3, h |-> 4]}
MiddleTiles == {t \in Tiles : t.zoom = 2}

\* The world is wider than any screen by the rest of a tile, as it has to be
\* for what is proved of the screen.
ASSUME InstanceAssumption ==
  /\ \A f \in ScreenSizes, mpp \in MinMpp..MaxMpp : f.w * mpp + TileSide(NormalisedZoom(mpp)) - 1 <= WorldSide
  /\ Allowed(FirstScreen)
=============================================================================
