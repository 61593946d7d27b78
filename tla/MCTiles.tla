------------------------------- MODULE MCTiles -------------------------------
(***************************************************************************)
(* A world of 4 by 4 cells.  A behaviour either asks about one rectangle,  *)
(* in, around or across the world, or adds tiles to a TileArray: every     *)
(* tile of the western half, those of zoom 1, a column of the east but for *)
(* one cell, and the world.                                                *)
(***************************************************************************)
EXTENDS AreaQueries, TileArray

Coordinates == -1..(WorldSize + 1)
AllRects == {r \in [x : Coordinates, y : Coordinates, w : 0..WorldSize, h : 0..WorldSize] :
               r.x + r.w \in Coordinates /\ r.y + r.h \in Coordinates}

\* Two rectangles to cut out, one across the other's corner.
TwoHoles == {<<Rect(1, 1, 2, 1)>>, <<Rect(0, 2, 3, 2), Rect(2, 1, 2, 2)>>}

MCAddedTiles == {t \in Tiles : t.zoom < 2 \/ t.x < 2 \/ (t.x = 2 /\ t.y # 2)}

Init == QueryInit /\ ArrayInit

Next == \/ NothingAsked /\ ArrayNext /\ UNCHANGED queryVars
        \/ tileTree = TreeWithTile(World) /\ QueryNext /\ UNCHANGED tileTree

Spec == Init /\ [][Next]_<<queryVars, tileTree>>
=============================================================================
