------------------------------ MODULE MCQuadTree ------------------------------
(***************************************************************************)
(* Instance of QuadTree in a world of 16 by 16: two nodes at one place,    *)
(* one where four quarters meet, one beyond the edge of the world, and a   *)
(* way across a boundary.                                                  *)
(***************************************************************************)
EXTENDS QuadTree

At2(x, y, w, h) == [x |-> x, y |-> y, w |-> w, h |-> h]
MCBounds(o) ==
  CASE o = "home" -> At2(1, 1, 0, 0)
    [] o = "neighbour" -> At2(1, 1, 0, 0)
    [] o = "middle" -> At2(8, 8, 0, 0)
    [] o = "pole" -> At2(5, 18, 0, 0)
    [] o = "way" -> At2(3, 2, 7, 1)

\* The west with its edge on the boundary, and the world.
MCAreas == {At2(0, 0, 8, 16), At2(-2, -2, 22, 22)}
=============================================================================
