----------------------------- MODULE MCMetaTiles -----------------------------
(***************************************************************************)
(* Instances of MetaTiles: a map view of 7 by 7 pixels over meta tiles of  *)
(* 8; a finger moves by less than the view between two events.             *)
(***************************************************************************)
EXTENDS MetaTiles

Moves == -2..2
Anyhow == {[x |-> x, y |-> y] : x \in Moves, y \in Moves}
Sideways == {p \in Anyhow : p.y = 0}

\* East and north of the world's origin.
East == 4..20
\* A float of three bits, which keeps one of 8, then one of 16 places, and so
\* on: the boundaries lie between meta tiles as those of the real one do.
ThreeBits == [v \in East |-> IF v < 8 THEN 1 ELSE IF v < 16 THEN 2 ELSE 4]
\* A float that keeps every place: a zoom below 16.
Exact == [v \in East |-> 1]
=============================================================================
