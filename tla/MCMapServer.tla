----------------------------- MODULE MCMapServer -----------------------------
(***************************************************************************)
(* Instances of MapServer: a world of 2 by 2 tiles, scrolled between its   *)
(* south-west quarter and a strip across the north.                        *)
(***************************************************************************)
EXTENDS MapServer

Load(x, y, w, h, outset) == [bounds |-> Rect(x, y, w, h), outset |-> outset]
Scroll == {Load(0, 0, 1, 1, 2), Load(0, 3, 3, 1, 2)}

\* An answer longer than the stream, and one that does not parse.
Answers == {<<Broken>>, <<1, 2>>}
=============================================================================
