----------------------------- MODULE MCMapFile -----------------------------
(***************************************************************************)
(* Map files for MapFile.  Ground: one sub-file of 2 by 2 blocks whose     *)
(* zoom levels lie below and above its base zoom; with it, each way in     *)
(* which one block of it can be damaged.  Levels: two sub-files with a     *)
(* level between them that none covers, and a box that is no whole number  *)
(* of blocks.                                                              *)
(***************************************************************************)
EXTENDS MapFile

Tile(z, x, y) == [zoom |-> z, x |-> x, y |-> y]
AllTiles ==
  {Tile(z, x, y) : z \in 0..1, x \in 0..1, y \in 0..1} \union
  {Tile(2, x, y) : x \in 0..2, y \in 1..2} \union
  {Tile(3, x, y) : x \in 2..4, y \in 3..5} \union
  {Tile(4, x, y) : x \in 5..8, y \in 8..9} \union {Tile(5, 10, 17), Tile(5, 14, 16), Tile(6, 28, 33)}
WorldTiles == {t \in AllTiles : t.x < 2^t.zoom /\ t.y < 2^t.zoom}

Poi(n, k, zoom, tags) == [id |-> <<"poi", n, k>>, zoom |-> zoom, tags |-> tags, damage |-> "none"]
Way(n, k, zoom, mask) == [id |-> <<"way", n, k>>, zoom |-> zoom, mask |-> mask, damage |-> "none"]

\* The zoom table of a block, for the levels of its sub-file.
Rows(b, low, high) ==
  LET At(s, z) == Cardinality({k \in DOMAIN s : s[k].zoom = z}) IN
  [i \in 1..(high - low + 1) |-> [pois |-> At(b.pois, low + i - 1), ways |-> At(b.ways, low + i - 1)]]

Weight(b) == IF b.pois = <<>> /\ b.ways = <<>> THEN 0 ELSE 1 + Len(b.pois) + Len(b.ways)
Before(bs, n) == FoldSeq(LAMBDA b, sum : sum + Weight(b), 0, SubSeq(bs, 1, n))

SubFileOf(base, low, high, bs) ==
  [base |-> base, min |-> low, max |-> high, size |-> 1 + Before(bs, Len(bs)), room |-> 1 + Before(bs, Len(bs)),
   blocks |-> [i \in DOMAIN bs |->
     [indexed |-> TRUE, pointer |-> 1 + Before(bs, i - 1), water |-> bs[i].water, head |-> TRUE,
      rows |-> Rows(bs[i], low, high), pois |-> bs[i].pois, ways |-> bs[i].ways]]]

All == 0..15
Centre == {5, 6, 9, 10}
Content(sea, ps, ws) == [water |-> sea, pois |-> ps, ways |-> ws]
Sea == Content(TRUE, <<>>, <<>>)

Blocks(firstWater) ==
  <<Content(firstWater, <<Poi(0, 1, 1, "name" :> "a"), Poi(0, 2, 3, "name" :> "b" @@ "ele" :> "c")>>,
            <<Way(0, 1, 1, All), Way(0, 2, 2, {15, 14}), Way(0, 3, 3, Centre), Way(0, 4, 3, {0})>>),
    Sea,
    Content(TRUE, <<Poi(2, 1, 2, "ele" :> "d")>>, <<Way(2, 1, 2, {1, 12}), Way(2, 2, 4, {})>>),
    Content(TRUE, <<>>, <<Way(3, 1, 1, {3, 7})>>)>>

Ground(firstWater) ==
  [box |-> [left |-> 4, top |-> 4, right |-> 11, bottom |-> 11],
   subFiles |-> <<SubFileOf(2, 1, 5, Blocks(firstWater))>>]

Levels ==
  [box |-> [left |-> 5, top |-> 9, right |-> 8, bottom |-> 10],
   subFiles |->
     <<SubFileOf(1, 0, 1, <<Content(FALSE, <<>>, <<Way(0, 1, 0, All)>>), Sea>>),
       SubFileOf(3, 3, 5, <<Sea, Content(FALSE, <<>>, <<Way(1, 1, 3, {8}), Way(1, 2, 5, {4})>>), Sea,
                            Content(FALSE, <<>>, <<>>), Sea, Content(FALSE, <<>>, <<Way(5, 1, 3, All)>>)>>)>>]

\* The damages of the ground's blocks: which block, what of it, which of those.
Pointers == <<0, 15, 14, 20>>  \* the sub-file has 14 bytes; 20 has the sign of a short long
Damaged(b, what, k, d) ==
  CASE what = "pointer" -> [b EXCEPT !.pointer = Pointers[k]]
    [] what = "index" -> [b EXCEPT !.indexed = FALSE]
    [] what = "head" -> [b EXCEPT !.head = FALSE]
    [] what = "poi" -> [b EXCEPT !.pois[k].damage = d]
    [] what = "way" -> [b EXCEPT !.ways[k].damage = d]

Names ==
  LET bs == Blocks(FALSE) IN
  {<<0, "sound", 0, "none">>, <<0, "sea", 0, "none">>, <<0, "levels", 0, "none">>, <<0, "cut", 0, "none">>}
  \union {<<i, "pointer", k, "none">> : i \in 1..4, k \in {1, 2, 4}} \union {<<i, "pointer", 3, "none">> : i \in 1..3}
  \union {<<i, "index", 0, "none">> : i \in 1..4}
  \union {<<i, "head", 0, "none">> : i \in 1..4}
  \union UNION {{<<i, "poi", k, d>> : k \in DOMAIN bs[i].pois, d \in {"invalid", "cut"}} : i \in 1..4}
  \union UNION {{<<i, "way", k, d>> : k \in DOMAIN bs[i].ways, d \in {"invalid", "cut", "late"}} : i \in 1..4}

MapFiles == [name \in Names |->
  LET f == Ground(FALSE) IN
  CASE name[2] = "sound" -> f
    [] name[2] = "sea" -> Ground(TRUE)
    [] name[2] = "levels" -> Levels
    [] name[2] = "cut" -> [f EXCEPT !.subFiles[1].room = @ - 1]
    [] OTHER -> [f EXCEPT !.subFiles[1].blocks[name[1]] = Damaged(@, name[2], name[3], name[4])]]
=============================================================================
