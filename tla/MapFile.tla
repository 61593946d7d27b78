------------------------------ MODULE MapFile ------------------------------
(***************************************************************************)
(* MapDatabase of MapsforgeReader: a query reads from a map file what a    *)
(* tile shows.  The header (MapFileHeader, SubFileParameter) gives, for    *)
(* each zoom level, a sub-file: a grid of blocks over the file's bounding  *)
(* box, with an index.  The query goes through the blocks that the tile    *)
(* meets (QueryCalculations), row by row, and through the points of        *)
(* interest and the ways of each, up to the tile's zoom level, and calls   *)
(* OSPMapLoader, the callback, with each of them.                          *)
(*                                                                         *)
(* A file is what its writer made of a map, and may be damaged: an index   *)
(* entry, the head of a block, an element.  Bytes are abstracted to what   *)
(* reading them gives.  A bitmask is the set of its one bits.              *)
(***************************************************************************)
EXTENDS Integers, FiniteSets, SequencesExt

CONSTANTS
  Files, Tiles,        \* map files, by their names; records [zoom, x, y]
  FinestZoom,          \* the bounding box of a file is in tiles of this zoom
  PointerMax,          \* BITMASK_INDEX_OFFSET, the largest pointer (2^39 - 1)
  LongMaxima,          \* LONG_MAX of the builds: 2^63 - 1, and 2^31 - 1 for armv7
  MaximumBufferSize    \* a larger block is left out (2500000 bytes)

(***************************************************************************)
(* A file: [box: [left, top, right, bottom], subFiles: a sequence].        *)
(* A sub-file: [base, min, max: zoom levels; size; room: the bytes of the  *)
(*   file from its start address on; blocks: a sequence, row by row].      *)
(* A block: [indexed: whether the file has its index entry; pointer;       *)
(*   water; head: whether its head is valid; rows: the zoom table, a       *)
(*   sequence of [pois, ways], how many elements each zoom level adds;     *)
(*   pois, ways: sequences of elements].                                   *)
(* An element: [id, zoom, tags (of a poi), mask (of a way), damage].       *)
(*   damage: "none"; "invalid", recognised while it is read; "cut", the    *)
(*   block ends within it; "late", of a way: invalid within its second     *)
(*   data block.                                                           *)
(***************************************************************************)
Damages == {"none", "invalid", "cut", "late"}

ASSUME MapFileAssumption ==
  /\ FinestZoom \in 0..30 /\ MaximumBufferSize \in Nat
  /\ Tiles \subseteq [zoom : 0..30, x : Nat, y : Nat]
  /\ \A k \in DOMAIN Files : \A i \in DOMAIN Files[k].subFiles :
       LET s == Files[k].subFiles[i] IN
       s.base \in 0..FinestZoom /\ s.min \in 0..22 /\ s.max \in s.min..22

\* A long holds an index entry of 40 bits, or so many of its last bits.
ASSUME IndexAssumption ==
  /\ PointerMax \in Nat
  /\ \A max \in LongMaxima :
       max \in Nat /\ (2 * PointerMax + 1 <= max \/ (PointerMax + 1) % (2 * (max + 1)) = 0)

\* What the proofs need to know of powers.
ASSUME PowerAssumption ==
  /\ 2^0 = 1 /\ \A n \in 0..30 : 2^n \in Nat \ {0}
  /\ \A n \in 0..29 : 2^(n + 1) = 2 * 2^n

VARIABLES
  opened,       \* which file is open
  longMax,      \* LONG_MAX of the build
  tile,         \* the tile asked for
  query,        \* the parameters of the query
  phase,        \* where executeQuery is
  block,        \* the loop: [row, column]
  pois, ways,   \* what is left to read of the block
  water,        \* [is, read]: queryIsWater and queryReadWaterInfo
  dictionaries, \* the tags collected in each block read, by block number
  nodes,        \* reported pois: [id, block], whose tags are the dictionary
  found,        \* reported ways
  background    \* renderWaterBackground was called

vars == <<opened, longMax, tile, query, phase, block, pois, ways, water, dictionaries, nodes, found, background>>

-----------------------------------------------------------------------------
\* The header: the zoom levels and their sub-files.
AsByte(n) == n % 256

LowestZoom(f) == Min({127} \union {f.subFiles[i].min : i \in DOMAIN f.subFiles})

\* zoomLevelMaximum is an unsigned byte and starts as SCHAR_MIN.
HighestZoom(f) == Max({AsByte(-128)} \union {f.subFiles[i].max : i \in DOMAIN f.subFiles})

QueryZoomLevel(f, z) ==
  IF z > HighestZoom(f) THEN HighestZoom(f)
  ELSE IF z < LowestZoom(f) THEN LowestZoom(f) ELSE z

\* The sub-files that cover a level; the last one takes its place.
Covering(f, z) == {i \in DOMAIN f.subFiles : z \in f.subFiles[i].min..f.subFiles[i].max}
SubFileAt(f, z) == f.subFiles[Max(Covering(f, z))]

\* The box in tiles of the sub-file's base zoom.
Boundary(f, s) == [side \in DOMAIN f.box |-> f.box[side] \div 2^(FinestZoom - s.base)]
BlocksWidth(f, s) == Boundary(f, s).right - Boundary(f, s).left + 1
BlocksHeight(f, s) == Boundary(f, s).bottom - Boundary(f, s).top + 1

\* How many elements of a kind the first n rows of a zoom table have.
CumulatedTo(rows, kind, n) == FoldSeq(LAMBDA r, sum : sum + r[kind], 0, SubSeq(rows, 1, n))

\* What a writer makes: as many blocks as the grid has; elements in the order
\* of their zoom levels, counted by the zoom table; nothing in a block
\* without bytes; ids that tell the elements apart.  Every build can hold the
\* file's size in a long, and 32 bits the pointers, damaged ones too.  (Block
\* sizes are of type int: they fit where 2^31 - 1 is one of LongMaxima.)
CountsElements(elements, kind, rows, s) ==
  /\ elements \in Seq(Range(elements))
  /\ \A z \in s.min..s.max :
       LET n == CumulatedTo(rows, kind, z - s.min + 1) IN
       n \in Nat /\ {i \in DOMAIN elements : elements[i].zoom <= z} = 1..n

IsBlock(b, s) ==
  /\ b.indexed \in BOOLEAN /\ b.pointer \in 0..PointerMax /\ b.water \in BOOLEAN
  /\ CountsElements(b.pois, "pois", b.rows, s) /\ CountsElements(b.ways, "ways", b.rows, s)
  /\ \A i, j \in DOMAIN b.pois : b.pois[i].id = b.pois[j].id => i = j
  /\ \A i \in DOMAIN b.pois : b.pois[i].damage \in Damages \ {"late"}
  /\ \A i \in DOMAIN b.ways : b.ways[i].damage \in Damages /\ b.ways[i].mask \subseteq 0..15

EndOf(s, n) == IF n = Len(s.blocks) THEN s.size ELSE s.blocks[n + 1].pointer

IsSubFile(f, s) ==
  /\ s.size \in 0..(PointerMax - 1) /\ s.room \in Nat
  /\ \A max \in LongMaxima :
       s.size <= max /\ \A n \in DOMAIN s.blocks : s.blocks[n].pointer <= 2 * max + 1
  /\ s.blocks \in Seq(Range(s.blocks)) /\ Len(s.blocks) = BlocksWidth(f, s) * BlocksHeight(f, s)
  /\ \A n \in DOMAIN s.blocks :
       LET b == s.blocks[n] IN IsBlock(b, s) /\ (EndOf(s, n) = b.pointer => b.pois = <<>> /\ b.ways = <<>>)
  /\ \A m, n \in DOMAIN s.blocks : \A i \in DOMAIN s.blocks[m].ways, j \in DOMAIN s.blocks[n].ways :
       s.blocks[m].ways[i].id = s.blocks[n].ways[j].id => m = n /\ i = j

ASSUME FilesAssumption ==
  \A k \in DOMAIN Files :
    LET f == Files[k] IN
    /\ f.box \in [left : Nat, top : Nat, right : Nat, bottom : Nat]
    /\ f.box.left <= f.box.right /\ f.box.top <= f.box.bottom
    /\ f.subFiles \in Seq(Range(f.subFiles)) /\ \A i \in DOMAIN f.subFiles : IsSubFile(f, f.subFiles[i])

-----------------------------------------------------------------------------
\* A block has 16 subtiles; the table lists the bits of its quarters.
Quarters == <<<<15, 14, 11, 10>>, <<13, 12, 9, 8>>, <<7, 6, 3, 2>>, <<5, 4, 1, 0>>>>
Quadrant(x, y) == 2 * (y % 2) + (x % 2) + 1

\* Mutant: the quarter is that of the subtile itself.
TileBitmaskOfSubtile(t, difference) ==
  LET sx == t.x \div 2^(difference - 2)
      sy == t.y \div 2^(difference - 2)
  IN  IF difference = 1 THEN ToSet(Quarters[Quadrant(t.x, t.y)])
      ELSE {Quarters[Quadrant(sx, sy)][Quadrant(sx \div 2, sy \div 2)]}

TileBitmask(t, difference) ==
  LET sx == t.x \div 2^(difference - 2)
      sy == t.y \div 2^(difference - 2)
  IN  IF difference = 1 THEN ToSet(Quarters[Quadrant(t.x, t.y)])
      ELSE {Quarters[Quadrant(sx \div 2, sy \div 2)][Quadrant(sx, sy)]}

BaseTiles(t, base) ==
  IF t.zoom < base
  THEN LET side == 2^(base - t.zoom) IN
       [fromX |-> t.x * side, toX |-> t.x * side + side - 1,
        fromY |-> t.y * side, toY |-> t.y * side + side - 1, useTileBitmask |-> FALSE, mask |-> {}]
  ELSE LET side == 2^(t.zoom - base) IN
       [fromX |-> t.x \div side, toX |-> t.x \div side,
        fromY |-> t.y \div side, toY |-> t.y \div side,
        useTileBitmask |-> t.zoom > base,
        mask |-> IF t.zoom > base THEN TileBitmask(t, t.zoom - base) ELSE {}]

\* The parameters with the blocks of the grid that the base tiles are.
QueryParameters(f, t) ==
  LET zoom == QueryZoomLevel(f, t.zoom)
      s == SubFileAt(f, zoom)
      b == BaseTiles(t, s.base)
  IN  [zoom |-> zoom, useTileBitmask |-> b.useTileBitmask, mask |-> b.mask,
       fromX |-> Max({b.fromX - Boundary(f, s).left, 0}),
       fromY |-> Max({b.fromY - Boundary(f, s).top, 0}),
       toX |-> Min({b.toX - Boundary(f, s).left, BlocksWidth(f, s) - 1}),
       toY |-> Min({b.toY - Boundary(f, s).top, BlocksHeight(f, s) - 1})]

-----------------------------------------------------------------------------
file == Files[opened]
SubFile == SubFileAt(file, query.zoom)
Number == block.row * BlocksWidth(file, SubFile) + block.column
Entry(n) == SubFile.blocks[n + 1]
NumberOfBlocks == BlocksWidth(file, SubFile) * BlocksHeight(file, SubFile)

\* getFiveBytesLong: the bit above the pointer says that a block is water.
WaterBit == PointerMax + 1
IndexEntry(b) == b.pointer + IF b.water THEN WaterBit ELSE 0

\* A number converted to long: its last bits, the first of which is the sign.
AsLong(number) ==
  LET bits == number % (2 * (longMax + 1)) IN
  IF bits <= longMax THEN bits ELSE bits - 2 * (longMax + 1)

\* getIndexEntry: answers a long; where the file ends before the entry, -1.
GetIndexEntry(n) == IF Entry(n).indexed THEN AsLong(IndexEntry(Entry(n))) ELSE -1

\* The masks BITMASK_INDEX_OFFSET and BITMASK_INDEX_WATER of processBlocks.
Pointer(n) == GetIndexEntry(n) % WaterBit
IsWater(n) == (GetIndexEntry(n) \div WaterBit) % 2 = 1

NextPointer ==
  IF Number + 1 = NumberOfBlocks THEN SubFile.size ELSE Pointer(Number + 1)

IsPointer(p) == p >= 1 /\ p <= SubFile.size
BlockSize == NextPointer - Pointer(Number)

\* executeQuery: the loader forgets the objects of the query before.
ExecuteQuery(t) ==
  /\ phase \in {"idle", "done", "ended"}
  /\ Covering(file, QueryZoomLevel(file, t.zoom)) # {}
  /\ tile' = t /\ query' = QueryParameters(file, t)
  /\ phase' = "blocks" /\ block' = [row |-> query'.fromY, column |-> query'.fromX]
  /\ water' = [is |-> TRUE, read |-> FALSE]
  /\ nodes' = <<>> /\ found' = <<>> /\ dictionaries' = <<>> /\ background' = FALSE
  /\ UNCHANGED <<opened, longMax, pois, ways>>

\* The place of a sub-file no level has is taken by NSNull, whose memory is
\* read as that of a sub-file: nothing is known of what follows.
ExecuteQueryUncovered(t) ==
  /\ phase \in {"idle", "done", "ended"}
  /\ Covering(file, QueryZoomLevel(file, t.zoom)) = {}
  /\ tile' = t /\ phase' = "undefined"
  /\ UNCHANGED <<opened, longMax, query, block, pois, ways, water, dictionaries, nodes, found, background>>

InLoop == phase = "blocks" /\ block.row <= query.toY /\ block.column <= query.toX

NextBlock ==
  /\ phase' = "blocks"
  /\ block' = IF block.column < query.toX THEN [block EXCEPT !.column = @ + 1]
              ELSE [row |-> block.row + 1, column |-> query.fromX]
  /\ pois' = <<>> /\ ways' = <<>>

\* Mutant: the last block decides.
ReadWaterInfoOfLast == water' = [is |-> IsWater(Number), read |-> TRUE]

ReadWaterInfo ==
  water' = IF water.is THEN [is |-> IsWater(Number), read |-> TRUE] ELSE water

\* A return of processBlocks, or an exception caught by executeQuery.
EndQuery == phase' = "ended" /\ pois' = <<>> /\ ways' = <<>>

\* The checks of processBlocks that end the query.
IsInvalid ==
  \/ ~IsPointer(Pointer(Number)) \/ ~IsPointer(NextPointer)
  \/ BlockSize < 0
  \/ BlockSize \in 1..MaximumBufferSize /\ Pointer(Number) + BlockSize > SubFile.room

RefuseBlock ==
  /\ InLoop /\ IsInvalid
  /\ ReadWaterInfo /\ EndQuery
  /\ UNCHANGED <<opened, longMax, tile, query, block, dictionaries, nodes, found, background>>

SkipBlock ==
  /\ InLoop /\ ~IsInvalid
  /\ BlockSize = 0 \/ BlockSize > MaximumBufferSize
  /\ ReadWaterInfo /\ NextBlock
  /\ UNCHANGED <<opened, longMax, tile, query, dictionaries, nodes, found, background>>

\* Mutant: the row of the zoom level alone.
CumulatedRow(rows, kind) == rows[query.zoom - SubFile.min + 1][kind]

\* How many elements of a kind the rows up to the query's zoom level have.
Cumulated(rows, kind) == CumulatedTo(rows, kind, query.zoom - SubFile.min + 1)

ProcessBlock ==
  /\ InLoop /\ ~IsInvalid
  /\ BlockSize \in 1..MaximumBufferSize
  /\ ReadWaterInfo
  /\ LET b == Entry(Number) IN
     IF b.head
     THEN /\ phase' = "pois"
          /\ pois' = SubSeq(b.pois, 1, Cumulated(b.rows, "pois"))
          /\ ways' = SubSeq(b.ways, 1, Cumulated(b.rows, "ways"))
          /\ dictionaries' = (Number :> <<>>) @@ dictionaries
          /\ UNCHANGED block
     ELSE NextBlock /\ UNCHANGED dictionaries
  /\ UNCHANGED <<opened, longMax, tile, query, nodes, found, background>>

\* What reading an element comes to.  Numbers are read on from behind the
\* block without a check: one that is cut may pass, be recognised as invalid
\* or raise an exception.
Outcomes(element, ofCut) == IF element.damage = "cut" THEN ofCut ELSE {element.damage}

\* One turn of processPOIs; the dictionary is that of the whole block.
ReadPoi ==
  /\ phase = "pois" /\ pois # <<>>
  /\ LET p == Head(pois) IN
     /\ dictionaries' = [dictionaries EXCEPT ![Number] = p.tags @@ @]
     /\ \E outcome \in Outcomes(p, Damages \ {"late"}) :
          CASE outcome = "none" ->
                 /\ nodes' = Append(nodes, [id |-> p.id, block |-> Number])
                 /\ pois' = Tail(pois) /\ UNCHANGED <<phase, block, ways>>
            [] outcome = "invalid" -> NextBlock /\ UNCHANGED nodes
            [] outcome = "cut" -> EndQuery /\ UNCHANGED <<nodes, block>>
  /\ UNCHANGED <<opened, longMax, tile, query, water, found, background>>

StartWays ==
  /\ phase = "pois" /\ pois = <<>> /\ phase' = "ways"
  /\ UNCHANGED <<opened, longMax, tile, query, block, pois, ways, water, dictionaries, nodes, found, background>>

IsMasked(w) == query.useTileBitmask /\ query.mask \intersect w.mask = {}

\* One turn of processWays: what the bitmask excludes is not looked at.
ReadWay ==
  /\ phase = "ways" /\ ways # <<>>
  /\ LET w == Head(ways) IN
     \E outcome \in Outcomes(w, Damages) :
       /\ found' = IF ~IsMasked(w) /\ outcome \in {"none", "late"} THEN Append(found, w.id) ELSE found
       /\ CASE IsMasked(w) \/ outcome = "none" ->
                 ways' = Tail(ways) /\ UNCHANGED <<phase, block, pois>>
            [] ~IsMasked(w) /\ outcome \in {"invalid", "late"} -> NextBlock
            [] ~IsMasked(w) /\ outcome = "cut" -> EndQuery /\ UNCHANGED block
  /\ UNCHANGED <<opened, longMax, tile, query, water, dictionaries, nodes, background>>

FinishBlock ==
  /\ phase = "ways" /\ ways = <<>> /\ NextBlock
  /\ UNCHANGED <<opened, longMax, tile, query, water, dictionaries, nodes, found, background>>

Finish ==
  /\ phase = "blocks" /\ ~InLoop
  /\ phase' = "done" /\ background' = (water.is /\ water.read)
  /\ UNCHANGED <<opened, longMax, tile, query, block, pois, ways, water, dictionaries, nodes, found>>

-----------------------------------------------------------------------------
Init ==
  /\ opened \in DOMAIN Files /\ longMax \in LongMaxima /\ tile = [zoom |-> 0, x |-> 0, y |-> 0] /\ phase = "idle"
  /\ query = [zoom |-> 0, useTileBitmask |-> FALSE, mask |-> {},
              fromX |-> 0, fromY |-> 0, toX |-> -1, toY |-> -1]
  /\ block = [row |-> 0, column |-> 0] /\ pois = <<>> /\ ways = <<>>
  /\ water = [is |-> TRUE, read |-> FALSE]
  /\ dictionaries = <<>> /\ nodes = <<>> /\ found = <<>> /\ background = FALSE

Next ==
  \/ RefuseBlock \/ SkipBlock \/ ProcessBlock \/ ReadPoi \/ StartWays \/ ReadWay \/ FinishBlock \/ Finish
  \/ \E t \in Tiles : ExecuteQuery(t) \/ ExecuteQueryUncovered(t)

Spec == Init /\ [][Next]_vars
-----------------------------------------------------------------------------
\* What a map file means, without its bits and its order.

\* Two tiles have ground in common.
Meets(a, b) ==
  LET z == Min({a.zoom, b.zoom})
      At(t) == <<t.x \div 2^(t.zoom - z), t.y \div 2^(t.zoom - z)>>
  IN  At(a) = At(b)

TileOfBlock(n) ==
  LET width == BlocksWidth(file, SubFile) IN
  [zoom |-> SubFile.base, x |-> Boundary(file, SubFile).left + (n % width),
   y |-> Boundary(file, SubFile).top + (n \div width)]

\* Bit 15 is the subtile in the north-west, bit 0 the one in the south-east.
Subtile(n, bit) ==
  LET b == TileOfBlock(n) IN
  [zoom |-> b.zoom + 2, x |-> 4 * b.x + ((15 - bit) % 4), y |-> 4 * b.y + ((15 - bit) \div 4)]

BlocksOfTile == {n \in 0..(NumberOfBlocks - 1) : Meets(tile, TileOfBlock(n))}

PoisOfTile(n) == {i \in DOMAIN Entry(n).pois : Entry(n).pois[i].zoom <= query.zoom}
WaysOfTile(n) ==
  {i \in DOMAIN Entry(n).ways :
     LET w == Entry(n).ways[i] IN
     /\ w.zoom <= query.zoom
     /\ tile.zoom > SubFile.base => \E bit \in w.mask : Meets(tile, Subtile(n, bit))}

IsQueried == phase \notin {"idle", "undefined"}

\* Whatever of the file is damaged, each element is reported at most once,
\* and only one that the tile shows: it is in a block the tile meets, belongs
\* to the zoom level of the query and, for a way, reaches into the tile.
OnlyWhatTheTileShows ==
  IsQueried =>
    /\ IsInjective(nodes) /\ IsInjective(found)
    /\ \A i \in DOMAIN nodes : \E n \in BlocksOfTile : \E k \in PoisOfTile(n) :
          nodes[i] = [id |-> Entry(n).pois[k].id, block |-> n]
    /\ \A i \in DOMAIN found : \E n \in BlocksOfTile : \E k \in WaysOfTile(n) :
          found[i] = Entry(n).ways[k].id

\* A block whose bytes can be read, up to what the tile shows of it.
IsSound(n) ==
  LET isLast == n + 1 = NumberOfBlocks
      end == IF isLast THEN SubFile.size ELSE Entry(n + 1).pointer IN
  /\ Entry(n).indexed /\ (isLast \/ Entry(n + 1).indexed)
  /\ IsPointer(Entry(n).pointer) /\ IsPointer(end)
  /\ end - Entry(n).pointer \in 0..MaximumBufferSize /\ end <= SubFile.room
  /\ Entry(n).head
  /\ \A k \in PoisOfTile(n) : Entry(n).pois[k].damage = "none"
  /\ \A k \in WaysOfTile(n) : Entry(n).ways[k].damage = "none"

\* A query that goes to its end has reported all that the tile shows of each
\* sound block, whatever other blocks are; and where each block the tile
\* meets is sound it does go to its end.
SoundBlocksAreReported ==
  /\ phase = "done" =>
       \A n \in BlocksOfTile : IsSound(n) =>
         /\ \A k \in PoisOfTile(n) : [id |-> Entry(n).pois[k].id, block |-> n] \in ToSet(nodes)
         /\ \A k \in WaysOfTile(n) : Entry(n).ways[k].id \in ToSet(found)
  /\ phase = "ended" => \E n \in BlocksOfTile : ~IsSound(n)

\* A long of the build has room for an index entry, its water bit included.
EntryFits == 2 * PointerMax + 1 <= longMax

\* The tile gets a background of water only if the file has blocks for it
\* and each is one of water; and it gets one then, if the query goes to its
\* end and the index entries fit the long that getIndexEntry answers.  In the
\* 32-bit build they do not (IndexCache.m:56): there no tile ever gets one,
\* nor does the sign that an invalid pointer leaves in the bit give one.
BackgroundIsWater ==
  IsQueried =>
    LET allWater == BlocksOfTile # {} /\ \A n \in BlocksOfTile : Entry(n).water IN
    /\ background => allWater /\ EntryFits
    /\ phase = "done" /\ allWater /\ EntryFits => background

\* getQueryZoomLevel: "the closest possible zoom level which is covered by
\* a sub-file" has one.
QueryZoomIsCovered == phase # "undefined"

\* MapDatabaseCallback: "the tags of the node" are those the file gives it.
PoiTagsAreOwn ==
  IsQueried =>
    \A i \in DOMAIN nodes : \A k \in DOMAIN Entry(nodes[i].block).pois :
      LET p == Entry(nodes[i].block).pois[k] IN
      p.id = nodes[i].id => dictionaries[nodes[i].block] = p.tags
=============================================================================
