--------------------------- MODULE MapScreen_proofs ---------------------------
(***************************************************************************)
(* Proofs about MapScreen and TileImageSet, for every world, every tile    *)
(* source, every cache, every gesture and any number of them.              *)
(***************************************************************************)
EXTENDS MapScreen, WellFoundedInduction, TLAPS

-----------------------------------------------------------------------------
(* Zooms and the tiles of the world.                                       *)

(* The smaller and the larger of two numbers.                              *)
LEMMA OfTwo ==
  ASSUME NEW a \in Int, NEW b \in Int
  PROVE  /\ Min({a, b}) = IF a <= b THEN a ELSE b
         /\ Max({a, b}) = IF a >= b THEN a ELSE b
BY DEF Min, Max

(* The zoom of a scale is one of the tile source's.                        *)
LEMMA ZoomIsNormal ==
  ASSUME NEW mpp \in MinMpp..MaxMpp
  PROVE  NormalisedZoom(mpp) \in MinTileZoom..MaxTileZoom
<1>1. MaxTileZoom \in Nat /\ MinTileZoom \in 0..MaxTileZoom
  BY TileImageSetAssumption
<1>2. RoundedZoom(mpp) \in -1..(MaxTileZoom + 1)
  <2>1. \E z \in -1..(MaxTileZoom + 1) : RoundsTo(mpp, z)
    BY ScalesAssumption
  <2>2. QED
    BY <2>1, Zenon DEF RoundedZoom
<1>3. RoundedZoom(mpp) \in Int
  BY <1>1, <1>2
<1>4. PICK m : m = Min({MaxTileZoom, RoundedZoom(mpp)})
  OBVIOUS
<1>5. m \in Int /\ m <= MaxTileZoom
  BY <1>1, <1>3, <1>4, OfTwo
<1>6. Max({MinTileZoom, m}) \in MinTileZoom..MaxTileZoom
  <2>1. MinTileZoom \in Int /\ MinTileZoom <= MaxTileZoom /\ MaxTileZoom \in Int
    BY <1>1
  <2>2. Max({MinTileZoom, m}) = IF MinTileZoom >= m THEN MinTileZoom ELSE m
    BY <2>1, <1>5, OfTwo
  <2>3. QED
    BY <2>1, <2>2, <1>5
<1>7. QED
  BY <1>4, <1>6 DEF NormalisedZoom

(* The tiles of a zoom fill the world.                                     *)
LEMMA SideOfZoom ==
  ASSUME NEW z \in 0..MaxTileZoom
  PROVE  2^z \in Nat \ {0} /\ TileSide(z) \in Nat \ {0} /\ TileSide(z) * 2^z = WorldSide
<1>1. 2^z \in Nat \ {0} /\ WorldSide \in Nat \ {0} /\ WorldSide % 2^z = 0
  BY TileImageSetAssumption
<1>2. PICK p : p = 2^z
  OBVIOUS
<1>3. \A w, q \in Nat \ {0} : w % q = 0 => (w \div q) \in Nat \ {0} /\ (w \div q) * q = w
  OBVIOUS
<1>4. QED
  BY <1>1, <1>3 DEF TileSide

(* The levels above a rectangle: a function that the recursion defines.    *)
IsLadder(level, r, n) == level = [i \in 0..n |-> IF i = 0 THEN r ELSE Coarser(level[i - 1])]

(* There is such a function, for every height.                             *)
LEMMA LadderExists ==
  ASSUME NEW r, NEW n \in Nat
  PROVE  \E level : IsLadder(level, r, n)
<1> DEFINE Bad == {k \in Nat : ~ \E level : IsLadder(level, r, k)}
<1>1. ASSUME Bad # {} PROVE FALSE
  <2>1. PICK k \in Bad : \A j \in Bad : ~(<<j, k>> \in OpToRel(<, Nat))
    <3> HIDE DEF Bad
    <3>1. Bad \subseteq Nat
      BY DEF Bad
    <3>2. QED
      BY <1>1, <3>1, WFMin, NatLessThanWellFounded
  <2>2. k \in Nat /\ \A j \in Nat : j < k => \E level : IsLadder(level, r, j)
    BY <2>1 DEF OpToRel
  <2>3. k # 0
    <3>1. IsLadder([i \in 0..0 |-> r], r, 0)
      BY DEF IsLadder
    <3>2. QED
      BY <2>1, <3>1
  <2>4. PICK g : IsLadder(g, r, k - 1)
    BY <2>2, <2>3
  <2>5. PICK h : h = [i \in 0..k |-> IF i = 0 THEN r ELSE Coarser(g[i - 1])]
    OBVIOUS
  <2>6. \A i \in 0..(k - 1) : h[i] = g[i]
    BY <2>2, <2>4, <2>5 DEF IsLadder
  <2>7. \A i \in 0..k : i # 0 => h[i - 1] = g[i - 1]
    BY <2>2, <2>6
  <2>8. IsLadder(h, r, k)
    BY <2>5, <2>7 DEF IsLadder
  <2>9. QED
    BY <2>1, <2>8
<1>2. QED
  BY <1>1

(* ... of which CoarserBy takes the last.                                  *)
LEMMA CoarserIs ==
  ASSUME NEW r, NEW n \in Nat
  PROVE  \E level : IsLadder(level, r, n) /\ CoarserBy(r, n) = level[n]
<1>1. \E level : level = [i \in 0..n |-> IF i = 0 THEN r ELSE Coarser(level[i - 1])]
  BY LadderExists DEF IsLadder
<1>2. PICK level : level = CHOOSE f : f = [i \in 0..n |-> IF i = 0 THEN r ELSE Coarser(f[i - 1])]
  OBVIOUS
<1>3. IsLadder(level, r, n)
  BY <1>1, <1>2, Zenon DEF IsLadder
<1>4. CoarserBy(r, n) = level[n]
  BY <1>2, Zenon DEF CoarserBy
<1>5. QED
  BY <1>3, <1>4

-----------------------------------------------------------------------------
(* Rectangles of tiles, and the tiles that are added for them.             *)

Rounded == [zoom : 0..MaxTileZoom, x : Int, y : Nat, dx : Int, dy : Int,
            w : Int, h : Int, left : Int, top : Int]

(* The next coarser rectangle of tiles.                                    *)
LEMMA CoarserTyped ==
  ASSUME NEW r \in Rounded, r.zoom # 0
  PROVE  Coarser(r) \in Rounded /\ Coarser(r).zoom = r.zoom - 1
<1>1. MaxTileZoom \in Nat /\ r.zoom \in 0..MaxTileZoom /\ r.x \in Int /\ r.y \in Nat /\ r.dx \in Int /\ r.dy \in Int
  BY TileImageSetAssumption DEF Rounded
<1>2. TileSide(r.zoom) \in Int
  BY <1>1, SideOfZoom
<1>3. PICK dx, dy : /\ dx = IF r.x % 2 = 1 THEN r.dx + TileSide(r.zoom) ELSE r.dx
                    /\ dy = IF r.y % 2 = 1 THEN r.dy + TileSide(r.zoom) ELSE r.dy
  OBVIOUS
<1>4. dx \in Int /\ dy \in Int
  BY <1>1, <1>2, <1>3
<1>5. Coarser(r) = [r EXCEPT !.zoom = r.zoom - 1, !.x = r.x \div 2, !.y = r.y \div 2, !.dx = dx, !.dy = dy]
  BY <1>3 DEF Coarser
<1>6. r.zoom - 1 \in 0..MaxTileZoom /\ r.x \div 2 \in Int /\ r.y \div 2 \in Nat
  BY <1>1
<1>7. QED
  BY <1>4, <1>5, <1>6 DEF Rounded

(* A level n above one is n zooms coarser.                                 *)
LEMMA LevelTyped ==
  ASSUME NEW r \in Rounded, NEW n \in 0..r.zoom
  PROVE  /\ CoarserBy(r, n) \in Rounded /\ CoarserBy(r, n).zoom = r.zoom - n
         /\ n = 0 => CoarserBy(r, n) = r
<1>1. r.zoom \in Nat /\ n \in Nat
  BY TileImageSetAssumption DEF Rounded
<1>2. PICK level : IsLadder(level, r, n) /\ CoarserBy(r, n) = level[n]
  BY <1>1, CoarserIs
<1>3. \A i \in 0..n : level[i] = IF i = 0 THEN r ELSE Coarser(level[i - 1])
  BY <1>2 DEF IsLadder
<1> DEFINE Bad == {i \in 0..n : ~ (level[i] \in Rounded /\ level[i].zoom = r.zoom - i)}
<1>4. ASSUME Bad # {} PROVE FALSE
  <2>1. PICK k \in Bad : \A j \in Bad : ~(<<j, k>> \in OpToRel(<, Nat))
    <3>1. Bad \subseteq Nat
      OBVIOUS
    <3> HIDE DEF Bad
    <3>2. QED
      BY <1>4, <3>1, WFMin, NatLessThanWellFounded
  <2>2. k \in 0..n /\ k \in Nat /\ ~ (level[k] \in Rounded /\ level[k].zoom = r.zoom - k)
    OBVIOUS
  <2>3. k # 0
    BY <1>1, <1>3, <2>2
  <2>4. k - 1 \in 0..n /\ k - 1 \notin Bad
    <3>1. k - 1 \in Nat /\ k - 1 < k /\ k - 1 \in 0..n
      BY <1>1, <2>2, <2>3
    <3> HIDE DEF Bad
    <3>2. QED
      BY <2>1, <2>2, <3>1 DEF OpToRel
  <2>5. level[k - 1] \in Rounded /\ level[k - 1].zoom = r.zoom - (k - 1)
    BY <2>4
  <2>6. level[k - 1].zoom # 0 /\ (r.zoom - (k - 1)) - 1 = r.zoom - k
    BY <1>1, <2>2, <2>5
  <2>7. level[k] = Coarser(level[k - 1])
    BY <1>3, <2>2, <2>3
  <2>8. QED
    BY <2>2, <2>5, <2>6, <2>7, CoarserTyped
<1>5. n \in 0..n /\ 0 \in 0..n
  BY <1>1
<1>6. level[n] \in Rounded /\ level[n].zoom = r.zoom - n
  BY <1>4, <1>5
<1>7. QED
  BY <1>2, <1>3, <1>5, <1>6

(* The levels that addTiles: adds are of the tile source's zooms; one of   *)
(* them is of the screen's.                                                *)
LEMMA LevelsTyped ==
  ASSUME NEW r \in Rounded, r.zoom >= MinTileZoom, NEW z \in Int
  PROVE  /\ \A l \in Levels(z, r) : /\ l \in Rounded /\ l.zoom \in MinTileZoom..r.zoom
                                    /\ l.zoom = r.zoom => l = r
         /\ r \in Levels(z, r)
<1>1. /\ r.zoom \in 0..MaxTileZoom /\ MaxTileZoom \in Nat /\ MinTileZoom \in 0..MaxTileZoom /\ TileDepth \in Nat
      /\ r.zoom \in Int /\ MinTileZoom \in Int
  BY TileImageSetAssumption DEF Rounded
<1>2. PICK lowest : lowest = LowestZoom(z)
  OBVIOUS
<1>3. lowest \in Int /\ lowest >= MinTileZoom
  <2>1. z - TileDepth - 1 \in Int
    BY <1>1
  <2>2. lowest = IF MinTileZoom >= z - TileDepth - 1 THEN MinTileZoom ELSE z - TileDepth - 1
    BY <1>1, <1>2, <2>1, OfTwo DEF LowestZoom
  <2>3. QED
    BY <1>1, <2>1, <2>2
<1>4. PICK top : top = Max({0, r.zoom - 1 - lowest})
  OBVIOUS
<1>5. top \in 0..(r.zoom - MinTileZoom)
  <2>1. 0 \in Int /\ r.zoom - 1 - lowest \in Int
    BY <1>1, <1>3
  <2>2. top = IF 0 >= r.zoom - 1 - lowest THEN 0 ELSE r.zoom - 1 - lowest
    BY <1>4, <2>1, OfTwo
  <2>3. QED
    BY <1>1, <1>3, <2>2
<1>6. \A l : l \in Levels(z, r) <=> \E n \in 0..top : l = CoarserBy(r, n)
  BY <1>2, <1>4 DEF Levels
<1>7. ASSUME NEW n \in 0..top
      PROVE  n \in 0..r.zoom /\ r.zoom - n \in MinTileZoom..r.zoom /\ (r.zoom - n = r.zoom => n = 0)
  BY <1>1, <1>5
<1>8. 0 \in 0..top
  BY <1>1, <1>5
<1>9. ASSUME NEW l \in Levels(z, r)
      PROVE  /\ l \in Rounded /\ l.zoom \in MinTileZoom..r.zoom
             /\ l.zoom = r.zoom => l = r
  <2>1. PICK n \in 0..top : l = CoarserBy(r, n)
    BY <1>6
  <2>2. QED
    BY <1>7, <2>1, LevelTyped
<1>10. QED
  BY <1>6, <1>7, <1>8, <1>9, LevelTyped

(* A bounded set of numbers has a largest one.                             *)
LEMMA LargestOf ==
  ASSUME NEW N \in Nat, NEW S \in SUBSET (1..N), S # {}
  PROVE  Max(S) \in S /\ \A i \in S : i <= Max(S)
<1> DEFINE D == {d \in Nat : N - d \in S}
<1>1. D # {}
  <2>1. PICK i \in S : TRUE
    OBVIOUS
  <2>2. N - i \in Nat /\ N - (N - i) = i
    BY <2>1
  <2>3. QED
    BY <2>1, <2>2
<1>2. PICK d \in D : \A e \in D : ~(<<e, d>> \in OpToRel(<, Nat))
  <2>1. D \subseteq Nat
    OBVIOUS
  <2> HIDE DEF D
  <2>2. QED
    BY <1>1, <2>1, WFMin, NatLessThanWellFounded
<1>3. d \in Nat /\ N - d \in S
  OBVIOUS
<1>4. ASSUME NEW i \in S PROVE i <= N - d
  <2>1. i \in Nat /\ N - i \in Nat /\ N - (N - i) = i
    OBVIOUS
  <2>2. N - i \in D
    BY <2>1
  <2>3. ~ (N - i < d)
    <3> HIDE DEF D
    <3>1. QED
      BY <1>2, <1>3, <2>1, <2>2 DEF OpToRel
  <2>4. QED
    BY <1>3, <2>1, <2>3
<1>5. \E m \in S : \A i \in S : m >= i
  <2>1. \A i \in S : N - d >= i
    BY <1>3, <1>4
  <2>2. QED
    BY <1>3, <2>1
<1>6. Max(S) \in S /\ \A i \in S : Max(S) >= i
  BY <1>5, Zenon DEF Max
<1>7. QED
  BY <1>6

(* What the walk over a rectangle passes: its cells in the world.          *)
LEMMA WalkIs ==
  ASSUME NEW r \in Rounded, NEW columns \in Int, NEW rows \in Int, NEW walk, walk = Walk(r, columns, rows)
  PROVE  \E N \in Nat :
           /\ DOMAIN walk \subseteq 1..N
           /\ \A i \in DOMAIN walk :
                /\ walk[i].zoom = r.zoom /\ walk[i].x \in r.x..(r.x + columns - 1)
                /\ walk[i].y \in r.y..(r.y + rows - 1) /\ ~ IsDummy(walk[i])
                /\ NormalisedTile(walk[i]) = [x |-> walk[i].x % 2^r.zoom, y |-> walk[i].y, zoom |-> r.zoom]
<1>1. PICK steps : steps = Max({OddAbove(columns), OddAbove(rows)})
  OBVIOUS
<1>2. steps * steps \in Nat
  <2>1. OddAbove(columns) \in Int /\ OddAbove(rows) \in Int
    BY DEF OddAbove
  <2>2. steps \in Int
    BY <1>1, <2>1, OfTwo
  <2>3. QED
    BY <2>2
<1>3. PICK cells : cells = [i \in 1..(steps * steps) |->
                     [x |-> Spiral[i - 1].x + r.x + OddAbove(columns) \div 2 - 1,
                      y |-> Spiral[i - 1].y + r.y + OddAbove(rows) \div 2 - 1, zoom |-> r.zoom]]
  OBVIOUS
<1>4. PICK within : within = {i \in DOMAIN cells : /\ cells[i].x \in r.x..(r.x + columns - 1)
                                                  /\ cells[i].y \in r.y..(r.y + rows - 1)}
  OBVIOUS
<1>5. walk = Restrict(cells, {i \in within : \A j \in within : j <= i => ~ IsDummy(cells[j])})
  BY <1>1, <1>3, <1>4 DEF Walk
<1>6. DOMAIN walk \subseteq within /\ \A i \in DOMAIN walk : walk[i] = cells[i] /\ \A j \in within : j <= i => ~ IsDummy(cells[j])
  BY <1>5 DEF Restrict
<1>7. within \subseteq 1..(steps * steps)
  BY <1>3, <1>4
<1>8. ASSUME NEW i \in DOMAIN walk
      PROVE  /\ walk[i].zoom = r.zoom /\ walk[i].x \in r.x..(r.x + columns - 1)
             /\ walk[i].y \in r.y..(r.y + rows - 1) /\ ~ IsDummy(walk[i])
             /\ NormalisedTile(walk[i]) = [x |-> walk[i].x % 2^r.zoom, y |-> walk[i].y, zoom |-> r.zoom]
  <2>1. i \in within /\ walk[i] = cells[i] /\ i \in 1..(steps * steps)
    BY <1>6, <1>7
  <2>2. i \in Int /\ i <= i
    BY <2>1
  <2>3. PICK x, y : walk[i] = [x |-> x, y |-> y, zoom |-> r.zoom]
    BY <1>3, <2>1
  <2>4. /\ walk[i].zoom = r.zoom
        /\ NormalisedTile(walk[i]) = [x |-> walk[i].x % 2^r.zoom, y |-> walk[i].y, zoom |-> r.zoom]
    BY <2>3 DEF NormalisedTile
  <2>5. QED
    BY <1>4, <1>6, <2>1, <2>2, <2>4
<1>9. QED
  BY <1>2, <1>6, <1>7, <1>8

Points == [x : Int, y : Int]

(* The rows and columns of a rectangle are numbers.                        *)
LEMMA RowsAndColumns ==
  ASSUME NEW r \in Rounded
  PROVE  Columns(r) \in Int /\ Rows(r) \in Int
<1>1. r.zoom \in 0..MaxTileZoom /\ r.w + r.dx \in Int /\ r.h + r.dy \in Int
  BY DEF Rounded
<1>2. TileSide(r.zoom) \in Nat \ {0}
  BY <1>1, SideOfZoom
<1>3. \A a \in Int, b \in Nat \ {0} : CeilDiv(a, b) \in Int
  BY DEF CeilDiv
<1>4. QED
  BY <1>1, <1>2, <1>3 DEF Columns, Rows

(* A tile of a level lies in the world, at the place of a cell the walk    *)
(* passes.                                                                 *)
LEMMA PlacesOfLevelTyped ==
  ASSUME NEW r \in Rounded, r.zoom >= MinTileZoom
  PROVE  /\ \A t \in DOMAIN PlacesOfLevel(r) : t \in Tiles /\ t.zoom = r.zoom /\ PlacesOfLevel(r)[t] \in Points
         /\ \E walk :
              /\ walk = Walk(r, Columns(r), Rows(r))
              /\ \A i \in DOMAIN walk : NormalisedTile(walk[i]) \in DOMAIN PlacesOfLevel(r)
              /\ \A t \in DOMAIN PlacesOfLevel(r) :
                   \E i \in DOMAIN walk : NormalisedTile(walk[i]) = t /\ PlacesOfLevel(r)[t] = PlaceOf(r, walk[i])
<1>0. PICK walk : walk = Walk(r, Columns(r), Rows(r))
  OBVIOUS
<1>1. PICK N \in Nat :
           /\ DOMAIN walk \subseteq 1..N
           /\ \A i \in DOMAIN walk :
                /\ walk[i].zoom = r.zoom /\ walk[i].x \in r.x..(r.x + Columns(r) - 1)
                /\ walk[i].y \in r.y..(r.y + Rows(r) - 1) /\ ~ IsDummy(walk[i])
                /\ NormalisedTile(walk[i]) = [x |-> walk[i].x % 2^r.zoom, y |-> walk[i].y, zoom |-> r.zoom]
  BY <1>0, WalkIs, RowsAndColumns
<1>2. PICK places : places = PlacesAlong(r, walk) /\ places = PlacesOfLevel(r)
  BY <1>0 DEF PlacesOfLevel
<1>3. places = [t \in {NormalisedTile(walk[i]) : i \in DOMAIN walk} |->
                  PlaceOf(r, walk[Max({i \in DOMAIN walk : NormalisedTile(walk[i]) = t})])]
  BY <1>2 DEF PlacesAlong
<1>4. DOMAIN places = {NormalisedTile(walk[i]) : i \in DOMAIN walk}
  BY <1>3
<1>5. /\ r.zoom \in 0..MaxTileZoom /\ MaxTileZoom \in Nat /\ MinTileZoom \in 0..MaxTileZoom
      /\ r.x \in Int /\ r.y \in Nat /\ r.dx \in Int /\ r.dy \in Int /\ r.left \in Int /\ r.top \in Int
      /\ r.zoom \in Int
  BY TileImageSetAssumption DEF Rounded
<1>6. PICK p : p = 2^r.zoom
  OBVIOUS
<1>7. p \in Nat \ {0} /\ TileSide(r.zoom) \in Int
  BY <1>5, <1>6, SideOfZoom
<1>8. ASSUME NEW i \in DOMAIN walk
      PROVE  NormalisedTile(walk[i]) \in Tiles /\ NormalisedTile(walk[i]).zoom = r.zoom /\ PlaceOf(r, walk[i]) \in Points
  <2>1. walk[i].x \in Int /\ walk[i].y \in Nat /\ walk[i].y < p
    BY <1>1, <1>5, <1>6, <1>7, RowsAndColumns DEF IsDummy
  <2>2. walk[i].x % p \in 0..(p - 1) /\ walk[i].y \in 0..(p - 1)
    BY <1>7, <2>1
  <2>3. NormalisedTile(walk[i]) \in [x : 0..(p - 1), y : 0..(p - 1), zoom : {r.zoom}]
    BY <1>1, <1>6, <2>2
  <2>4. r.zoom \in MinTileZoom..MaxTileZoom
    BY <1>5
  <2>5. NormalisedTile(walk[i]) \in Tiles
    BY <1>6, <2>3, <2>4 DEF Tiles
  <2>6. PlaceOf(r, walk[i]) \in Points
    BY <1>5, <1>7, <2>1 DEF PlaceOf, Points
  <2>7. QED
    BY <2>3, <2>5, <2>6
<1>9. ASSUME NEW t \in DOMAIN places
      PROVE  \E i \in DOMAIN walk : NormalisedTile(walk[i]) = t /\ places[t] = PlaceOf(r, walk[i])
  <2>1. PICK S : S = {i \in DOMAIN walk : NormalisedTile(walk[i]) = t}
    OBVIOUS
  <2>2. S \in SUBSET (1..N) /\ S # {}
    BY <1>1, <1>4, <2>1
  <2>3. Max(S) \in S
    BY <2>2, LargestOf
  <2>4. places[t] = PlaceOf(r, walk[Max(S)])
    BY <1>3, <2>1
  <2>5. QED
    BY <2>1, <2>3, <2>4
<1>10. \A i \in DOMAIN walk : NormalisedTile(walk[i]) \in DOMAIN places
  BY <1>4
<1>11. \A t \in DOMAIN places : t \in Tiles /\ t.zoom = r.zoom /\ places[t] \in Points
  BY <1>8, <1>9
<1>12. QED
  BY <1>0, <1>2, <1>9, <1>10, <1>11

(* A tile of the screen's zoom gets the place the walk gives it, and those *)
(* of the coarser levels do not interfere.                                 *)
LEMMA PlacesTyped ==
  ASSUME NEW r \in Rounded, r.zoom >= MinTileZoom, NEW z \in Int
  PROVE  /\ \A t \in DOMAIN Places(z, r) :
              /\ t \in Tiles /\ Places(z, r)[t] \in Points
              /\ \E l \in Levels(z, r) : t \in DOMAIN PlacesOfLevel(l)
         /\ \A t \in DOMAIN PlacesOfLevel(r) :
              t \in DOMAIN Places(z, r) /\ Places(z, r)[t] = PlacesOfLevel(r)[t]
<1>1. PICK levels : levels = {PlacesOfLevel(l) : l \in Levels(z, r)}
  OBVIOUS
<1>2. PICK places : places = Places(z, r)
  OBVIOUS
<1>3. places = [t \in UNION {DOMAIN l : l \in levels} |-> (CHOOSE l \in levels : t \in DOMAIN l)[t]]
  BY <1>1, <1>2 DEF Places, Merged
<1>4. \A l \in Levels(z, r) : l \in Rounded /\ l.zoom >= MinTileZoom /\ (l.zoom = r.zoom => l = r)
  <2>1. MinTileZoom \in Int
    BY TileImageSetAssumption
  <2>2. \A l \in Levels(z, r) : l \in Rounded /\ l.zoom \in MinTileZoom..r.zoom /\ (l.zoom = r.zoom => l = r)
    BY LevelsTyped, Zenon
  <2>3. \A a, b, c : b \in Int /\ a \in b..c => a >= b
    OBVIOUS
  <2>4. QED
    BY <2>1, <2>2, <2>3
<1>5. ASSUME NEW t \in DOMAIN places
      PROVE  \E l \in Levels(z, r) : t \in DOMAIN PlacesOfLevel(l) /\ places[t] = PlacesOfLevel(l)[t]
  <2>1. PICK m : m = CHOOSE l \in levels : t \in DOMAIN l
    OBVIOUS
  <2>2. \E l \in levels : t \in DOMAIN l
    BY <1>3
  <2>3. m \in levels /\ t \in DOMAIN m
    BY <2>1, <2>2, Zenon
  <2>4. places[t] = m[t]
    BY <1>3, <2>1, Zenon
  <2>5. QED
    BY <1>1, <2>3, <2>4
<1>6. \A l \in Levels(z, r) : \A t \in DOMAIN PlacesOfLevel(l) :
        t \in Tiles /\ t.zoom = l.zoom /\ PlacesOfLevel(l)[t] \in Points
  BY <1>4, PlacesOfLevelTyped
<1>7. ASSUME NEW t \in DOMAIN PlacesOfLevel(r)
      PROVE  t \in DOMAIN places /\ places[t] = PlacesOfLevel(r)[t]
  <2>1. r \in Levels(z, r)
    BY LevelsTyped
  <2>2. t \in DOMAIN places
    BY <1>1, <1>3, <2>1
  <2>3. PICK l \in Levels(z, r) : t \in DOMAIN PlacesOfLevel(l) /\ places[t] = PlacesOfLevel(l)[t]
    BY <1>5, <2>2
  <2>4. l = r
    BY <1>4, <1>6, <2>1, <2>3
  <2>5. QED
    BY <2>2, <2>3, <2>4
<1>8. QED
  BY <1>2, <1>5, <1>6, <1>7

-----------------------------------------------------------------------------
(* Sets of images.                                                         *)

Typed(im) == DOMAIN im \subseteq Tiles /\ \A t \in DOMAIN im : im[t] \in Images

\* What NothingRedundant says of images on a screen of zoom z.
Clean(z, im) ==
  \A o \in DOMAIN im : o.zoom = z /\ im[o].state = "shown" =>
    \A s \in DOMAIN im : Overlap(s, o) => s.zoom \in (z - TileDepth)..z

(* A tile lies in the world of its zoom.                                   *)
LEMMA TileIs ==
  ASSUME NEW t \in Tiles
  PROVE  /\ t.zoom \in MinTileZoom..MaxTileZoom /\ t.zoom \in 0..MaxTileZoom /\ t.zoom \in Int
         /\ t.x \in 0..(2^t.zoom - 1) /\ t.y \in 0..(2^t.zoom - 1)
         /\ t = [x |-> t.x, y |-> t.y, zoom |-> t.zoom]
<1>1. PICK z \in MinTileZoom..MaxTileZoom : t \in [x : 0..(2^z - 1), y : 0..(2^z - 1), zoom : {z}]
  BY DEF Tiles
<1>2. MaxTileZoom \in Nat /\ MinTileZoom \in 0..MaxTileZoom
  BY TileImageSetAssumption
<1>3. t.zoom = z /\ t.x \in 0..(2^z - 1) /\ t.y \in 0..(2^z - 1) /\ t = [x |-> t.x, y |-> t.y, zoom |-> t.zoom]
  BY <1>1
<1>4. QED
  BY <1>2, <1>3

(* What lies under a tile of the screen's zoom and is neither of that zoom *)
(* nor of the coarser ones under it is worse than the tile ...             *)
LEMMA WorseThanCurrent ==
  ASSUME NEW z \in Int, NEW s, NEW o, s.zoom \in Int, o.zoom = z, Overlap(s, o),
         s.zoom \notin (z - TileDepth)..z
  PROVE  IsWorse(z, s, o) /\ s # o
<1>1. TileDepth \in Nat
  BY TileImageSetAssumption
<1>2. Distance(z, o.zoom) = 0 /\ Distance(z, s.zoom) >= 0
  BY DEF Distance
<1>3. ~ (s.zoom + TileDepth >= z /\ s.zoom <= z) /\ s.zoom # z
  BY <1>1
<1>4. QED
  BY <1>2, <1>3 DEF IsWorse

(* ... and no tile of the screen's zoom is worse than any.                 *)
LEMMA CurrentIsNotWorse ==
  ASSUME NEW z \in Int, NEW s, NEW o, s.zoom = z
  PROVE  ~ IsWorse(z, s, o)
<1>1. TileDepth \in Nat
  BY TileImageSetAssumption
<1>2. s.zoom + TileDepth >= z /\ s.zoom <= z
  BY <1>1
<1>3. QED
  BY <1>2 DEF IsWorse

(* Images that are left over of others.                                    *)
LEMMA FewerImages ==
  ASSUME NEW im, Typed(im), NEW z, NEW D \in SUBSET DOMAIN im, NEW left, left = Restrict(im, D)
  PROVE  Typed(left) /\ DOMAIN left = D /\ (\A t \in D : left[t] = im[t]) /\ (Clean(z, im) => Clean(z, left))
<1>1. DOMAIN left = D /\ \A t \in D : left[t] = im[t] /\ t \in DOMAIN im
  BY DEF Restrict
<1>2. QED
  BY <1>1 DEF Typed, Clean

(* Of the tiles worse than some of a set none is left; those of the        *)
(* screen's zoom are.                                                      *)
LEMMA RemovedAreWorse ==
  ASSUME NEW z \in Int, NEW im, Typed(im), NEW better, NEW left, left = RemoveTilesWorseThan(z, im, better)
  PROVE  /\ Typed(left) /\ DOMAIN left \subseteq DOMAIN im
         /\ \A t \in DOMAIN left : left[t] = im[t]
         /\ \A t \in DOMAIN im : t.zoom = z => t \in DOMAIN left
         /\ \A s \in DOMAIN left, o \in better :
              o.zoom = z /\ Overlap(s, o) => s.zoom \in (z - TileDepth)..z
         /\ Clean(z, im) => Clean(z, left)
<1>1. PICK D : D = {s \in DOMAIN im : ~ \E o \in better \ {s} : IsWorse(z, s, o)}
  OBVIOUS
<1>2. D \in SUBSET DOMAIN im /\ left = Restrict(im, D)
  BY <1>1 DEF RemoveTilesWorseThan
<1>3. Typed(left) /\ DOMAIN left = D /\ (\A t \in D : left[t] = im[t]) /\ (Clean(z, im) => Clean(z, left))
  BY <1>2, FewerImages
<1>4. \A t \in DOMAIN im : t.zoom = z => t \in D
  BY <1>1, CurrentIsNotWorse
<1>5. ASSUME NEW s \in D, NEW o \in better, o.zoom = z, Overlap(s, o) PROVE s.zoom \in (z - TileDepth)..z
  <2>1. s \in Tiles
    BY <1>2 DEF Typed
  <2>2. s.zoom \in Int
    BY <2>1, TileIs
  <2>3. ASSUME s.zoom \notin (z - TileDepth)..z PROVE FALSE
    <3>1. IsWorse(z, s, o) /\ s # o
      BY <1>5, <2>2, <2>3, WorseThanCurrent
    <3>2. QED
      BY <1>1, <3>1
  <2>4. QED
    BY <2>3
<1>6. QED
  BY <1>2, <1>3, <1>4, <1>5

(* Whatever the images were like, those left by setZoom: fit the new zoom. *)
LEMMA SetZoomCleans ==
  ASSUME NEW y, NEW z \in Int, NEW im, Typed(im), Clean(y, im), NEW left, left = SetZoomTo(y, im, z)
  PROVE  Typed(left) /\ DOMAIN left \subseteq DOMAIN im /\ Clean(z, left)
<1>1. CASE y = z
  BY <1>1 DEF SetZoomTo
<1>2. CASE y # z
  <2>0. PICK better : better = LoadedTiles(im)
    OBVIOUS
  <2>1. left = RemoveTilesWorseThan(z, im, better)
    BY <1>2, <2>0 DEF SetZoomTo
  <2>2. /\ Typed(left) /\ DOMAIN left \subseteq DOMAIN im /\ \A t \in DOMAIN left : left[t] = im[t]
        /\ \A s \in DOMAIN left, o \in better :
             o.zoom = z /\ Overlap(s, o) => s.zoom \in (z - TileDepth)..z
    BY <2>1, RemovedAreWorse
  <2>3. \A o \in DOMAIN left : left[o].state = "shown" => o \in better
    BY <2>0, <2>2 DEF LoadedTiles, IsLoaded
  <2>4. QED
    BY <2>2, <2>3 DEF Clean
<1>3. QED
  BY <1>1, <1>2

(* addTiles: gives every tile of the screen's zoom an image at its place,  *)
(* and adds nothing that is redundant.                                     *)
LEMMA AddedTiles ==
  ASSUME NEW z \in Int, NEW im, Typed(im), Clean(z, im),
         NEW places, \A t \in DOMAIN places : t \in Tiles /\ places[t] \in Points,
         NEW hits, NEW added, added = AddTilesAt(z, im, places, hits)
  PROVE  /\ Typed(added) /\ Clean(z, added)
         /\ DOMAIN added \subseteq DOMAIN im \union DOMAIN places
         /\ \A t \in DOMAIN added : t \in DOMAIN places => added[t].at = places[t]
         /\ \A t \in DOMAIN added : t \notin DOMAIN places => added[t] = im[t]
         /\ \A t \in DOMAIN places : t.zoom = z => t \in DOMAIN added
<1>1. PICK needed : needed = {t \in DOMAIN places \ DOMAIN im :
                                ~ \E o \in LoadedTiles(im) : IsWorse(z, t, o)}
  OBVIOUS
<1>2. PICK all : all = [t \in DOMAIN im \union needed |->
        IF t \in needed
          THEN [at |-> places[t], state |-> IF t \in hits THEN "shown" ELSE "loading"]
          ELSE IF t \in DOMAIN places THEN [im[t] EXCEPT !.at = places[t]] ELSE im[t]]
  OBVIOUS
<1>3. added = RemoveTilesWorseThan(z, all, needed \intersect hits)
  BY <1>1, <1>2 DEF AddTilesAt
<1>4. DOMAIN all = DOMAIN im \union needed /\ needed \subseteq DOMAIN places /\ \A t \in needed : t \notin DOMAIN im
  BY <1>1, <1>2
<1>5. \A t \in needed : all[t] = [at |-> places[t], state |-> IF t \in hits THEN "shown" ELSE "loading"]
  BY <1>2
<1>6. \A t \in DOMAIN im : t \in DOMAIN places => all[t] = [im[t] EXCEPT !.at = places[t]]
  BY <1>2, <1>4
<1>7. \A t \in DOMAIN im : t \notin DOMAIN places => all[t] = im[t]
  BY <1>2, <1>4
<1>8. ASSUME NEW t \in DOMAIN im PROVE all[t] \in Images /\ all[t].state = im[t].state
  <2>1. im[t] \in Images
    BY DEF Typed
  <2>2. CASE t \in DOMAIN places
    <3>1. all[t] = [im[t] EXCEPT !.at = places[t]] /\ places[t] \in Points
      BY <1>6, <2>2
    <3>2. QED
      BY <2>1, <3>1 DEF Images, Points
  <2>3. CASE t \notin DOMAIN places
    BY <1>7, <2>1, <2>3
  <2>4. QED
    BY <2>2, <2>3
<1>9. ASSUME NEW t \in needed PROVE all[t] \in Images /\ (all[t].state = "shown" => t \in hits)
  <2>1. places[t] \in Points
    BY <1>4
  <2>2. all[t] = [at |-> places[t], state |-> IF t \in hits THEN "shown" ELSE "loading"]
    BY <1>5
  <2>3. QED
    BY <2>1, <2>2 DEF Images, ImageStates, Points
<1>10. Typed(all)
  BY <1>4, <1>8, <1>9 DEF Typed
<1>11. /\ Typed(added) /\ DOMAIN added \subseteq DOMAIN all
       /\ \A t \in DOMAIN added : added[t] = all[t]
       /\ \A t \in DOMAIN all : t.zoom = z => t \in DOMAIN added
       /\ \A s \in DOMAIN added, o \in needed \intersect hits :
            o.zoom = z /\ Overlap(s, o) => s.zoom \in (z - TileDepth)..z
  BY <1>3, <1>10, RemovedAreWorse
<1>12. ASSUME NEW o \in DOMAIN added, o.zoom = z, added[o].state = "shown", NEW s \in DOMAIN added, Overlap(s, o)
       PROVE  s.zoom \in (z - TileDepth)..z
  <2>1. CASE o \in needed
    BY <1>9, <1>11, <1>12, <2>1
  <2>2. CASE o \in DOMAIN im /\ s \in DOMAIN im
    <3>1. im[o].state = "shown"
      BY <1>8, <1>11, <1>12, <2>2
    <3>2. QED
      BY <1>12, <2>2, <3>1 DEF Clean
  <2>3. CASE o \in DOMAIN im /\ s \in needed
    <3>1. im[o].state = "shown"
      BY <1>8, <1>11, <1>12, <2>3
    <3>2. o \in LoadedTiles(im)
      BY <2>3, <3>1 DEF LoadedTiles, IsLoaded
    <3>3. ~ IsWorse(z, s, o)
      BY <1>1, <2>3, <3>2
    <3>4. s.zoom \in Int
      BY <1>4, <2>3, TileIs
    <3>5. QED
      BY <1>12, <3>3, <3>4, WorseThanCurrent
  <2>4. QED
    BY <1>4, <1>11, <2>1, <2>2, <2>3
<1>13. Clean(z, added)
  BY <1>12 DEF Clean
<1>14. \A t \in DOMAIN im : t \in DOMAIN places => all[t].at = places[t]
  BY <1>6 DEF Typed, Images
<1>15. ASSUME NEW t \in DOMAIN places, t.zoom = z PROVE t \in DOMAIN added
  <2>1. t \in DOMAIN im \/ t \in needed
    BY <1>1, <1>15, CurrentIsNotWorse
  <2>2. QED
    BY <1>4, <1>11, <1>15, <2>1
<1>16. ASSUME NEW t \in needed PROVE all[t].at = places[t]
  <2>1. all[t] = [at |-> places[t], state |-> IF t \in hits THEN "shown" ELSE "loading"]
    BY <1>5
  <2>2. QED
    BY <2>1
<1>17. \A t \in DOMAIN added : t \in DOMAIN places => added[t].at = places[t]
  BY <1>4, <1>11, <1>14, <1>16
<1>18. \A t \in DOMAIN added : t \notin DOMAIN places => added[t] = im[t]
  BY <1>4, <1>7, <1>11
<1>19. QED
  BY <1>4, <1>11, <1>13, <1>15, <1>17, <1>18

-----------------------------------------------------------------------------
(* The screen and the rectangle of tiles that it shows.                    *)

(* The extent of a screen is made of whole numbers.                        *)
LEMMA ScreenIs ==
  ASSUME NEW s \in Screens
  PROVE  /\ s.x \in Int /\ s.y \in Int /\ s.w \in Nat /\ s.h \in Nat
         /\ s.mpp \in MinMpp..MaxMpp /\ s.mpp \in Nat \ {0}
         /\ s.w * s.mpp \in Nat /\ s.h * s.mpp \in Nat /\ Top(s) \in Int /\ Top(s) + s.h * s.mpp = s.y
<1>1. MinMpp \in Nat \ {0} /\ MaxMpp \in Nat
  BY MapScreenAssumption
<1>2. s.x \in Int /\ s.y \in Int /\ s.w \in Nat /\ s.h \in Nat /\ s.mpp \in MinMpp..MaxMpp
  BY DEF Screens
<1>3. s.mpp \in Nat \ {0}
  BY <1>1, <1>2
<1>4. s.w * s.mpp \in Nat /\ s.h * s.mpp \in Nat
  BY <1>2, <1>3
<1>5. PICK h : h = s.h * s.mpp
  OBVIOUS
<1>6. Top(s) = s.y - h
  BY <1>5 DEF Top
<1>7. s.y - h \in Int /\ (s.y - h) + h = s.y
  BY <1>2, <1>4, <1>5
<1>8. QED
  BY <1>2, <1>3, <1>4, <1>5, <1>6, <1>7

(* Wrapping moves a point by whole worlds.                                 *)
LEMMA WrapIs ==
  ASSUME NEW x \in Int
  PROVE  Wrap(x) \in 0..WorldSide /\ \E k \in Int : x = Wrap(x) + k * WorldSide
<1>1. WorldSide \in Nat \ {0}
  BY TileImageSetAssumption
<1>2. ASSUME NEW a \in Int
      PROVE  \E m \in 0..(WorldSide - 1), k \in Int : m = a % WorldSide /\ a = m + k * WorldSide
  <2>1. PICK w \in Nat \ {0} : w = WorldSide
    BY <1>1
  <2>2. a % w \in 0..(w - 1) /\ a \div w \in Int /\ a = (a % w) + (a \div w) * w
    OBVIOUS
  <2>3. QED
    BY <2>1, <2>2
<1>3. CASE x < 0
  <2>1. Wrap(x) = x % WorldSide
    BY <1>3 DEF Wrap
  <2>2. PICK m \in 0..(WorldSide - 1), k \in Int : m = x % WorldSide /\ x = m + k * WorldSide
    BY <1>2
  <2>3. m \in 0..WorldSide
    BY <1>1
  <2>4. QED
    BY <2>1, <2>2, <2>3
<1>4. CASE x > WorldSide
  <2>1. Wrap(x) = 1 + ((x - 1) % WorldSide)
    BY <1>1, <1>4 DEF Wrap
  <2>2. PICK m \in 0..(WorldSide - 1), k \in Int : m = (x - 1) % WorldSide /\ x - 1 = m + k * WorldSide
    <3>1. PICK a \in Int : a = x - 1
      OBVIOUS
    <3>2. QED
      BY ONLY <1>2, <3>1
  <2>3. PICK n : n = k * WorldSide
    OBVIOUS
  <2>4. x - 1 = m + n /\ n \in Int
    BY <1>1, <2>2, <2>3
  <2>5. 1 + m \in 0..WorldSide /\ x = (1 + m) + n
    BY <1>1, <2>4
  <2>6. QED
    BY <2>1, <2>2, <2>3, <2>4, <2>5
<1>5. CASE ~ (x < 0) /\ ~ (x > WorldSide)
  <2>1. Wrap(x) = x
    BY <1>5 DEF Wrap
  <2>2. x = x + 0 * WorldSide /\ x \in 0..WorldSide
    BY <1>1, <1>5
  <2>3. QED
    BY <2>1, <2>2
<1>6. QED
  BY <1>3, <1>4, <1>5

(* The tile of the north-western corner and the rest of it in the tile.    *)
LEMMA TileBoundsIs ==
  ASSUME NEW s \in Screens, NEW z, z = NormalisedZoom(s.mpp), NEW side, side = TileSide(z),
         NEW r, r = TileBounds(s)
  PROVE  /\ z \in MinTileZoom..MaxTileZoom /\ z \in 0..MaxTileZoom /\ side \in Nat \ {0}
         /\ r \in Rounded /\ r.zoom = z /\ r.zoom >= MinTileZoom
         /\ r.x = Wrap(s.x) \div side /\ r.dx = Wrap(s.x) % side
         /\ r.y \in Nat /\ r.top = Top(s) /\ r.dy = Top(s) - r.y * side /\ (Top(s) >= 0 => r.y = Top(s) \div side)
         /\ r.w = s.w * s.mpp /\ r.h = s.h * s.mpp /\ r.left = s.x
<1>1. z \in MinTileZoom..MaxTileZoom /\ MaxTileZoom \in Nat /\ MinTileZoom \in 0..MaxTileZoom
  BY ScreenIs, ZoomIsNormal, TileImageSetAssumption
<1>2. z \in 0..MaxTileZoom /\ z >= MinTileZoom
  BY <1>1
<1>3. side \in Nat \ {0}
  BY <1>2, SideOfZoom
<1>4. /\ s.x \in Int /\ Top(s) \in Int /\ s.w * s.mpp \in Int /\ s.h * s.mpp \in Int /\ Wrap(s.x) \in Int
  <2>1. s.x \in Int /\ Top(s) \in Int /\ s.w * s.mpp \in Int /\ s.h * s.mpp \in Int
    BY ScreenIs
  <2>2. WorldSide \in Nat
    BY TileImageSetAssumption
  <2>3. Wrap(s.x) \in 0..WorldSide
    BY <2>1, WrapIs
  <2>4. QED
    BY <2>1, <2>2, <2>3
<1>5. PICK row : row = Max({0, Top(s) \div side})
  OBVIOUS
<1>6. row \in Nat /\ (Top(s) >= 0 => row = Top(s) \div side)
  <2>1. PICK t : t = Top(s) \div side
    OBVIOUS
  <2>2. t \in Int /\ (Top(s) >= 0 => t >= 0)
    BY <1>3, <1>4, <2>1
  <2>3. row = IF 0 >= t THEN 0 ELSE t
    <3>1. row = Max({0, t})
      BY <1>5, <2>1
    <3>2. 0 \in Int
      OBVIOUS
    <3>3. QED
      BY <2>2, <3>1, <3>2, OfTwo, Zenon
  <2>4. QED
    BY <2>1, <2>2, <2>3
<1>7. r = [zoom |-> z, x |-> Wrap(s.x) \div side, y |-> row,
           dx |-> Wrap(s.x) % side, dy |-> Top(s) - row * side,
           w |-> s.w * s.mpp, h |-> s.h * s.mpp, left |-> s.x, top |-> Top(s)]
  BY <1>5 DEF TileBounds
<1>8. Wrap(s.x) \div side \in Int /\ Wrap(s.x) % side \in Int /\ Top(s) - row * side \in Int
  BY <1>3, <1>4, <1>6
<1>9. r \in Rounded
  BY <1>2, <1>4, <1>6, <1>7, <1>8 DEF Rounded
<1>10. QED
  BY <1>1, <1>2, <1>3, <1>6, <1>7, <1>9

-----------------------------------------------------------------------------
(* The walk of addTiles:ToDisplayIn:.                                      *)

SpiralStep(p) ==
  LET turn == p.x = p.y \/ (p.x < 0 /\ p.x = -p.y) \/ (p.x > 0 /\ p.x = 1 - p.y)
      dx == IF turn THEN -p.dy ELSE p.dx
      dy == IF turn THEN p.dx ELSE p.dy
  IN [x |-> p.x + dx, y |-> p.y + dy, dx |-> dx, dy |-> dy]
SpiralLength == (MaxSpan + 3) * (MaxSpan + 3)
InTheMiddle == [x |-> 0, y |-> 0, dx |-> 0, dy |-> -1]

(* Spiral is what its recursion says.                                      *)
LEMMA SpiralIs ==
  /\ SpiralLength \in Nat /\ Spiral[0] = InTheMiddle
  /\ \A i \in 1..SpiralLength : Spiral[i] = SpiralStep(Spiral[i - 1])
<1>1. SpiralLength \in Nat
  <2>1. MaxSpan \in Nat
    BY TileImageSetAssumption
  <2>2. QED
    BY <2>1 DEF SpiralLength
<1> DEFINE Is(g, n) == g = [i \in 0..n |-> IF i = 0 THEN InTheMiddle ELSE SpiralStep(g[i - 1])]
           Bad == {k \in Nat : ~ \E g : Is(g, k)}
<1>2. ASSUME Bad # {} PROVE FALSE
  <2>1. PICK k \in Bad : \A j \in Bad : ~(<<j, k>> \in OpToRel(<, Nat))
    <3> HIDE DEF Bad
    <3>1. Bad \subseteq Nat
      BY DEF Bad
    <3>2. QED
      BY <1>2, <3>1, WFMin, NatLessThanWellFounded
  <2>2. k \in Nat /\ \A j \in Nat : j < k => \E g : Is(g, j)
    <3> HIDE DEF Is
    <3>1. QED
      BY <2>1 DEF OpToRel
  <2>3. k # 0
    <3>1. Is([i \in 0..0 |-> InTheMiddle], 0)
      OBVIOUS
    <3> HIDE DEF Is
    <3>2. QED
      BY <2>1, <3>1
  <2>4. PICK g : Is(g, k - 1)
    <3> HIDE DEF Is
    <3>1. QED
      BY <2>2, <2>3
  <2>5. PICK h : h = [i \in 0..k |-> IF i = 0 THEN InTheMiddle ELSE SpiralStep(g[i - 1])]
    OBVIOUS
  <2>6. \A i \in 0..(k - 1) : h[i] = g[i]
    BY <2>2, <2>4, <2>5
  <2>7. \A i \in 0..k : i # 0 => h[i - 1] = g[i - 1]
    BY <2>2, <2>6
  <2>8. Is(h, k)
    BY <2>5, <2>7
  <2> HIDE DEF Is
  <2>9. QED
    BY <2>1, <2>8
<1>3. \E g : Is(g, SpiralLength)
  <2> HIDE DEF Is
  <2>1. QED
    BY <1>1, <1>2
<1>4. \E g : g = [i \in 0..((MaxSpan + 3) * (MaxSpan + 3)) |->
          IF i = 0 THEN [x |-> 0, y |-> 0, dx |-> 0, dy |-> -1]
          ELSE LET p == g[i - 1]
                   turn == p.x = p.y \/ (p.x < 0 /\ p.x = -p.y) \/ (p.x > 0 /\ p.x = 1 - p.y)
                   dx == IF turn THEN -p.dy ELSE p.dx
                   dy == IF turn THEN p.dx ELSE p.dy
               IN [x |-> p.x + dx, y |-> p.y + dy, dx |-> dx, dy |-> dy]]
  BY <1>3, Zenon DEF SpiralStep, SpiralLength, InTheMiddle
<1>5. Spiral = [i \in 0..((MaxSpan + 3) * (MaxSpan + 3)) |->
          IF i = 0 THEN [x |-> 0, y |-> 0, dx |-> 0, dy |-> -1]
          ELSE LET p == Spiral[i - 1]
                   turn == p.x = p.y \/ (p.x < 0 /\ p.x = -p.y) \/ (p.x > 0 /\ p.x = 1 - p.y)
                   dx == IF turn THEN -p.dy ELSE p.dx
                   dy == IF turn THEN p.dx ELSE p.dy
               IN [x |-> p.x + dx, y |-> p.y + dy, dx |-> dx, dy |-> dy]]
  BY <1>4, Zenon DEF Spiral
<1>6. Spiral = [i \in 0..SpiralLength |-> IF i = 0 THEN InTheMiddle ELSE SpiralStep(Spiral[i - 1])]
  BY <1>5, Zenon DEF SpiralStep, SpiralLength, InTheMiddle
<1>7. 0 \in 0..SpiralLength /\ \A i \in 1..SpiralLength : i \in 0..SpiralLength /\ i # 0
  BY <1>1
<1>8. QED
  BY <1>1, <1>6, <1>7

\* The k-th time round: up the east side, west along the north (of the
\* code's axes), down the west and east along the south, one step beyond.
Round(k) ==
  [j \in 0..(8 * k) |->
    IF j = 0 THEN [x |-> k, y |-> 1 - k, dx |-> 1, dy |-> 0]
    ELSE IF j < 2 * k THEN [x |-> k, y |-> 1 - k + j, dx |-> 0, dy |-> 1]
    ELSE IF j < 4 * k THEN [x |-> 3 * k - 1 - j, y |-> k, dx |-> -1, dy |-> 0]
    ELSE IF j < 6 * k THEN [x |-> -k, y |-> 5 * k - 1 - j, dx |-> 0, dy |-> -1]
    ELSE [x |-> j + 1 - 7 * k, y |-> -k, dx |-> 1, dy |-> 0]]

(* It goes by the steps of the walk.                                       *)
LEMMA RoundSteps ==
  ASSUME NEW k \in Nat \ {0}, NEW j \in 0..(8 * k - 1)
  PROVE  Round(k)[j + 1] = SpiralStep(Round(k)[j])
<1>1. j \in 0..(8 * k) /\ j + 1 \in 0..(8 * k) /\ j + 1 # 0
  OBVIOUS
<1>2. Round(k)[j + 1] =
        IF j + 1 < 2 * k THEN [x |-> k, y |-> 2 - k + j, dx |-> 0, dy |-> 1]
        ELSE IF j + 1 < 4 * k THEN [x |-> 3 * k - 2 - j, y |-> k, dx |-> -1, dy |-> 0]
        ELSE IF j + 1 < 6 * k THEN [x |-> -k, y |-> 5 * k - 2 - j, dx |-> 0, dy |-> -1]
        ELSE [x |-> j + 2 - 7 * k, y |-> -k, dx |-> 1, dy |-> 0]
  <2>1. /\ 1 - k + (j + 1) = 2 - k + j /\ 3 * k - 1 - (j + 1) = 3 * k - 2 - j
        /\ 5 * k - 1 - (j + 1) = 5 * k - 2 - j /\ (j + 1) + 1 - 7 * k = j + 2 - 7 * k
    BY <1>1
  <2>2. QED
    BY <1>1, <2>1 DEF Round
<1>3. \A x, y, dx, dy \in Int :
        LET turn == x = y \/ (x < 0 /\ x = -y) \/ (x > 0 /\ x = 1 - y) IN
        SpiralStep([x |-> x, y |-> y, dx |-> dx, dy |-> dy]) =
          IF turn THEN [x |-> x - dy, y |-> y + dx, dx |-> -dy, dy |-> dx]
          ELSE [x |-> x + dx, y |-> y + dy, dx |-> dx, dy |-> dy]
  BY DEF SpiralStep
<1>4. CASE j = 0
  <2>1. Round(k)[j] = [x |-> k, y |-> 1 - k, dx |-> 1, dy |-> 0]
    BY <1>1, <1>4 DEF Round
  <2>2. SpiralStep(Round(k)[j]) = [x |-> k - 0, y |-> (1 - k) + 1, dx |-> -0, dy |-> 1]
    BY <2>1 DEF SpiralStep
  <2>3. QED
    BY <1>2, <1>4, <2>2
<1>5. CASE j # 0 /\ j < 2 * k
  <2>1. Round(k)[j] = [x |-> k, y |-> 1 - k + j, dx |-> 0, dy |-> 1]
    BY <1>1, <1>5 DEF Round
  <2>2. SpiralStep(Round(k)[j]) =
          IF j = 2 * k - 1 THEN [x |-> k - 1, y |-> k, dx |-> -1, dy |-> 0]
          ELSE [x |-> k, y |-> 2 - k + j, dx |-> 0, dy |-> 1]
    BY <1>5, <2>1 DEF SpiralStep
  <2>3. QED
    BY <1>2, <1>5, <2>2
<1>6. CASE ~ (j < 2 * k) /\ j < 4 * k
  <2>1. Round(k)[j] = [x |-> 3 * k - 1 - j, y |-> k, dx |-> -1, dy |-> 0]
    BY <1>1, <1>6 DEF Round
  <2>2. SpiralStep(Round(k)[j]) =
          IF j = 4 * k - 1 THEN [x |-> -k, y |-> k - 1, dx |-> 0, dy |-> -1]
          ELSE [x |-> 3 * k - 2 - j, y |-> k, dx |-> -1, dy |-> 0]
    BY <1>6, <2>1 DEF SpiralStep
  <2>3. QED
    BY <1>2, <1>6, <2>2
<1>7. CASE ~ (j < 4 * k) /\ j < 6 * k
  <2>1. Round(k)[j] = [x |-> -k, y |-> 5 * k - 1 - j, dx |-> 0, dy |-> -1]
    BY <1>1, <1>7 DEF Round
  <2>2. SpiralStep(Round(k)[j]) =
          IF j = 6 * k - 1 THEN [x |-> 1 - k, y |-> -k, dx |-> 1, dy |-> 0]
          ELSE [x |-> -k, y |-> 5 * k - 2 - j, dx |-> 0, dy |-> -1]
    BY <1>7, <2>1 DEF SpiralStep
  <2>3. QED
    BY <1>2, <1>7, <2>2
<1>8. CASE ~ (j < 6 * k)
  <2>1. Round(k)[j] = [x |-> j + 1 - 7 * k, y |-> -k, dx |-> 1, dy |-> 0]
    BY <1>1, <1>8 DEF Round
  <2>2. SpiralStep(Round(k)[j]) = [x |-> j + 2 - 7 * k, y |-> -k, dx |-> 1, dy |-> 0]
    BY <1>8, <2>1 DEF SpiralStep
  <2>3. QED
    BY <1>2, <1>8, <2>2
<1>9. QED
  BY <1>4, <1>5, <1>6, <1>7, <1>8

(* A walk that starts on it follows it.                                    *)
LEMMA RoundIsFollowed ==
  ASSUME NEW k \in Nat \ {0}, NEW b \in Nat, b + 8 * k <= SpiralLength, Spiral[b] = Round(k)[0]
  PROVE  \A j \in 0..(8 * k) : Spiral[b + j] = Round(k)[j]
<1> DEFINE Bad == {j \in 0..(8 * k) : Spiral[b + j] # Round(k)[j]}
<1>1. ASSUME Bad # {} PROVE FALSE
  <2>1. PICK j \in Bad : \A i \in Bad : ~(<<i, j>> \in OpToRel(<, Nat))
    <3>1. Bad \subseteq Nat
      OBVIOUS
    <3> HIDE DEF Bad
    <3>2. QED
      BY <1>1, <3>1, WFMin, NatLessThanWellFounded
  <2>2. j \in 0..(8 * k) /\ j \in Nat /\ Spiral[b + j] # Round(k)[j]
    OBVIOUS
  <2>3. j # 0
    BY <2>2
  <2>4. PICK i : i = j - 1
    OBVIOUS
  <2>5. i \in Nat /\ i < j /\ i \in 0..(8 * k - 1) /\ i \in 0..(8 * k) /\ j = i + 1
    BY <2>2, <2>3, <2>4
  <2>6. Spiral[b + i] = Round(k)[i]
    <3>1. i \notin Bad
      <4> HIDE DEF Bad
      <4>1. QED
        BY <2>1, <2>2, <2>5 DEF OpToRel
    <3>2. QED
      BY <2>5, <3>1
  <2>7. PICK n : n = b + j
    OBVIOUS
  <2>8. n \in 1..SpiralLength /\ n - 1 = b + i
    BY <2>2, <2>5, <2>7, SpiralIs
  <2>9. Spiral[n] = SpiralStep(Spiral[b + i])
    BY <2>8, SpiralIs
  <2>10. Round(k)[j] = SpiralStep(Round(k)[i])
    BY <2>5, RoundSteps
  <2>11. QED
    BY <2>2, <2>6, <2>7, <2>9, <2>10
<1>2. QED
  BY <1>1

(* The k-th time round begins after the square inside it.                  *)
LEMMA RoundBegins ==
  ASSUME NEW k \in Nat \ {0}, (2 * k - 1) * (2 * k - 1) <= SpiralLength
  PROVE  Spiral[(2 * k - 1) * (2 * k - 1)] = Round(k)[0]
<1> DEFINE At(i) == (2 * i - 1) * (2 * i - 1)
           Bad == {i \in Nat \ {0} : At(i) <= SpiralLength /\ Spiral[At(i)] # Round(i)[0]}
<1>0. SpiralLength \in Nat
  BY SpiralIs
<1>1. ASSUME Bad # {} PROVE FALSE
  <2>1. PICK n \in Bad : \A i \in Bad : ~(<<i, n>> \in OpToRel(<, Nat))
    <3>1. Bad \subseteq Nat
      OBVIOUS
    <3> HIDE DEF Bad
    <3>2. QED
      BY <1>1, <3>1, WFMin, NatLessThanWellFounded
  <2>2. n \in Nat \ {0} /\ At(n) <= SpiralLength /\ Spiral[At(n)] # Round(n)[0]
    OBVIOUS
  <2>3. ASSUME n = 1 PROVE FALSE
    <3>1. At(n) = 1
      BY <2>3
    <3>2. 1 \in 1..SpiralLength /\ 1 - 1 = 0
      BY <1>0, <2>2, <3>1
    <3>3. Spiral[1] = SpiralStep(InTheMiddle)
      BY <3>2, SpiralIs
    <3>4. SpiralStep(InTheMiddle) = [x |-> 1, y |-> 0, dx |-> 1, dy |-> 0]
      BY DEF SpiralStep, InTheMiddle
    <3>5. Round(1)[0] = [x |-> 1, y |-> 0, dx |-> 1, dy |-> 0]
      BY DEF Round
    <3>6. QED
      BY <2>2, <2>3, <3>1, <3>3, <3>4, <3>5
  <2>4. PICK m : m = n - 1
    OBVIOUS
  <2>5. m \in Nat \ {0} /\ m < n /\ n = m + 1
    BY <2>2, <2>3, <2>4
  <2>6. At(n) = At(m) + 8 * m /\ At(m) \in Nat /\ 8 * m \in 0..(8 * m)
    BY <2>5
  <2>7. At(m) <= SpiralLength /\ At(m) + 8 * m <= SpiralLength
    <3> HIDE DEF At
    <3>1. QED
      BY <1>0, <2>2, <2>5, <2>6
  <2>8. Spiral[At(m)] = Round(m)[0]
    <3>1. m \notin Bad
      <4> HIDE DEF Bad
      <4>1. QED
        BY <2>1, <2>2, <2>5 DEF OpToRel
    <3> HIDE DEF At
    <3>2. QED
      BY <2>5, <2>7, <3>1
  <2>9. Spiral[At(m) + 8 * m] = Round(m)[8 * m]
    <3> HIDE DEF At
    <3>1. QED
      BY <2>5, <2>6, <2>7, <2>8, RoundIsFollowed
  <2>10. Round(m)[8 * m] = [x |-> m + 1, y |-> -m, dx |-> 1, dy |-> 0]
    BY <2>5 DEF Round
  <2>11. Round(n)[0] = [x |-> m + 1, y |-> -m, dx |-> 1, dy |-> 0]
    BY <2>5 DEF Round
  <2>12. QED
    <3> HIDE DEF At
    <3>1. QED
      BY <2>2, <2>6, <2>9, <2>10, <2>11
<1>2. QED
  BY <1>1

(* The walk passes every place of a square, before it leaves it.           *)
LEMMA SpiralCovers ==
  ASSUME NEW n \in Nat, NEW N, N = (2 * n + 1) * (2 * n + 1), N <= SpiralLength,
         NEW x \in -n..n, NEW y \in -n..n
  PROVE  \E i \in 0..(N - 1) : Spiral[i].x = x /\ Spiral[i].y = y
<1>1. N = (2 * n + 1) * (2 * n + 1)
  OBVIOUS
<1>2. N \in Nat \ {0} /\ N <= SpiralLength /\ SpiralLength \in Nat
  BY <1>1, SpiralIs
<1>3. CASE x = 0 /\ y = 0
  <2>1. Spiral[0].x = 0 /\ Spiral[0].y = 0
    BY SpiralIs DEF InTheMiddle
  <2>2. QED
    BY <1>1, <1>2, <1>3, <2>1
<1>4. CASE ~ (x = 0 /\ y = 0)
  <2>1. \E k \in 1..n : /\ x \in -k..k /\ y \in -k..k /\ (x = k \/ x = -k \/ y = k \/ y = -k)
    <3>1. PICK u, v : u = (IF x < 0 THEN -x ELSE x) /\ v = (IF y < 0 THEN -y ELSE y)
      OBVIOUS
    <3>2. PICK k : k = IF u < v THEN v ELSE u
      OBVIOUS
    <3>3. /\ k \in 1..n /\ x \in -k..k /\ y \in -k..k /\ (x = k \/ x = -k \/ y = k \/ y = -k)
      BY <1>4, <3>1, <3>2
    <3>4. QED
      BY <3>3
  <2>2. PICK k \in 1..n : x \in -k..k /\ y \in -k..k /\ (x = k \/ x = -k \/ y = k \/ y = -k)
    BY <2>1
  <2>3. k \in Nat \ {0} /\ k <= n
    OBVIOUS
  <2>4. PICK b : b = (2 * k - 1) * (2 * k - 1)
    OBVIOUS
  <2>5. b \in Nat /\ b + 8 * k <= N
    <3>1. b + 8 * k = (2 * k + 1) * (2 * k + 1) /\ b \in Nat
      BY <2>3, <2>4
    <3>2. (2 * k + 1) * (2 * k + 1) <= (2 * n + 1) * (2 * n + 1)
      BY <2>3
    <3>3. QED
      BY <1>1, <3>1, <3>2
  <2>6. b <= SpiralLength /\ b + 8 * k <= SpiralLength
    BY <1>2, <2>3, <2>5
  <2>7. \A j \in 0..(8 * k) : Spiral[b + j] = Round(k)[j]
    BY <2>3, <2>4, <2>5, <2>6, RoundBegins, RoundIsFollowed
  <2>8. \E j \in 0..(8 * k - 1) : Round(k)[j].x = x /\ Round(k)[j].y = y
    <3>1. CASE x = k /\ y # -k
      <4>1. y + k - 1 \in 0..(8 * k - 1) /\ Round(k)[y + k - 1].x = x /\ Round(k)[y + k - 1].y = y
        BY <2>2, <2>3, <3>1 DEF Round
      <4>2. QED
        BY <4>1
    <3>2. CASE y = k /\ x # k
      <4>1. 3 * k - 1 - x \in 0..(8 * k - 1) /\ Round(k)[3 * k - 1 - x].x = x /\ Round(k)[3 * k - 1 - x].y = y
        BY <2>2, <2>3, <3>2 DEF Round
      <4>2. QED
        BY <4>1
    <3>3. CASE x = -k /\ y # k
      <4>1. 5 * k - 1 - y \in 0..(8 * k - 1) /\ Round(k)[5 * k - 1 - y].x = x /\ Round(k)[5 * k - 1 - y].y = y
        BY <2>2, <2>3, <3>3 DEF Round
      <4>2. QED
        BY <4>1
    <3>4. CASE y = -k /\ x # -k
      <4>1. x - 1 + 7 * k \in 0..(8 * k - 1) /\ Round(k)[x - 1 + 7 * k].x = x /\ Round(k)[x - 1 + 7 * k].y = y
        BY <2>2, <2>3, <3>4 DEF Round
      <4>2. QED
        BY <4>1
    <3>5. QED
      BY <2>2, <2>3, <3>1, <3>2, <3>3, <3>4
  <2>9. PICK j \in 0..(8 * k - 1) : Round(k)[j].x = x /\ Round(k)[j].y = y
    BY <2>8
  <2>10. b + j \in 0..(N - 1) /\ j \in 0..(8 * k)
    BY <1>2, <2>3, <2>5
  <2>11. QED
    BY <1>1, <2>7, <2>9, <2>10
<1>5. QED
  BY <1>3, <1>4

-----------------------------------------------------------------------------
(* No image is redundant.                                                  *)

Neat == screen \in Screens /\ Typed(images) /\ zoom \in 0..MaxTileZoom /\ Clean(zoom, images)

(* A screen that is loaded anew.                                           *)
LEMMA LoadedIsNeat ==
  ASSUME NEW s \in Screens, NEW y, NEW im, Typed(im), Clean(y, im), NEW tiles, NEW r, r = TileBounds(s),
         NEW added, added = AddTiles(r.zoom, SetZoomTo(y, im, r.zoom), r, Cached),
         NEW left, left = IF tiles THEN RemoveTilesOutsideOf(added, r) ELSE added
  PROVE  /\ Typed(added) /\ Typed(left) /\ r.zoom \in 0..MaxTileZoom /\ Clean(r.zoom, left)
         /\ \A t \in DOMAIN added : t \in DOMAIN Places(r.zoom, r) => added[t].at = Places(r.zoom, r)[t]
         /\ \A t \in DOMAIN Places(r.zoom, r) : t.zoom = r.zoom => t \in DOMAIN added
<1>1. r \in Rounded /\ r.zoom >= MinTileZoom /\ r.zoom \in 0..MaxTileZoom
  BY TileBoundsIs
<1>2. r.zoom \in Int
  BY <1>1, TileImageSetAssumption
<1>3. PICK fit : fit = SetZoomTo(y, im, r.zoom)
  OBVIOUS
<1>4. Typed(fit) /\ Clean(r.zoom, fit)
  BY <1>2, <1>3, SetZoomCleans
<1>5. PICK places : places = Places(r.zoom, r)
  OBVIOUS
<1>6. \A t \in DOMAIN places : t \in Tiles /\ places[t] \in Points
  BY <1>1, <1>2, <1>5, PlacesTyped
<1>7. added = AddTilesAt(r.zoom, fit, places, Cached)
  BY <1>3, <1>5 DEF AddTiles
<1>8. /\ Typed(added) /\ Clean(r.zoom, added)
      /\ \A t \in DOMAIN added : t \in DOMAIN places => added[t].at = places[t]
      /\ \A t \in DOMAIN places : t.zoom = r.zoom => t \in DOMAIN added
  BY <1>2, <1>4, <1>6, <1>7, AddedTiles
<1>9. Typed(left) /\ Clean(r.zoom, left)
  <2>1. CASE tiles
    <3>1. PICK D : D = TilesInside(added, r)
      OBVIOUS
    <3>2. D \in SUBSET DOMAIN added
      BY <3>1 DEF TilesInside
    <3>3. left = Restrict(added, D)
      BY <2>1, <3>1 DEF RemoveTilesOutsideOf
    <3>4. QED
      BY <1>8, <3>2, <3>3, FewerImages
  <2>2. CASE ~ tiles
    BY <1>8, <2>2
  <2>3. QED
    BY <2>1, <2>2
<1>10. QED
  BY <1>1, <1>5, <1>8, <1>9

(* Whatever moved the images, the update that ends each gesture leaves     *)
(* them neat.                                                              *)
LEMMA UpdateIsNeat ==
  ASSUME zoom \in 0..MaxTileZoom, NEW s \in Screens, NEW moved, Typed(moved), Clean(zoom, moved),
         NEW bounds, NEW tiles, NEW together, UpdateLoadedImages(s, moved, bounds, tiles, together)
  PROVE  Neat'
<1>1. screen' = s
  BY DEF UpdateLoadedImages
<1>2. CASE images' = moved /\ zoom' = zoom
  BY <1>1, <1>2 DEF Neat, Typed, Clean
<1>3. CASE \E r : /\ r = TileBounds(s) /\ zoom' = r.zoom
                  /\ images' = LET added == AddTiles(r.zoom, SetZoomTo(zoom, moved, r.zoom), r, Cached) IN
                               IF tiles THEN RemoveTilesOutsideOf(added, r) ELSE added
  <2>1. PICK r : /\ r = TileBounds(s) /\ zoom' = r.zoom
                 /\ images' = LET added == AddTiles(r.zoom, SetZoomTo(zoom, moved, r.zoom), r, Cached) IN
                              IF tiles THEN RemoveTilesOutsideOf(added, r) ELSE added
    BY <1>3
  <2>2. PICK added : added = AddTiles(r.zoom, SetZoomTo(zoom, moved, r.zoom), r, Cached)
    OBVIOUS
  <2>3. PICK left : left = IF tiles THEN RemoveTilesOutsideOf(added, r) ELSE added
    OBVIOUS
  <2>4. images' = left
    BY <2>1, <2>2, <2>3
  <2>5. Typed(left) /\ r.zoom \in 0..MaxTileZoom /\ Clean(r.zoom, left)
    BY <2>1, <2>2, <2>3, LoadedIsNeat
  <2>6. QED
    BY <1>1, <2>1, <2>4, <2>5 DEF Neat, Typed, Clean
<1>4. QED
  BY <1>2, <1>3 DEF UpdateLoadedImages

(* Images that are moved are as neat as before.                            *)
LEMMA ShiftedIsNeat ==
  ASSUME Neat, NEW dx \in Int, NEW dy \in Int, NEW D \in SUBSET DOMAIN images,
         NEW moved, moved = Restrict(ShiftImages(dx, dy), D)
  PROVE  Typed(moved) /\ Clean(zoom, moved)
<1>1. PICK all : all = ShiftImages(dx, dy)
  OBVIOUS
<1>2. DOMAIN all = DOMAIN images
  BY <1>1 DEF ShiftImages
<1>3. ASSUME NEW t \in DOMAIN images PROVE all[t] \in Images /\ all[t].state = images[t].state
  <2>1. images[t] \in Images
    BY DEF Neat, Typed
  <2>2. all[t] = [images[t] EXCEPT !.at = [x |-> images[t].at.x + dx, y |-> images[t].at.y + dy]]
    BY <1>1 DEF ShiftImages
  <2>3. QED
    BY <2>1, <2>2 DEF Images
<1>4. Typed(all)
  BY <1>2, <1>3 DEF Neat, Typed
<1>5. Clean(zoom, all)
  BY <1>2, <1>3 DEF Neat, Clean
<1>6. QED
  BY <1>1, <1>2, <1>4, <1>5, FewerImages

(* All of the images are some of them.                                     *)
LEMMA AllShifted ==
  ASSUME NEW dx, NEW dy
  PROVE  ShiftImages(dx, dy) = Restrict(ShiftImages(dx, dy), DOMAIN images)
BY DEF ShiftImages, Restrict

(* A screen that the images follow.                                        *)
LEMMA FollowIsNeat ==
  ASSUME Neat, NEW s \in Screens, Follow(s)
  PROVE  Neat'
<1>1. PICK wrapped : wrapped = [s EXCEPT !.x = Wrap(s.x)]
  OBVIOUS
<1>2. s.x \in Int /\ Wrap(s.x) \in Int
  BY ScreenIs, WrapIs, TileImageSetAssumption
<1>3. wrapped \in Screens /\ wrapped.x = Wrap(s.x)
  BY <1>1, <1>2 DEF Screens
<1>4. PICK dx : dx = wrapped.x - s.x
  OBVIOUS
<1>5. dx \in Int /\ 0 \in Int
  BY <1>2, <1>3, <1>4
<1>6. PICK moved : moved = ShiftImages(dx, 0)
  OBVIOUS
<1>7. Typed(moved) /\ Clean(zoom, moved)
  BY <1>5, <1>6, AllShifted, ShiftedIsNeat
<1>8. UpdateLoadedImages(wrapped, moved, ShiftBounds(dx, 0), loadedTiles, aligned)
  BY <1>1, <1>4, <1>6 DEF Follow
<1>9. QED
  BY <1>3, <1>7, <1>8, UpdateIsNeat DEF Neat

(* A screen that they do not follow.                                       *)
LEMMA JumpIsNeat ==
  ASSUME Neat, NEW s \in Screens, NEW reload, NEW tiles, NEW set \in SUBSET DOMAIN images, Jump(s, reload, tiles, set)
  PROVE  Neat'
<1>1. PICK dx, dy : dx = s.x - screen.x /\ dy = Top(s) - Top(screen)
  OBVIOUS
<1>2. dx \in Int /\ dy \in Int
  BY <1>1, ScreenIs DEF Neat
<1>3. PICK moved : moved = Restrict(ShiftImages(dx, dy), set)
  OBVIOUS
<1>4. Typed(moved) /\ Clean(zoom, moved)
  BY <1>2, <1>3, ShiftedIsNeat
<1>5. UpdateLoadedImages(s, moved, IF reload THEN NoBounds ELSE ShiftBounds(dx, dy), tiles, reload /\ aligned)
  BY <1>1, <1>3 DEF Jump
<1>6. QED
  BY <1>4, <1>5, UpdateIsNeat DEF Neat

(* The scale of a screen no wider than the world.                          *)
LEMMA BoundedMppIs ==
  ASSUME NEW m \in Int, screen \in Screens
  PROVE  BoundedMpp(m) \in Int
<1>1. WorldSide \in Nat \ {0} /\ screen.w \in Nat
  BY TileImageSetAssumption, ScreenIs
<1>2. PICK n : n = screen.w
  OBVIOUS
<1>3. CASE WorldSide < m * screen.w
  <2>1. n \in Nat \ {0}
    <3>1. ASSUME n = 0 PROVE FALSE
      <4>1. m * n = 0
        BY <3>1
      <4>2. QED
        BY <1>1, <1>2, <1>3, <4>1
    <3>2. QED
      BY <1>1, <1>2, <3>1
  <2>2. WorldSide \div n \in Int
    BY <1>1, <2>1
  <2>3. QED
    BY <1>2, <1>3, <2>2 DEF BoundedMpp
<1>4. CASE ~ (WorldSide < m * screen.w)
  BY <1>4 DEF BoundedMpp
<1>5. QED
  BY <1>3, <1>4

(* A screen with another centre.                                           *)
LEMMA CenteredIs ==
  ASSUME NEW s \in Screens, NEW x \in Int, NEW y \in Int
  PROVE  /\ Centered(s, x, y) \in Screens
         /\ Centered(s, x, y).mpp = s.mpp /\ Centered(s, x, y).w = s.w /\ Centered(s, x, y).h = s.h
<1>1. Wrap(x) \in Int
  BY WrapIs, TileImageSetAssumption
<1>2. PICK a, b : a = s.w * s.mpp /\ b = s.h * s.mpp
  OBVIOUS
<1>3. a \in Nat /\ b \in Nat
  BY <1>2, ScreenIs
<1>4. a \div 2 \in Int /\ b \div 2 \in Int
  BY <1>3
<1>5. PICK u, v : u = Wrap(x) - a \div 2 /\ v = y + b \div 2
  OBVIOUS
<1>6. u \in Int /\ v \in Int
  BY <1>1, <1>4, <1>5
<1>7. Centered(s, x, y) = [s EXCEPT !.x = u, !.y = v]
  BY <1>2, <1>5 DEF Centered
<1>8. QED
  BY <1>6, <1>7 DEF Screens

(* The screens of the gestures.                                            *)
MovedScreen(d) == [screen EXCEPT !.x = @ - d.x * screen.mpp, !.y = @ - d.y * screen.mpp]
ZoomedScreen(m, p) ==
  [screen EXCEPT !.mpp = m, !.x = @ + p.x * (screen.mpp - m), !.y = @ - (screen.h - p.y) * (screen.mpp - m)]
SetScreen(asked) ==
  Centered([screen EXCEPT !.mpp = Max({MinMpp, Min({MaxMpp, asked})})],
           screen.x + (screen.w * screen.mpp) \div 2, screen.y - (screen.h * screen.mpp) \div 2)

(* The screen after moveBy:.                                               *)
LEMMA MovedScreenIs ==
  ASSUME screen \in Screens, NEW d \in Steps
  PROVE  MovedScreen(d) \in Screens /\ MovedScreen(d).w = screen.w /\ MovedScreen(d).h = screen.h
<1>1. d \in [x : Int, y : Int]
  BY MapScreenAssumption
<1>2. screen.mpp \in Int /\ screen.x \in Int /\ screen.y \in Int
  BY ScreenIs
<1>3. PICK u, v : u = d.x * screen.mpp /\ v = d.y * screen.mpp
  OBVIOUS
<1>4. u \in Int /\ v \in Int
  BY <1>1, <1>2, <1>3
<1>5. PICK a, b : a = screen.x - u /\ b = screen.y - v
  OBVIOUS
<1>6. a \in Int /\ b \in Int
  BY <1>2, <1>4, <1>5
<1>7. MovedScreen(d) = [screen EXCEPT !.x = a, !.y = b]
  BY <1>3, <1>5 DEF MovedScreen
<1>8. QED
  BY <1>6, <1>7 DEF Screens

(* The screen after a pinch around a point, within the limits of the scale. *)
LEMMA ZoomedScreenIs ==
  ASSUME screen \in Screens, NEW m \in Int, MinMpp < m, m < MaxMpp, NEW p \in Pivots
  PROVE  /\ ZoomedScreen(m, p) \in Screens
         /\ ZoomedScreen(m, p).w = screen.w /\ ZoomedScreen(m, p).h = screen.h
<1>1. p \in [x : Int, y : Int] /\ MinMpp \in Int /\ MaxMpp \in Int
  BY MapScreenAssumption
<1>2. screen.mpp \in Int /\ screen.x \in Int /\ screen.y \in Int /\ screen.h \in Int
  BY ScreenIs
<1>3. PICK n, g : n = screen.mpp - m /\ g = screen.h - p.y
  OBVIOUS
<1>4. n \in Int /\ g \in Int
  BY <1>1, <1>2, <1>3
<1>5. PICK u, v : u = p.x * n /\ v = g * n
  OBVIOUS
<1>6. u \in Int /\ v \in Int
  BY <1>1, <1>4, <1>5
<1>7. PICK a, b : a = screen.x + u /\ b = screen.y - v
  OBVIOUS
<1>8. a \in Int /\ b \in Int
  BY <1>2, <1>6, <1>7
<1>9. ZoomedScreen(m, p) = [screen EXCEPT !.mpp = m, !.x = a, !.y = b]
  BY <1>3, <1>5, <1>7 DEF ZoomedScreen
<1>10. m \in MinMpp..MaxMpp
  BY <1>1
<1>11. QED
  BY <1>8, <1>9, <1>10 DEF Screens

(* The screen after a scale was set: the one asked for, within the limits.  *)
LEMMA SetScreenIs ==
  ASSUME screen \in Screens, NEW asked \in Int
  PROVE  /\ SetScreen(asked) \in Screens
         /\ SetScreen(asked).w = screen.w /\ SetScreen(asked).h = screen.h
<1>1. MinMpp \in Int /\ MaxMpp \in Int /\ MinMpp <= MaxMpp
  BY MapScreenAssumption DEF Screens
<1>2. PICK m : m = Min({MaxMpp, asked})
  OBVIOUS
<1>3. m \in Int /\ m <= MaxMpp
  BY <1>1, <1>2, OfTwo
<1>4. PICK n : n = Max({MinMpp, m})
  OBVIOUS
<1>5. n \in MinMpp..MaxMpp
  <2>1. n = IF MinMpp >= m THEN MinMpp ELSE m
    BY <1>1, <1>3, <1>4, OfTwo
  <2>2. QED
    BY <1>1, <1>3, <2>1
<1>6. PICK s : s = [screen EXCEPT !.mpp = n]
  OBVIOUS
<1>7. s \in Screens /\ s.w = screen.w /\ s.h = screen.h
  BY <1>5, <1>6 DEF Screens
<1>8. PICK a, b : a = screen.w * screen.mpp /\ b = screen.h * screen.mpp
  OBVIOUS
<1>9. a \div 2 \in Int /\ b \div 2 \in Int /\ screen.x \in Int /\ screen.y \in Int
  BY <1>8, ScreenIs
<1>10. PICK x, y : x = screen.x + a \div 2 /\ y = screen.y - b \div 2
  OBVIOUS
<1>11. x \in Int /\ y \in Int
  BY <1>9, <1>10
<1>12. SetScreen(asked) = Centered(s, x, y)
  BY <1>2, <1>4, <1>6, <1>8, <1>10 DEF SetScreen
<1>13. QED
  BY <1>7, <1>11, <1>12, CenteredIs

(* Each step keeps the images neat.                                        *)
LEMMA GestureIsNeat ==
  ASSUME Neat, Gesture
  PROVE  Neat'
<1>1. screen \in Screens
  BY DEF Neat
<1>2. /\ Factors \subseteq Int /\ Centers \subseteq [x : Int, y : Int] /\ Frames \subseteq [w : Nat, h : Nat]
  BY MapScreenAssumption
<1>3. ASSUME NEW mpp \in Factors, SetZoom(mpp) PROVE Neat'
  <2>1. SetScreen(mpp) \in Screens
    BY <1>1, <1>2, SetScreenIs
  <2>2. Jump(SetScreen(mpp), FALSE, loadedTiles, DOMAIN images)
    BY <1>3 DEF SetZoom, SetScreen
  <2>3. QED
    BY <2>1, <2>2, JumpIsNeat
<1>4. ASSUME NEW c \in Centers, SetMapCenter(c) PROVE Neat'
  <2>1. Centered(screen, c.x, c.y) \in Screens
    BY <1>1, <1>2, CenteredIs
  <2>2. Jump(Centered(screen, c.x, c.y), TRUE, loadedTiles, DOMAIN images)
    BY <1>4 DEF SetMapCenter
  <2>3. QED
    BY <2>1, <2>2, JumpIsNeat
<1>5. ASSUME NEW delta \in Steps, MoveBy(delta) PROVE Neat'
  <2>1. MovedScreen(delta) \in Screens /\ Follow(MovedScreen(delta))
    BY <1>1, <1>5, MovedScreenIs DEF MoveBy, MovedScreen
  <2>2. QED
    BY <2>1, FollowIsNeat
<1>6. ASSUME NEW asked \in Factors, NEW pivot \in Pivots, ZoomByFactor(asked, pivot) PROVE Neat'
  <2>1. PICK m : m = BoundedMpp(asked)
    OBVIOUS
  <2>2. m \in Int
    BY <1>1, <1>2, <2>1, BoundedMppIs
  <2>3. MinMpp < m /\ m < MaxMpp /\ Follow(ZoomedScreen(m, pivot))
    BY <1>6, <2>1 DEF ZoomByFactor, ZoomedScreen
  <2>4. ZoomedScreen(m, pivot) \in Screens
    BY <1>1, <2>2, <2>3, ZoomedScreenIs
  <2>5. QED
    BY <2>3, <2>4, FollowIsNeat
<1>7. ASSUME NEW f \in Frames, SetFrame(f) PROVE Neat'
  <2>1. PICK s : s = [screen EXCEPT !.w = f.w, !.h = f.h]
    OBVIOUS
  <2>2. s \in Screens
    BY <1>1, <1>2, <2>1 DEF Screens
  <2>3. Jump(s, TRUE, loadedTiles, DOMAIN images)
    BY <1>7, <2>1 DEF SetFrame
  <2>4. QED
    BY <2>2, <2>3, JumpIsNeat
<1>8. ASSUME SetTileSource PROVE Neat'
  BY <1>1, <1>8, JumpIsNeat DEF SetTileSource
<1>9. QED
  BY <1>3, <1>4, <1>5, <1>6, <1>7, <1>8 DEF Gesture

(* An image set without redundant tiles still has none after an answer.    *)
LEMMA AnswerIsNeat ==
  ASSUME Neat, NEW t \in DOMAIN images, ImageLoaded(t) \/ ImageNotLoaded(t)
  PROVE  Neat'
<1>1. Typed(images) /\ Clean(zoom, images) /\ zoom \in Int /\ zoom \in 0..MaxTileZoom /\ screen \in Screens
  BY TileImageSetAssumption DEF Neat
<1>2. t \in Tiles /\ images[t] \in Images /\ t.zoom \in Int
  BY <1>1, TileIs DEF Typed
<1>3. CASE ImageLoaded(t)
  <2>1. PICK im : im = [images EXCEPT ![t].state = "shown"]
    OBVIOUS
  <2>2. Typed(im) /\ DOMAIN im = DOMAIN images /\ \A o \in DOMAIN im : o # t => im[o] = images[o]
    BY <1>1, <1>2, <2>1 DEF Typed, Images, ImageStates
  <2>3. PICK left : left = RemoveTilesWorseThan(zoom, im, {t})
    OBVIOUS
  <2>4. /\ Typed(left) /\ DOMAIN left \subseteq DOMAIN im /\ \A o \in DOMAIN left : left[o] = im[o]
        /\ \A s \in DOMAIN left, o \in {t} : o.zoom = zoom /\ Overlap(s, o) => s.zoom \in (zoom - TileDepth)..zoom
    BY <1>1, <2>2, <2>3, RemovedAreWorse
  <2>5. Clean(zoom, left)
    BY <1>1, <2>2, <2>4 DEF Clean
  <2>6. images' = left /\ screen' = screen /\ zoom' = zoom
    BY <1>3, <2>1, <2>3 DEF ImageLoaded
  <2>7. QED
    BY <1>1, <2>4, <2>5, <2>6 DEF Neat, Typed, Clean
<1>4. CASE ImageNotLoaded(t)
  <2>1. PICK state \in NotLoadedStates : images' = [images EXCEPT ![t].state = state]
    BY <1>4 DEF ImageNotLoaded
  <2>2. state \in ImageStates /\ state # "shown"
    BY MapScreenAssumption
  <2>3. PICK im : im = [images EXCEPT ![t].state = state]
    OBVIOUS
  <2>4. Typed(im) /\ DOMAIN im = DOMAIN images /\ im[t].state # "shown"
        /\ \A o \in DOMAIN im : o # t => im[o] = images[o]
    BY <1>1, <1>2, <2>2, <2>3 DEF Typed, Images
  <2>5. Clean(zoom, im)
    BY <1>1, <2>4 DEF Clean
  <2>6. images' = im /\ screen' = screen /\ zoom' = zoom
    BY <1>4, <2>1, <2>3 DEF ImageNotLoaded
  <2>7. QED
    BY <1>1, <2>4, <2>5, <2>6 DEF Neat, Typed, Clean
<1>5. QED
  BY <1>3, <1>4

(* The end of init and the timer update the screen as it is.               *)
LEMMA UpdateInPlaceIsNeat ==
  ASSUME Neat, UpdateLoadedImages(screen, images, loadedBounds, loadedTiles, aligned)
  PROVE  Neat'
BY UpdateIsNeat DEF Neat

(* Where a tile of the screen's zoom is shown, no image of another zoom is *)
(* kept that setZoom:, addTile: or tileImageLoaded: takes for worse: for   *)
(* every tile source, in every order of gestures and answers.              *)
THEOREM SpecNothingRedundant == Spec => []NothingRedundant
<1>1. Init => Neat
  <2>1. SUFFICES ASSUME Init PROVE Neat
    OBVIOUS
  <2>2. screen \in Screens
    BY <2>1, MapScreenAssumption DEF Init
  <2>3. zoom \in 0..MaxTileZoom
    <3>1. MaxTileZoom \in Nat /\ zoom = 0
      BY <2>1, TileImageSetAssumption DEF Init
    <3>2. QED
      BY <3>1
  <2>4. DOMAIN images = {}
    BY <2>1 DEF Init
  <2>5. QED
    BY <2>2, <2>3, <2>4 DEF Neat, Typed, Clean
<1>2. Neat /\ [Next]_vars => Neat'
  <2>1. SUFFICES ASSUME Neat, [Next]_vars PROVE Neat'
    OBVIOUS
  <2>2. CASE FinishInit
    BY <2>1, <2>2, UpdateInPlaceIsNeat DEF FinishInit
  <2>3. CASE Gesture
    BY <2>1, <2>3, GestureIsNeat
  <2>4. CASE Suspend
    BY <2>1, <2>4 DEF Suspend, Neat, Typed, Clean
  <2>5. CASE Resume
    <3>1. CASE waiting
      BY <2>1, <2>5, <3>1, UpdateInPlaceIsNeat DEF Resume
    <3>2. CASE ~ waiting
      BY <2>1, <2>5, <3>2 DEF Resume, Neat, Typed, Clean
    <3>3. QED
      BY <3>1, <3>2
  <2>6. CASE Answer
    BY <2>1, <2>6, AnswerIsNeat DEF Answer
  <2>7. CASE UNCHANGED vars
    BY <2>1, <2>7 DEF vars, Neat, Typed, Clean
  <2>8. QED
    BY <2>1, <2>2, <2>3, <2>4, <2>5, <2>6, <2>7 DEF Next
<1>3. Neat => NothingRedundant
  BY DEF Neat, Clean, NothingRedundant
<1>4. QED
  BY <1>1, <1>2, <1>3, PTL DEF Spec

-----------------------------------------------------------------------------
(* The cells of a rectangle, each of which gets an image.                  *)

(* Rounding up to whole tiles.                                             *)
LEMMA CeilDivIs ==
  ASSUME NEW a \in Int, NEW b \in Nat \ {0}
  PROVE  CeilDiv(a, b) \in Int /\ CeilDiv(a, b) * b >= a /\ CeilDiv(a, b) * b < a + b
<1>1. PICK q : q = (-a) \div b
  OBVIOUS
<1>2. q \in Int /\ q * b <= -a /\ -a < q * b + b
  BY <1>1
<1>3. CeilDiv(a, b) = -q /\ (-q) * b = -(q * b) /\ q * b \in Int
  BY <1>1, <1>2 DEF CeilDiv
<1>4. QED
  BY <1>2, <1>3

(* Of two multiples of a side, the one of the smaller number is smaller.   *)
LEMMA FewerSides ==
  ASSUME NEW m \in Int, NEW n \in Int, NEW side \in Nat \ {0}, m * side < n * side
  PROVE  m < n
<1>1. ASSUME n <= m PROVE FALSE
  <2>1. PICK d : d = m - n
    OBVIOUS
  <2>2. d \in Nat /\ m = n + d
    BY <1>1, <2>1
  <2>3. m * side = n * side + d * side /\ d * side \in Nat /\ n * side \in Int
    BY <2>2
  <2>4. QED
    BY <2>3
<1>2. QED
  BY <1>1

(* As many tiles as the world has are all different.                       *)
LEMMA ColumnsDiffer ==
  ASSUME NEW p \in Nat \ {0}, NEW a \in Int, NEW b \in Int, a % p = b % p, a - b < p, b - a < p
  PROVE  a = b
<1>1. PICK q, o : q = a \div p /\ o = b \div p
  OBVIOUS
<1>2. q \in Int /\ o \in Int /\ a = q * p + (a % p) /\ b = o * p + (b % p) /\ a % p \in Int
  BY <1>1
<1>3. a - b = q * p - o * p /\ q * p \in Int /\ o * p \in Int
  BY <1>2
<1>4. (q - o) * p < 1 * p /\ (o - q) * p < 1 * p
  BY <1>2, <1>3
<1>5. q - o < 1 /\ o - q < 1
  BY <1>2, <1>4, FewerSides
<1>6. q = o
  BY <1>2, <1>5
<1>7. QED
  BY <1>2, <1>3, <1>6

(* A column, or one of the next world's.                                   *)
LEMMA ColumnWraps ==
  ASSUME NEW p \in Nat \ {0}, NEW a \in Int, 0 <= a, a < p + p
  PROVE  a % p = IF a < p THEN a ELSE a - p
OBVIOUS

(* The middle of the walk's square.                                        *)
LEMMA OddAboveIs ==
  ASSUME NEW n \in Nat, n <= MaxSpan
  PROVE  \E m \in Nat \ {0} : /\ OddAbove(n) = 2 * m + 1 /\ OddAbove(n) \div 2 = m
                              /\ OddAbove(n) <= MaxSpan + 3 /\ n < 2 * m
<1>1. MaxSpan \in Nat
  BY TileImageSetAssumption
<1>2. CASE n % 2 = 0
  <2>1. PICK k \in Nat : n = 2 * k
    BY <1>2
  <2>2. OddAbove(n) = 2 * (k + 1) + 1
    BY <1>2, <2>1 DEF OddAbove
  <2>3. (2 * (k + 1) + 1) \div 2 = k + 1 /\ k + 1 \in Nat \ {0} /\ 2 * (k + 1) + 1 <= MaxSpan + 3 /\ n < 2 * (k + 1)
    BY <1>1, <2>1
  <2>4. QED
    BY <2>2, <2>3
<1>3. CASE n % 2 = 1
  <2>1. PICK k \in Nat : n = 2 * k + 1
    BY <1>3
  <2>2. OddAbove(n) = 2 * (k + 1) + 1
    BY <1>3, <2>1 DEF OddAbove
  <2>3. (2 * (k + 1) + 1) \div 2 = k + 1 /\ k + 1 \in Nat \ {0} /\ 2 * (k + 1) + 1 <= MaxSpan + 3 /\ n < 2 * (k + 1)
    BY <1>1, <2>1
  <2>4. QED
    BY <2>2, <2>3
<1>4. n % 2 = 0 \/ n % 2 = 1
  OBVIOUS
<1>5. QED
  BY <1>2, <1>3, <1>4

(* The walk passes each cell of a rectangle of tiles that lies in the      *)
(* world.                                                                  *)
LEMMA WalkCovers ==
  ASSUME NEW r \in Rounded, NEW columns \in 0..MaxSpan, NEW rows \in 0..MaxSpan, r.y + rows <= 2^r.zoom,
         NEW x \in r.x..(r.x + columns - 1), NEW y \in r.y..(r.y + rows - 1),
         NEW walk, walk = Walk(r, columns, rows)
  PROVE  \E i \in DOMAIN walk : walk[i] = [x |-> x, y |-> y, zoom |-> r.zoom]
<1>1. MaxSpan \in Nat /\ columns \in Nat /\ rows \in Nat /\ columns <= MaxSpan /\ rows <= MaxSpan
  BY TileImageSetAssumption
<1>2. /\ r.x \in Int /\ r.y \in Nat /\ r.zoom \in 0..MaxTileZoom /\ x \in Int /\ y \in Int
  BY DEF Rounded
<1>3. PICK p : p = 2^r.zoom
  OBVIOUS
<1>4. p \in Nat \ {0}
  BY <1>2, <1>3, SideOfZoom
<1>5. PICK m \in Nat \ {0} : /\ OddAbove(columns) = 2 * m + 1 /\ OddAbove(columns) \div 2 = m
                             /\ OddAbove(columns) <= MaxSpan + 3 /\ columns < 2 * m
  BY <1>1, OddAboveIs
<1>6. PICK k \in Nat \ {0} : /\ OddAbove(rows) = 2 * k + 1 /\ OddAbove(rows) \div 2 = k
                             /\ OddAbove(rows) <= MaxSpan + 3 /\ rows < 2 * k
  BY <1>1, OddAboveIs
<1>7. PICK steps : steps = Max({OddAbove(columns), OddAbove(rows)})
  OBVIOUS
<1>8. PICK n \in Nat : n = IF m >= k THEN m ELSE k
  OBVIOUS
<1>9. steps = 2 * n + 1 /\ steps <= MaxSpan + 3 /\ m <= n /\ k <= n
  <2>1. PICK a \in Int, b \in Int : a = 2 * m + 1 /\ b = 2 * k + 1
    OBVIOUS
  <2>2. OddAbove(columns) = a /\ OddAbove(rows) = b
    BY <1>5, <1>6, <2>1
  <2>3. steps = Max({a, b})
    BY <1>7, <2>2
  <2>4. steps = IF a >= b THEN a ELSE b
    BY <2>3, OfTwo
  <2>5. QED
    BY <1>5, <1>6, <1>8, <2>1, <2>2, <2>4
<1>10. (2 * n + 1) * (2 * n + 1) <= SpiralLength
  <2>1. \A a, b \in Nat : a <= b => a * a <= b * b
    OBVIOUS
  <2>2. QED
    BY <1>1, <1>9, <2>1 DEF SpiralLength
<1>11. PICK u, v : u = x - r.x - m + 1 /\ v = y - r.y - k + 1
  OBVIOUS
<1>12. u \in -n..n /\ v \in -n..n
  BY <1>1, <1>2, <1>5, <1>6, <1>9, <1>11
<1>13. PICK N : N = (2 * n + 1) * (2 * n + 1)
  OBVIOUS
<1>14. PICK j \in 0..(N - 1) : Spiral[j].x = u /\ Spiral[j].y = v
  <2>1. N <= SpiralLength
    BY <1>10, <1>13
  <2>2. n \in Nat
    BY <1>8
  <2>3. QED
    BY ONLY <1>12, <1>13, <2>1, <2>2, SpiralCovers
<1>15. N \in Nat /\ N = steps * steps /\ j + 1 \in 1..N /\ (j + 1) - 1 = j
  <2>1. N \in Nat /\ N = steps * steps
    BY <1>9, <1>13
  <2>2. QED
    BY <1>14, <2>1
<1>16. PICK cells : cells = [i \in 1..(steps * steps) |->
                      [x |-> Spiral[i - 1].x + r.x + OddAbove(columns) \div 2 - 1,
                       y |-> Spiral[i - 1].y + r.y + OddAbove(rows) \div 2 - 1, zoom |-> r.zoom]]
  OBVIOUS
<1>17. PICK within : within = {i \in DOMAIN cells : /\ cells[i].x \in r.x..(r.x + columns - 1)
                                                   /\ cells[i].y \in r.y..(r.y + rows - 1)}
  OBVIOUS
<1>18. walk = Restrict(cells, {i \in within : \A h \in within : h <= i => ~ IsDummy(cells[h])})
  BY <1>7, <1>16, <1>17 DEF Walk
<1>19. cells[j + 1] = [x |-> x, y |-> y, zoom |-> r.zoom]
  <2>1. u + r.x + m - 1 = x /\ v + r.y + k - 1 = y
    BY <1>2, <1>11
  <2>2. cells[j + 1] = [x |-> Spiral[j].x + r.x + m - 1, y |-> Spiral[j].y + r.y + k - 1, zoom |-> r.zoom]
    BY <1>5, <1>6, <1>15, <1>16
  <2>3. QED
    BY <1>14, <2>1, <2>2
<1>20. j + 1 \in within
  BY <1>15, <1>16, <1>17, <1>19
<1>21. ASSUME NEW h \in within PROVE ~ IsDummy(cells[h])
  <2>1. h \in 1..(steps * steps) /\ cells[h].y \in r.y..(r.y + rows - 1)
    BY <1>16, <1>17
  <2>2. cells[h].zoom = r.zoom
    BY <1>16, <2>1
  <2>3. cells[h].y \in Int /\ cells[h].y < p
    BY <1>1, <1>2, <1>3, <1>4, <2>1
  <2>4. QED
    BY <1>3, <1>4, <2>2, <2>3 DEF IsDummy
<1>22. PICK D : D = {i \in within : \A h \in within : h <= i => ~ IsDummy(cells[h])}
  OBVIOUS
<1>23. j + 1 \in D
  BY <1>20, <1>21, <1>22
<1>24. walk = Restrict(cells, D)
  BY <1>18, <1>22
<1>25. j + 1 \in DOMAIN walk /\ walk[j + 1] = cells[j + 1]
  BY <1>16, <1>17, <1>20, <1>23, <1>24 DEF Restrict
<1>26. QED
  BY <1>19, <1>25

(* Each cell of a rectangle no wider than the world gets its tile, at its  *)
(* own place.                                                              *)
LEMMA PlaceOfCell ==
  ASSUME NEW r \in Rounded, r.zoom >= MinTileZoom, NEW C \in 0..MaxSpan, C = Columns(r), NEW R \in 0..MaxSpan, R = Rows(r),
         C <= 2^r.zoom, r.y + R <= 2^r.zoom,
         NEW x \in r.x..(r.x + C - 1), NEW y \in r.y..(r.y + R - 1),
         NEW t, t = [x |-> x % 2^r.zoom, y |-> y, zoom |-> r.zoom]
  PROVE  /\ t \in DOMAIN PlacesOfLevel(r)
         /\ PlacesOfLevel(r)[t] = PlaceOf(r, [x |-> x, y |-> y, zoom |-> r.zoom])
<1>1. PICK walk :
        /\ walk = Walk(r, C, R)
        /\ \A i \in DOMAIN walk : NormalisedTile(walk[i]) \in DOMAIN PlacesOfLevel(r)
        /\ \A o \in DOMAIN PlacesOfLevel(r) :
             \E i \in DOMAIN walk : NormalisedTile(walk[i]) = o /\ PlacesOfLevel(r)[o] = PlaceOf(r, walk[i])
  BY PlacesOfLevelTyped
<1>2. C \in Int /\ R \in Int /\ r.x \in Int /\ r.y \in Int /\ x \in Int /\ y \in Int /\ r.zoom \in 0..MaxTileZoom
  BY DEF Rounded
<1>3. PICK p : p = 2^r.zoom
  OBVIOUS
<1>4. p \in Nat \ {0}
  BY <1>2, <1>3, SideOfZoom
<1>5. PICK i \in DOMAIN walk : walk[i] = [x |-> x, y |-> y, zoom |-> r.zoom]
  BY <1>1, WalkCovers
<1>6. \A h \in DOMAIN walk :
        /\ walk[h].x \in r.x..(r.x + C - 1)
        /\ NormalisedTile(walk[h]) = [x |-> walk[h].x % p, y |-> walk[h].y, zoom |-> r.zoom]
  <2>1. \E N \in Nat :
           /\ DOMAIN walk \subseteq 1..N
           /\ \A h \in DOMAIN walk :
                /\ walk[h].zoom = r.zoom /\ walk[h].x \in r.x..(r.x + C - 1)
                /\ walk[h].y \in r.y..(r.y + R - 1) /\ ~ IsDummy(walk[h])
                /\ NormalisedTile(walk[h]) = [x |-> walk[h].x % 2^r.zoom, y |-> walk[h].y, zoom |-> r.zoom]
    BY <1>1, <1>2, WalkIs
  <2>2. QED
    BY <1>3, <2>1
<1>7. NormalisedTile(walk[i]) = t
  BY <1>3, <1>5, <1>6
<1>8. t \in DOMAIN PlacesOfLevel(r)
  BY <1>1, <1>7
<1>9. PICK h \in DOMAIN walk : NormalisedTile(walk[h]) = t /\ PlacesOfLevel(r)[t] = PlaceOf(r, walk[h])
  BY <1>1, <1>8
<1>10. walk[h].y = y /\ walk[h].x % p = x % p
  BY <1>3, <1>6, <1>9
<1>11. PICK u : u = walk[h].x
  OBVIOUS
<1>12. u \in Int /\ u - x < p /\ x - u < p
  BY <1>2, <1>3, <1>4, <1>6, <1>11
<1>13. u = x
  BY <1>2, <1>4, <1>10, <1>11, <1>12, ColumnsDiffer
<1>14. QED
  BY <1>8, <1>9, <1>10, <1>11, <1>13 DEF PlaceOf

(* The clamp of the span is for rectangles without tiles only.             *)
LEMMA Spans ==
  ASSUME NEW n \in Int, n >= 1
  PROVE  Span(n) = n - 1
BY DEF Span

(* ... and removeTilesOutsideOf: leaves it.                                *)
LEMMA CellStaysInside ==
  ASSUME NEW r \in Rounded, NEW C \in Int, C = Columns(r), NEW R \in Int, R = Rows(r),
         NEW p \in Nat \ {0}, p = 2^r.zoom, r.x \in 0..p, C <= p, r.y + R <= p,
         NEW x \in r.x..(r.x + C - 1), NEW y \in r.y..(r.y + R - 1),
         NEW im, NEW t \in DOMAIN im, t = [x |-> x % p, y |-> y, zoom |-> r.zoom]
  PROVE  t \in TilesInside(im, r)
<1>1. /\ r.x \in Int /\ r.y \in Nat /\ r.zoom \in Int /\ x \in Int /\ y \in Int /\ t.zoom = r.zoom /\ t.y = y
      /\ t.x = x % p
  BY TileImageSetAssumption DEF Rounded
<1>2. PICK last : last = [x |-> r.x + Span(C), y |-> r.y + Span(R), zoom |-> r.zoom]
  OBVIOUS
<1>0. last = [x |-> r.x + C - 1, y |-> r.y + R - 1, zoom |-> r.zoom]
  <2>1. C >= 1 /\ R >= 1
    BY <1>1
  <2>2. Span(C) = C - 1 /\ Span(R) = R - 1
    BY <2>1, Spans
  <2>3. QED
    BY <1>1, <1>2, <2>2
<1>3. ~ IsDummy(last) /\ NormalisedTile(last).x = (r.x + C - 1) % p /\ last.y = r.y + R - 1
  BY <1>0, <1>1 DEF IsDummy, NormalisedTile
<1>4. PICK right : right = IF IsDummy(last) THEN last.x ELSE NormalisedTile(last).x
  OBVIOUS
<1>5. right = (r.x + C - 1) % p
  BY <1>3, <1>4
<1>6. PICK z : z = Min({t.zoom, r.zoom})
  OBVIOUS
<1>7. z = r.zoom
  BY <1>1, <1>6, OfTwo
<1>8. PICK one : one = 2^(r.zoom - z)
  OBVIOUS
<1>9. one = 1
  <2>1. r.zoom - z = 0
    BY <1>1, <1>7
  <2>2. 2^0 = 1
    OBVIOUS
  <2>3. QED
    BY <1>8, <2>1, <2>2
<1>10. 2^(t.zoom - z) = one
  BY <1>1, <1>8
<1>11. \A v \in Int : v \div one = v
  BY <1>9
<1>12. right \in Int /\ x % p \in Int
  BY <1>1, <1>5
<1>13. y \in r.y..(r.y + R - 1)
  OBVIOUS
<1>14. InColumns(x % p, r.x, right)
  <2>1. PICK e : e = r.x + C - 1
    OBVIOUS
  <2>2. e \in Int /\ 0 <= e /\ e < p + p /\ 0 <= x /\ x <= e /\ r.x <= x /\ e < r.x + p
    BY <1>1, <2>1
  <2>3. right = IF e < p THEN e ELSE e - p
    BY <1>5, <2>1, <2>2, ColumnWraps
  <2>4. x < p + p
    BY <1>1, <2>2
  <2>5. x % p = IF x < p THEN x ELSE x - p
    BY <1>1, <2>2, <2>4, ColumnWraps
  <2>6. QED
    BY <1>1, <2>2, <2>3, <2>5 DEF InColumns
<1>15. /\ t.y \div 2^(t.zoom - z) \in (r.y \div 2^(r.zoom - z))..(last.y \div 2^(r.zoom - z))
       /\ InColumns(t.x \div 2^(t.zoom - z), r.x \div 2^(r.zoom - z), right \div 2^(r.zoom - z))
  <2>1. t.y \div one = y /\ r.y \div one = r.y /\ last.y \div one = last.y
    BY <1>1, <1>3, <1>11
  <2>2. t.x \div one = x % p /\ r.x \div one = r.x /\ right \div one = right
    BY <1>1, <1>11, <1>12
  <2>3. QED
    BY <1>3, <1>8, <1>10, <1>13, <1>14, <2>1, <2>2
<1>16. QED
  BY <1>2, <1>4, <1>6, <1>15 DEF TilesInside

-----------------------------------------------------------------------------
(* The screen is tiled.                                                    *)

\* A screen between the north and the south end of the world, which is wider
\* than it by the rest of a tile: its tiles do not meet round the world.
OnMap(s) ==
  /\ Top(s) >= 0 /\ s.y <= WorldSide
  /\ s.w * s.mpp + TileSide(NormalisedZoom(s.mpp)) - 1 <= WorldSide
OnTheMap == OnMap(screen)

Fits(s) == s \in Screens /\ [w |-> s.w, h |-> s.h] \in ScreenSizes /\ OnMap(s)

(* Division by a side.                                                     *)
LEMMA WholeAndRest ==
  ASSUME NEW a \in Int, NEW side \in Nat \ {0}
  PROVE  /\ a \div side \in Int /\ a % side \in 0..(side - 1)
         /\ (a \div side) * side \in Int /\ a = (a \div side) * side + (a % side)
OBVIOUS

(* The rectangle of a screen lies in the world and has no column twice.    *)
LEMMA RectangleIs ==
  ASSUME NEW s, Fits(s), NEW z, z = NormalisedZoom(s.mpp), NEW side, side = TileSide(z),
         NEW p, p = 2^z, NEW r, r = TileBounds(s)
  PROVE  /\ p \in Nat \ {0} /\ side * p = WorldSide
         /\ Columns(r) \in 0..MaxSpan /\ Rows(r) \in 0..MaxSpan
         /\ Columns(r) <= p /\ r.y + Rows(r) <= p /\ r.x \in 0..p
         /\ Columns(r) * side >= r.w + r.dx /\ Rows(r) * side >= r.h + r.dy
         /\ r.dx \in 0..(side - 1) /\ r.dy \in 0..(side - 1) /\ Wrap(s.x) = r.x * side + r.dx
<1>1. s \in Screens
  BY DEF Fits
<1>2. /\ z \in 0..MaxTileZoom /\ side \in Nat \ {0}
      /\ r \in Rounded /\ r.zoom = z
      /\ r.x = Wrap(s.x) \div side /\ r.dx = Wrap(s.x) % side
      /\ r.y = Top(s) \div side /\ r.dy = Top(s) - r.y * side
      /\ r.w = s.w * s.mpp /\ r.h = s.h * s.mpp
  BY <1>1, TileBoundsIs DEF Fits, OnMap
<1>3. p \in Nat \ {0} /\ side * p = WorldSide
  BY <1>2, SideOfZoom
<1>4. PICK w, h : w = s.w * s.mpp /\ h = s.h * s.mpp
  OBVIOUS
<1>5. w \in Nat /\ h \in Nat /\ Top(s) \in Int /\ Top(s) + h = s.y /\ s.x \in Int /\ s.mpp \in MinMpp..MaxMpp
  BY <1>1, <1>4, ScreenIs
<1>6. /\ w + side - 1 <= MaxSpan * side /\ h + side - 1 <= MaxSpan * side
      /\ w + side - 1 <= WorldSide
  <2>1. PICK f \in ScreenSizes : f.w = s.w /\ f.h = s.h
    BY DEF Fits
  <2>2. f.w * s.mpp + side - 1 <= MaxSpan * side /\ f.h * s.mpp + side - 1 <= MaxSpan * side
    BY <1>5, SpanAssumption
  <2>3. f.w * s.mpp + side - 1 <= WorldSide
    BY <2>1 DEF Fits, OnMap
  <2>4. QED
    BY <1>4, <2>1, <2>2, <2>3
<1>7. PICK u : u = Wrap(s.x)
  OBVIOUS
<1>8. u \in 0..WorldSide /\ u \in Int /\ MaxSpan \in Nat /\ WorldSide \in Nat \ {0}
  <2>1. MaxSpan \in Nat /\ WorldSide \in Nat \ {0}
    BY TileImageSetAssumption
  <2>2. u \in 0..WorldSide
    BY <1>5, <1>7, WrapIs
  <2>3. QED
    BY <2>1, <2>2
<1>9. PICK x, dx, y, dy : x = r.x /\ dx = r.dx /\ y = r.y /\ dy = r.dy
  OBVIOUS
<1>10. x \in Int /\ x * side \in Int /\ dx \in 0..(side - 1) /\ u = x * side + dx
  BY <1>2, <1>7, <1>8, <1>9, WholeAndRest
<1>11. y \in Int /\ y * side \in Int /\ dy \in 0..(side - 1) /\ Top(s) = y * side + dy
  <2>1. /\ y \in Int /\ y * side \in Int /\ Top(s) % side \in 0..(side - 1)
        /\ Top(s) = y * side + (Top(s) % side)
    <3>1. PICK t \in Int : t = Top(s)
      BY <1>5
    <3>2. y = t \div side /\ side \in Nat \ {0}
      BY <1>2, <1>5, <1>9, <3>1
    <3>3. QED
      BY ONLY <3>1, <3>2, WholeAndRest
  <2>2. dy = Top(s) - y * side
    BY <1>2, <1>9
  <2>3. QED
    BY <1>5, <2>1, <2>2
<1>12. PICK C, R : C = Columns(r) /\ R = Rows(r)
  OBVIOUS
<1>13. C = CeilDiv(w + dx, side) /\ R = CeilDiv(h + dy, side)
  BY <1>2, <1>4, <1>9, <1>12 DEF Columns, Rows
<1>14. /\ C \in Int /\ C * side >= w + dx /\ C * side < w + dx + side
       /\ R \in Int /\ R * side >= h + dy /\ R * side < h + dy + side
  <2>1. w + dx \in Int /\ h + dy \in Int
    BY <1>5, <1>10, <1>11
  <2>2. QED
    BY <1>2, <1>13, <2>1, CeilDivIs
<1>15. C * side \in Int /\ R * side \in Int /\ MaxSpan * side \in Int
  BY <1>2, <1>8, <1>14
<1>16. (MaxSpan + 1) * side = MaxSpan * side + side /\ (p + 1) * side = WorldSide + side /\ (-1) * side = -side
       /\ (y + R) * side = y * side + R * side
  <2>1. \A a, b, c \in Int : (a + b) * c = a * c + b * c
    OBVIOUS
  <2>2. \A a \in Int : (a + 1) * side = a * side + side
    BY <1>2
  <2>3. (p + 1) * side = p * side + side /\ p * side = side * p
    BY <1>2, <1>3, <2>2
  <2>4. (MaxSpan + 1) * side = MaxSpan * side + side
    BY <1>8, <2>2
  <2>5. (y + R) * side = y * side + R * side
    BY <1>2, <1>11, <1>14, <2>1
  <2>6. (-1) * side = -side
    BY <1>2
  <2>7. QED
    BY <1>3, <2>3, <2>4, <2>5, <2>6
<1>17. C \in 0..MaxSpan
  <2>1. C * side < (MaxSpan + 1) * side /\ (-1) * side < C * side
    BY <1>2, <1>5, <1>6, <1>10, <1>14, <1>15, <1>16
  <2>2. C < MaxSpan + 1 /\ -1 < C
    BY <1>2, <1>8, <1>14, <2>1, FewerSides
  <2>3. QED
    BY <1>8, <1>14, <2>2
<1>18. R \in 0..MaxSpan
  <2>1. R * side < (MaxSpan + 1) * side /\ (-1) * side < R * side
    BY <1>2, <1>5, <1>6, <1>11, <1>14, <1>15, <1>16
  <2>2. R < MaxSpan + 1 /\ -1 < R
    BY <1>2, <1>8, <1>14, <2>1, FewerSides
  <2>3. QED
    BY <1>8, <1>14, <2>2
<1>19. C <= p
  <2>1. C * side < (p + 1) * side
    BY <1>2, <1>5, <1>6, <1>8, <1>10, <1>14, <1>15, <1>16
  <2>2. C < p + 1
    BY <1>2, <1>3, <1>14, <2>1, FewerSides
  <2>3. QED
    BY <1>3, <1>14, <2>2
<1>20. y + R <= p
  <2>1. s.y \in Int /\ s.y <= WorldSide
    BY <1>1, ScreenIs DEF Fits, OnMap
  <2>2. (y + R) * side < (p + 1) * side
    BY <1>2, <1>5, <1>8, <1>11, <1>14, <1>15, <1>16, <2>1
  <2>3. y + R < p + 1
    BY <1>2, <1>3, <1>11, <1>14, <2>2, FewerSides
  <2>4. QED
    BY <1>3, <1>11, <1>14, <2>3
<1>21. x \in 0..p
  <2>1. x * side < (p + 1) * side /\ (-1) * side < x * side
    BY <1>2, <1>8, <1>10, <1>16
  <2>2. x < p + 1 /\ -1 < x
    BY <1>2, <1>3, <1>10, <2>1, FewerSides
  <2>3. QED
    BY <1>3, <1>10, <2>2
<1>22. QED
  BY <1>2, <1>3, <1>4, <1>7, <1>9, <1>10, <1>11, <1>12, <1>14, <1>17, <1>18, <1>19, <1>20, <1>21

\* What the screen shows at a cell of the unrolled map: the image of its
\* tile, at its place.
HasImage(im, x, y, z) ==
  LET t == [x |-> x % 2^z, y |-> y, zoom |-> z] IN
  t \in DOMAIN im /\ im[t].at = [x |-> x * TileSide(z), y |-> y * TileSide(z)]

\* The bounds are those of whole tiles, each of which is shown.
IsGrid(bounds, z, im, X, Y, C, R) ==
  /\ bounds = Rect(X * TileSide(z), Y * TileSide(z), C * TileSide(z), R * TileSide(z))
  /\ \A x \in X..(X + C - 1), y \in Y..(Y + R - 1) : HasImage(im, x, y, z)
Covered(bounds, z, im) == \E X, Y \in Int, C, R \in Nat : IsGrid(bounds, z, im, X, Y, C, R)

(* The same column in another world.                                       *)
LEMMA SameColumn ==
  ASSUME NEW p \in Nat \ {0}, NEW x \in Int, NEW k \in Int
  PROVE  (x + k * p) % p = x % p
<1>1. PICK a : a = x + k * p
  OBVIOUS
<1>2. k * p \in Int /\ a \in Int
  BY <1>1
<1>3. PICK q, m : q = x \div p /\ m = x % p
  OBVIOUS
<1>4. q \in Int /\ m \in 0..(p - 1) /\ q * p \in Int /\ x = q * p + m
  BY <1>3, WholeAndRest
<1>5. PICK o, n : o = a \div p /\ n = a % p
  OBVIOUS
<1>6. o \in Int /\ n \in 0..(p - 1) /\ o * p \in Int /\ a = o * p + n
  BY <1>2, <1>5, WholeAndRest
<1>7. PICK d : d = o - q - k
  OBVIOUS
<1>8. d \in Int /\ d * p = o * p - q * p - k * p
  BY <1>4, <1>6, <1>7
<1>9. d * p = m - n
  BY <1>1, <1>2, <1>4, <1>6, <1>8
<1>10. d * p < 1 * p /\ (-1) * p < d * p
  BY <1>4, <1>6, <1>9
<1>11. d < 1 /\ -1 < d
  BY <1>8, <1>10, FewerSides
<1>12. d * p = 0
  BY <1>8, <1>11
<1>13. m = n
  BY <1>4, <1>6, <1>9, <1>12
<1>14. QED
  BY <1>1, <1>3, <1>5, <1>13

(* A sum of sides.                                                         *)
LEMMA SumOfSides ==
  ASSUME NEW a \in Int, NEW b \in Int, NEW side \in Int
  PROVE  (a + b) * side = a * side + b * side /\ (a - b) * side = a * side - b * side /\ a * side \in Int
OBVIOUS

(* A screen that is loaded anew is tiled within what addTiles: returns,    *)
(* which contains it.                                                      *)
LEMMA LoadedIsCovered ==
  ASSUME NEW s, Fits(s), NEW old, NEW im, Typed(im), Clean(old, im), NEW tiles, NEW r, r = TileBounds(s),
         NEW added, added = AddTiles(r.zoom, SetZoomTo(old, im, r.zoom), r, Cached),
         NEW left, left = IF tiles THEN RemoveTilesOutsideOf(added, r) ELSE added
  PROVE  /\ WholeTiles(r) \in [x : Int, y : Int, w : Nat, h : Nat]
         /\ ContainsRect(WholeTiles(r), Bounds(s)) /\ r.zoom = NormalisedZoom(s.mpp)
         /\ Covered(WholeTiles(r), r.zoom, left)
<1>1. s \in Screens
  BY DEF Fits
<1>2. PICK z, side, p : z = NormalisedZoom(s.mpp) /\ side = TileSide(z) /\ p = 2^z
  OBVIOUS
<1>3. /\ z \in MinTileZoom..MaxTileZoom /\ z \in 0..MaxTileZoom /\ side \in Nat \ {0}
      /\ r \in Rounded /\ r.zoom = z /\ r.zoom >= MinTileZoom
      /\ r.y \in Nat /\ r.top = Top(s) /\ r.dy = Top(s) - r.y * side
      /\ r.w = s.w * s.mpp /\ r.h = s.h * s.mpp /\ r.left = s.x
  BY <1>1, <1>2, TileBoundsIs
<1>4. PICK C, R : C = Columns(r) /\ R = Rows(r)
  OBVIOUS
<1>5. /\ p \in Nat \ {0} /\ side * p = WorldSide
      /\ C \in 0..MaxSpan /\ R \in 0..MaxSpan /\ C <= p /\ r.y + R <= p /\ r.x \in 0..p
      /\ C * side >= r.w + r.dx /\ R * side >= r.h + r.dy
      /\ r.dx \in 0..(side - 1) /\ r.dy \in 0..(side - 1) /\ Wrap(s.x) = r.x * side + r.dx
  BY <1>2, <1>4, RectangleIs
<1>6. MaxSpan \in Nat /\ WorldSide \in Nat \ {0}
  BY TileImageSetAssumption
<1>7. PICK rx, ry, dx, dy, w, h : rx = r.x /\ ry = r.y /\ dx = r.dx /\ dy = r.dy /\ w = r.w /\ h = r.h
  OBVIOUS
<1>8. rx \in Int /\ ry \in Int /\ dx \in Int /\ dy \in Int /\ w \in Int /\ h \in Int /\ C \in Nat /\ R \in Nat /\ dx >= 0 /\ dy >= 0
  BY <1>3, <1>5, <1>6, <1>7 DEF Rounded
<1>9. s.x \in Int /\ Top(s) \in Int /\ s.w * s.mpp \in Nat /\ s.h * s.mpp \in Nat
  BY <1>1, ScreenIs
<1>10. PICK k \in Int : s.x = Wrap(s.x) + k * WorldSide
  BY <1>9, WrapIs
<1>11. PICK X \in Int : X = rx + k * p
  BY <1>5, <1>8
<1>12. X * side = s.x - dx
  <2>1. PICK n \in Int : n = k * p
    BY <1>5
  <2>2. X * side = rx * side + n * side /\ rx * side \in Int
    BY <1>3, <1>8, <1>11, <2>1, SumOfSides
  <2>3. n * side = k * WorldSide /\ k * WorldSide \in Int
    BY <1>3, <1>5, <1>6, <2>1
  <2>4. QED
    BY <1>5, <1>7, <1>8, <1>9, <1>10, <2>2, <2>3
<1>13. ry * side = Top(s) - dy /\ ry * side \in Int /\ C * side \in Nat /\ R * side \in Nat
  BY <1>3, <1>7, <1>8, <1>9
<1>14. WholeTiles(r) = Rect(X * side, ry * side, C * side, R * side)
  <2>1. WholeTiles(r) = Rect(s.x - dx, Top(s) - dy, C * side, R * side)
    BY <1>2, <1>3, <1>4, <1>7 DEF WholeTiles, Rect
  <2>2. QED
    BY <1>12, <1>13, <2>1
<1>15. WholeTiles(r) \in [x : Int, y : Int, w : Nat, h : Nat]
  BY <1>8, <1>9, <1>12, <1>13, <1>14 DEF Rect
<1>16. ContainsRect(WholeTiles(r), Bounds(s))
  <2>1. PICK a, b, c, d : a = s.x - dx /\ b = Top(s) - dy /\ c = C * side /\ d = R * side
    OBVIOUS
  <2>2. WholeTiles(r) = Rect(a, b, c, d)
    BY <1>12, <1>13, <1>14, <2>1
  <2>3. Bounds(s) = Rect(s.x, Top(s), w, h)
    BY <1>3, <1>7 DEF Bounds
  <2>4. c \in Nat /\ d \in Nat /\ c >= w + dx /\ d >= h + dy
    BY <1>5, <1>7, <1>13, <2>1
  <2>5. a <= s.x /\ a + c >= s.x + w /\ b <= Top(s) /\ b + d >= Top(s) + h
    BY <1>8, <1>9, <2>1, <2>4
  <2>6. QED
    BY <2>2, <2>3, <2>5 DEF ContainsRect, Rect
<1>17. ASSUME NEW cx \in X..(X + C - 1), NEW cy \in ry..(ry + R - 1)
       PROVE  HasImage(left, cx, cy, z)
  <2>1. PICK x : x = cx - k * p
    OBVIOUS
  <2>2. /\ cx \in Int /\ cy \in Int /\ k * p \in Int /\ x \in Int /\ x \in rx..(rx + C - 1) /\ cx = x + k * p
        /\ cx = X + (x - rx)
    BY <1>5, <1>8, <1>11, <2>1
  <2>3. PICK t : t = [x |-> x % p, y |-> cy, zoom |-> z]
    OBVIOUS
  <2>4. cx % p = x % p
    BY <1>5, <2>2, SameColumn
  <2>5. PICK level : level = PlacesOfLevel(r)
    OBVIOUS
  <2>6. t \in DOMAIN level /\ level[t] = [x |-> r.left - dx + (x - rx) * side, y |-> r.top - dy + (cy - ry) * side]
    <3>1. /\ C <= 2^r.zoom /\ r.y + R <= 2^r.zoom /\ x \in r.x..(r.x + C - 1) /\ cy \in r.y..(r.y + R - 1)
          /\ t = [x |-> x % 2^r.zoom, y |-> cy, zoom |-> r.zoom]
      BY <1>2, <1>3, <1>5, <1>7, <2>2, <2>3
    <3>2. r \in Rounded /\ r.zoom >= MinTileZoom /\ C \in 0..MaxSpan /\ R \in 0..MaxSpan
      BY <1>3, <1>5
    <3>3. t \in DOMAIN PlacesOfLevel(r)
      BY <1>4, <3>1, <3>2, PlaceOfCell
    <3>4. PlacesOfLevel(r)[t] = PlaceOf(r, [x |-> x, y |-> cy, zoom |-> r.zoom])
      BY <1>4, <3>1, <3>2, PlaceOfCell
    <3>5. QED
      BY <1>2, <1>3, <1>7, <2>5, <3>3, <3>4 DEF PlaceOf
  <2>7. s.x - dx + (x - rx) * side = cx * side /\ Top(s) - dy + (cy - ry) * side = cy * side
    <3>1. cx * side = X * side + (x - rx) * side /\ (x - rx) * side \in Int
      BY <1>3, <1>8, <2>2, SumOfSides
    <3>2. cy * side = ry * side + (cy - ry) * side /\ (cy - ry) * side \in Int
      <4>1. cy = ry + (cy - ry) /\ cy - ry \in Int
        BY <1>8, <2>2
      <4>2. QED
        BY <1>3, <1>8, <4>1, SumOfSides
    <3>3. QED
      BY <1>8, <1>9, <1>12, <1>13, <3>1, <3>2
  <2>8. level[t] = [x |-> cx * side, y |-> cy * side]
    BY <1>3, <2>6, <2>7
  <2>9. z \in Int
    BY <1>3, TileImageSetAssumption
  <2>10. t \in DOMAIN Places(r.zoom, r) /\ Places(r.zoom, r)[t] = level[t]
    BY <1>3, <2>5, <2>6, <2>9, PlacesTyped
  <2>11. t \in DOMAIN added /\ added[t].at = level[t] /\ Typed(added)
    <3>1. t.zoom = r.zoom
      BY <1>3, <2>3
    <3>2. Typed(added) /\ t \in DOMAIN added
      BY <1>1, <2>10, <3>1, LoadedIsNeat
    <3>3. added[t].at = Places(r.zoom, r)[t]
      BY <1>1, <2>10, <3>2, LoadedIsNeat
    <3>4. QED
      BY <2>10, <3>2, <3>3
  <2>12. t \in DOMAIN left /\ left[t] = added[t]
    <3>1. CASE tiles
      <4>1. t \in TilesInside(added, r)
        BY <1>2, <1>3, <1>4, <1>5, <1>7, <1>8, <2>2, <2>3, <2>11, CellStaysInside
      <4>2. PICK D : D = TilesInside(added, r)
        OBVIOUS
      <4>3. left = Restrict(added, D)
        BY <3>1, <4>2 DEF RemoveTilesOutsideOf
      <4>4. QED
        BY <4>1, <4>2, <4>3 DEF Restrict
    <3>2. CASE ~ tiles
      BY <2>11, <3>2
    <3>3. QED
      BY <3>1, <3>2
  <2>13. [x |-> cx % p, y |-> cy, zoom |-> z] = t
    BY <2>3, <2>4
  <2>14. QED
    BY <1>2, <2>8, <2>11, <2>12, <2>13 DEF HasImage
<1>18. IsGrid(WholeTiles(r), z, left, X, ry, C, R)
  BY <1>2, <1>14, <1>17 DEF IsGrid
<1>19. Covered(WholeTiles(r), z, left)
  BY <1>8, <1>18 DEF Covered
<1>20. QED
  BY <1>2, <1>3, <1>15, <1>16, <1>19

BoundsType == [x : Int, y : Int, w : Nat, h : Nat]

\* What each gesture, answer and update leaves: the screen lies in the world,
\* what is within the loaded bounds is at its place, and the screen is within
\* them, or else an update is to come.
Tiled ==
  /\ Neat /\ Fits(screen) /\ loadedZoom = zoom /\ loadedBounds \in BoundsType
  /\ loadedTiles \in BOOLEAN /\ suppressLoading \in BOOLEAN /\ expensive \in BOOLEAN
  /\ waiting \in BOOLEAN /\ aligned \in BOOLEAN
  /\ waiting => ~ expensive
  /\ suppressLoading => expensive /\ ~ waiting
  /\ aligned => Covered(loadedBounds, zoom, images)
  /\ ~ suppressLoading /\ ~ waiting => ScreenIsLoaded(screen, loadedBounds, loadedZoom)

(* It is a property of the variables after a step as it is before.         *)
LEMMA TiledAfter ==
  ASSUME Neat', NEW s, screen' = s, Fits(s), NEW b \in BoundsType, loadedBounds' = b,
         NEW im, images' = im, NEW z, zoom' = z, loadedZoom' = z,
         loadedTiles' \in BOOLEAN, suppressLoading' \in BOOLEAN, expensive' \in BOOLEAN,
         waiting' \in BOOLEAN, aligned' \in BOOLEAN, waiting' => ~ expensive',
         suppressLoading' => expensive' /\ ~ waiting', aligned' => Covered(b, z, im),
         ~ suppressLoading' /\ ~ waiting' => ScreenIsLoaded(s, b, z)
  PROVE  Tiled'
<1>1. Fits(screen)'
  BY DEF Fits, OnMap, Top
<1>2. aligned' => Covered(loadedBounds, zoom, images)'
  <2>1. SUFFICES ASSUME aligned' PROVE Covered(loadedBounds, zoom, images)'
    OBVIOUS
  <2>2. PICK X \in Int, Y \in Int, C \in Nat, R \in Nat : IsGrid(b, z, im, X, Y, C, R)
    BY <2>1 DEF Covered
  <2>3. IsGrid(loadedBounds, zoom, images, X, Y, C, R)'
    BY <2>2 DEF IsGrid, HasImage
  <2>4. QED
    BY <2>3 DEF Covered
<1>3. ~ suppressLoading' /\ ~ waiting' => ScreenIsLoaded(screen, loadedBounds, loadedZoom)'
  BY DEF ScreenIsLoaded, ContainsRect, Bounds, Top, Rect
<1>4. QED
  BY <1>1, <1>2, <1>3 DEF Tiled

(* The update that ends each gesture.                                      *)
LEMMA UpdateIsTiled ==
  ASSUME zoom \in 0..MaxTileZoom, loadedZoom = zoom, NEW s, Fits(s),
         NEW moved, Typed(moved), Clean(zoom, moved), NEW bounds \in BoundsType,
         NEW tiles \in BOOLEAN, NEW together \in BOOLEAN, together => Covered(bounds, zoom, moved),
         suppressLoading' \in BOOLEAN, expensive' \in BOOLEAN, waiting \in BOOLEAN,
         suppressLoading' => expensive' /\ ~ waiting,
         UpdateLoadedImages(s, moved, bounds, tiles, together)
  PROVE  Tiled'
<1>1. s \in Screens
  BY DEF Fits
<1>2. Neat'
  BY <1>1, UpdateIsNeat
<1>3. screen' = s
  BY DEF UpdateLoadedImages
<1>4. CASE /\ suppressLoading' \/ ~ expensive' \/ ScreenIsLoaded(s, bounds, loadedZoom)
           /\ waiting' = IF suppressLoading' THEN waiting ELSE ~ expensive'
           /\ images' = moved /\ loadedBounds' = bounds /\ loadedTiles' = tiles /\ aligned' = together
           /\ zoom' = zoom /\ loadedZoom' = loadedZoom
  <2>1. waiting' \in BOOLEAN /\ (waiting' => ~ expensive') /\ (suppressLoading' => expensive' /\ ~ waiting')
    BY <1>4
  <2>2. ~ suppressLoading' /\ ~ waiting' => ScreenIsLoaded(s, bounds, zoom)
    BY <1>4
  <2>3. QED
    BY <1>2, <1>3, <1>4, <2>1, <2>2, TiledAfter
<1>5. CASE \E r : /\ r = TileBounds(s) /\ zoom' = r.zoom /\ ~ suppressLoading' /\ expensive' /\ waiting' = FALSE
                  /\ images' = LET added == AddTiles(r.zoom, SetZoomTo(zoom, moved, r.zoom), r, Cached) IN
                               IF tiles THEN RemoveTilesOutsideOf(added, r) ELSE added
                  /\ loadedBounds' = WholeTiles(r) /\ loadedZoom' = r.zoom
                  /\ loadedTiles' = TRUE /\ aligned' = TRUE
  <2>1. PICK r : /\ r = TileBounds(s) /\ zoom' = r.zoom /\ ~ suppressLoading' /\ expensive' /\ waiting' = FALSE
                 /\ images' = LET added == AddTiles(r.zoom, SetZoomTo(zoom, moved, r.zoom), r, Cached) IN
                              IF tiles THEN RemoveTilesOutsideOf(added, r) ELSE added
                 /\ loadedBounds' = WholeTiles(r) /\ loadedZoom' = r.zoom
                 /\ loadedTiles' = TRUE /\ aligned' = TRUE
    BY <1>5
  <2>2. PICK added : added = AddTiles(r.zoom, SetZoomTo(zoom, moved, r.zoom), r, Cached)
    OBVIOUS
  <2>3. PICK left : left = IF tiles THEN RemoveTilesOutsideOf(added, r) ELSE added
    OBVIOUS
  <2>4. images' = left
    BY <2>1, <2>2, <2>3
  <2>5. PICK b : b = WholeTiles(r)
    OBVIOUS
  <2>6. b \in BoundsType /\ ContainsRect(b, Bounds(s)) /\ r.zoom = NormalisedZoom(s.mpp) /\ Covered(b, r.zoom, left)
    BY <2>1, <2>2, <2>3, <2>5, LoadedIsCovered DEF BoundsType
  <2>7. ScreenIsLoaded(s, b, r.zoom)
    BY <2>6 DEF ScreenIsLoaded
  <2>8. QED
    BY <1>2, <1>3, <2>1, <2>4, <2>5, <2>6, <2>7, TiledAfter
<1>6. QED
  BY <1>4, <1>5 DEF UpdateLoadedImages

(* Cleared bounds are those of no tiles at all.                            *)
LEMMA NothingIsCovered ==
  ASSUME NEW z \in 0..MaxTileZoom, NEW im
  PROVE  Covered(NoBounds, z, im)
<1>1. PICK side \in Nat \ {0} : side = TileSide(z)
  BY SideOfZoom
<1>2. NoBounds = Rect(0 * side, 0 * side, 0 * side, 0 * side)
  BY DEF NoBounds
<1>3. 0 + 0 - 1 = -1 /\ 0..(-1) = {}
  OBVIOUS
<1>4. IsGrid(NoBounds, z, im, 0, 0, 0, 0)
  <2>1. \A x \in 0..(0 + 0 - 1), y \in 0..(0 + 0 - 1) : HasImage(im, x, y, z)
    BY <1>3
  <2>2. QED
    BY <1>1, <1>2, <2>1 DEF IsGrid
<1>5. 0 \in Int /\ 0 \in Nat
  OBVIOUS
<1>6. QED
  BY <1>4, <1>5 DEF Covered

(* Images that go round the world with the screen are still at the place   *)
(* of their tile.                                                          *)
LEMMA RoundTheWorld ==
  ASSUME Tiled, aligned, NEW k \in Int, NEW dx, dx = k * WorldSide
  PROVE  Covered(ShiftBounds(dx, 0), zoom, ShiftImages(dx, 0))
<1>1. zoom \in 0..MaxTileZoom /\ Typed(images) /\ loadedBounds \in BoundsType
  BY DEF Tiled, Neat
<1>2. PICK z : z = zoom
  OBVIOUS
<1>3. PICK side \in Nat \ {0}, p \in Nat \ {0} : side = TileSide(z) /\ p = 2^z /\ side * p = WorldSide
  BY <1>1, <1>2, SideOfZoom
<1>4. CASE loadedBounds = NoBounds
  <2>1. ShiftBounds(dx, 0) = NoBounds
    BY <1>4 DEF ShiftBounds
  <2>2. QED
    BY <1>1, <2>1, NothingIsCovered
<1>5. CASE loadedBounds # NoBounds
  <2>1. PICK X \in Int, Y \in Int, C \in Nat, R \in Nat : IsGrid(loadedBounds, z, images, X, Y, C, R)
    BY <1>2 DEF Tiled, Covered
  <2>2. PICK n \in Int : n = k * p
    BY <1>3
  <2>3. dx = n * side /\ dx \in Int
    BY <1>3, <2>2
  <2>4. PICK b : b = ShiftBounds(dx, 0)
    OBVIOUS
  <2>5. b = Rect((X + n) * side, Y * side, C * side, R * side)
    <3>1. PICK xs, ys, cs, rs : xs = X * side /\ ys = Y * side /\ cs = C * side /\ rs = R * side
      OBVIOUS
    <3>2. loadedBounds = Rect(xs, ys, cs, rs)
      BY <1>3, <2>1, <3>1 DEF IsGrid
    <3>3. b = Rect(xs + dx, ys + 0, cs, rs)
      BY <1>5, <2>4, <3>2 DEF ShiftBounds, Rect
    <3>4. ys + 0 = ys /\ (X + n) * side = xs + dx
      BY <2>3, <3>1, SumOfSides
    <3>5. QED
      BY <3>1, <3>3, <3>4
  <2>6. PICK im : im = ShiftImages(dx, 0)
    OBVIOUS
  <2>7. ASSUME NEW x \in (X + n)..(X + n + C - 1), NEW y \in Y..(Y + R - 1)
        PROVE  HasImage(im, x, y, z)
    <3>1. PICK o : o = x - n
      OBVIOUS
    <3>2. o \in X..(X + C - 1) /\ o \in Int /\ x \in Int /\ x = o + k * p /\ x = o + n /\ y \in Int
      BY <2>2, <3>1
    <3>3. x % p = o % p
      BY <1>3, <3>2, SameColumn
    <3>4. PICK t : t = [x |-> o % p, y |-> y, zoom |-> z]
      OBVIOUS
    <3>5. t \in DOMAIN images /\ images[t].at = [x |-> o * side, y |-> y * side]
      <4>1. HasImage(images, o, y, z)
        BY <2>1, <3>2 DEF IsGrid
      <4>2. QED
        BY <1>3, <3>4, <4>1 DEF HasImage
    <3>6. im[t] = [images[t] EXCEPT !.at = [x |-> images[t].at.x + dx, y |-> images[t].at.y + 0]] /\ t \in DOMAIN im
      BY <2>6, <3>5 DEF ShiftImages
    <3>7. images[t] \in Images
      BY <1>1, <3>5 DEF Typed
    <3>8. im[t].at = [x |-> images[t].at.x + dx, y |-> images[t].at.y + 0]
      BY <3>6, <3>7 DEF Images
    <3>9. o * side + dx = x * side /\ y * side + 0 = y * side
      BY <1>3, <2>3, <3>2, SumOfSides
    <3>10. im[t].at = [x |-> x * side, y |-> y * side]
      BY <3>5, <3>8, <3>9
    <3>11. [x |-> x % p, y |-> y, zoom |-> z] = t
      BY <3>3, <3>4
    <3>12. QED
      BY <1>3, <3>6, <3>10, <3>11 DEF HasImage
  <2>8. X + n \in Int
    OBVIOUS
  <2>9. IsGrid(b, z, im, X + n, Y, C, R)
    BY <1>3, <2>5, <2>7 DEF IsGrid
  <2>10. Covered(b, z, im)
    BY <2>8, <2>9 DEF Covered
  <2>11. QED
    BY <1>2, <2>4, <2>6, <2>10
<1>6. QED
  BY <1>4, <1>5

(* Bounds that are moved are bounds.                                       *)
LEMMA ShiftBoundsTyped ==
  ASSUME loadedBounds \in BoundsType, NEW dx \in Int, NEW dy \in Int
  PROVE  ShiftBounds(dx, dy) \in BoundsType
<1>1. CASE loadedBounds = NoBounds
  BY <1>1 DEF ShiftBounds
<1>2. CASE loadedBounds # NoBounds
  <2>1. loadedBounds.x \in Int /\ loadedBounds.y \in Int
    BY DEF BoundsType
  <2>2. PICK x \in Int, y \in Int : x = loadedBounds.x + dx /\ y = loadedBounds.y + dy
    BY <2>1
  <2>3. ShiftBounds(dx, dy) = [loadedBounds EXCEPT !.x = x, !.y = y]
    BY <1>2, <2>2 DEF ShiftBounds
  <2>4. QED
    BY <2>2, <2>3 DEF BoundsType
<1>3. QED
  BY <1>1, <1>2

(* A screen that images and bounds follow.                                 *)
LEMMA FollowIsTiled ==
  ASSUME Tiled, OnMap(screen'), NEW s \in Screens, [w |-> s.w, h |-> s.h] \in ScreenSizes, Follow(s)
  PROVE  Tiled'
<1>1. PICK wrapped : wrapped = [s EXCEPT !.x = Wrap(s.x)]
  OBVIOUS
<1>2. s.x \in Int /\ Wrap(s.x) \in Int /\ \E k \in Int : s.x = Wrap(s.x) + k * WorldSide
  <2>1. s.x \in Int /\ WorldSide \in Nat
    BY ScreenIs, TileImageSetAssumption
  <2>2. Wrap(s.x) \in 0..WorldSide
    BY <2>1, WrapIs
  <2>3. Wrap(s.x) \in Int
    BY <2>1, <2>2
  <2>4. QED
    BY <2>1, <2>3, WrapIs
<1>3. /\ wrapped \in Screens /\ wrapped.x = Wrap(s.x)
      /\ wrapped.y = s.y /\ wrapped.w = s.w /\ wrapped.h = s.h /\ wrapped.mpp = s.mpp
  BY <1>1, <1>2 DEF Screens
<1>4. Fits(wrapped)
  <2>1. screen' = wrapped
    BY <1>1 DEF Follow, UpdateLoadedImages
  <2>2. QED
    BY <1>3, <2>1 DEF Fits
<1>5. PICK k \in Int : s.x = Wrap(s.x) + k * WorldSide
  BY <1>2
<1>6. PICK dx : dx = wrapped.x - s.x
  OBVIOUS
<1>7. dx \in Int /\ dx = (-k) * WorldSide /\ -k \in Int /\ 0 \in Int
  <2>1. WorldSide \in Int
    BY TileImageSetAssumption
  <2>2. k * WorldSide \in Int /\ (-k) * WorldSide = -(k * WorldSide)
    BY <2>1
  <2>3. QED
    BY <1>2, <1>3, <1>5, <1>6, <2>2
<1>8. PICK moved, bounds : moved = ShiftImages(dx, 0) /\ bounds = ShiftBounds(dx, 0)
  OBVIOUS
<1>9. Neat /\ loadedBounds \in BoundsType
  BY DEF Tiled
<1>10. Typed(moved) /\ Clean(zoom, moved)
  BY <1>7, <1>8, <1>9, AllShifted, ShiftedIsNeat
<1>11. bounds \in BoundsType
  BY <1>7, <1>8, <1>9, ShiftBoundsTyped
<1>12. aligned => Covered(bounds, zoom, moved)
  BY <1>7, <1>8, RoundTheWorld
<1>13. UpdateLoadedImages(wrapped, moved, bounds, loadedTiles, aligned)
  BY <1>1, <1>6, <1>8 DEF Follow
<1>14. suppressLoading' = suppressLoading /\ expensive' = expensive
  BY DEF Follow
<1>15. zoom \in 0..MaxTileZoom
  BY <1>9 DEF Neat
<1>16. QED
  BY <1>4, <1>10, <1>11, <1>12, <1>13, <1>14, <1>15, UpdateIsTiled DEF Tiled

(* A screen that they do not follow: its images are placed anew, or are    *)
(* not aligned any more.                                                   *)
LEMMA JumpIsTiled ==
  ASSUME Tiled, OnMap(screen'), NEW s \in Screens, [w |-> s.w, h |-> s.h] \in ScreenSizes,
         NEW reload \in BOOLEAN, NEW tiles \in BOOLEAN, NEW set \in SUBSET DOMAIN images,
         Jump(s, reload, tiles, set)
  PROVE  Tiled'
<1>1. PICK dx, dy : dx = s.x - screen.x /\ dy = Top(s) - Top(screen)
  OBVIOUS
<1>2. Neat /\ loadedBounds \in BoundsType /\ zoom \in 0..MaxTileZoom /\ screen \in Screens
  BY DEF Tiled, Neat
<1>3. dx \in Int /\ dy \in Int
  BY <1>1, <1>2, ScreenIs
<1>4. PICK moved : moved = Restrict(ShiftImages(dx, dy), set)
  OBVIOUS
<1>5. Typed(moved) /\ Clean(zoom, moved)
  BY <1>2, <1>3, <1>4, ShiftedIsNeat
<1>6. PICK bounds : bounds = IF reload THEN NoBounds ELSE ShiftBounds(dx, dy)
  OBVIOUS
<1>7. bounds \in BoundsType
  <2>1. NoBounds \in BoundsType
    BY DEF NoBounds, Rect, BoundsType
  <2>2. QED
    BY <1>2, <1>3, <1>6, <2>1, ShiftBoundsTyped
<1>8. PICK together \in BOOLEAN : together = (reload /\ aligned)
  OBVIOUS
<1>9. together => Covered(bounds, zoom, moved)
  BY <1>2, <1>6, <1>8, NothingIsCovered
<1>10. UpdateLoadedImages(s, moved, bounds, tiles, together)
  BY <1>1, <1>4, <1>6, <1>8 DEF Jump
<1>11. Fits(s)
  <2>1. screen' = s
    BY <1>10 DEF UpdateLoadedImages
  <2>2. QED
    BY <2>1 DEF Fits
<1>12. suppressLoading' = suppressLoading /\ expensive' = expensive
  BY DEF Jump
<1>13. QED
  BY <1>2, <1>5, <1>7, <1>9, <1>10, <1>11, <1>12, UpdateIsTiled DEF Tiled

(* Each step keeps the screen tiled.                                       *)
LEMMA GestureIsTiled ==
  ASSUME Tiled, OnMap(screen'), Gesture
  PROVE  Tiled'
<1>1. /\ screen \in Screens /\ [w |-> screen.w, h |-> screen.h] \in ScreenSizes /\ loadedTiles \in BOOLEAN
  BY DEF Tiled, Fits
<1>2. /\ Factors \subseteq Int /\ Centers \subseteq [x : Int, y : Int] /\ Frames \subseteq [w : Nat, h : Nat]
  BY MapScreenAssumption
<1>3. ASSUME NEW mpp \in Factors, SetZoom(mpp) PROVE Tiled'
  <2>1. PICK s : s = SetScreen(mpp)
    OBVIOUS
  <2>2. s \in Screens /\ [w |-> s.w, h |-> s.h] \in ScreenSizes
    BY <1>1, <1>2, <2>1, SetScreenIs
  <2>3. Jump(s, FALSE, loadedTiles, DOMAIN images)
    BY <1>3, <2>1 DEF SetZoom, SetScreen
  <2>4. QED
    BY <1>1, <2>2, <2>3, JumpIsTiled
<1>4. ASSUME NEW c \in Centers, SetMapCenter(c) PROVE Tiled'
  <2>1. PICK s : s = Centered(screen, c.x, c.y)
    OBVIOUS
  <2>2. s \in Screens /\ [w |-> s.w, h |-> s.h] \in ScreenSizes
    BY <1>1, <1>2, <2>1, CenteredIs
  <2>3. Jump(s, TRUE, loadedTiles, DOMAIN images)
    BY <1>4, <2>1 DEF SetMapCenter
  <2>4. QED
    BY <1>1, <2>2, <2>3, JumpIsTiled
<1>5. ASSUME NEW delta \in Steps, MoveBy(delta) PROVE Tiled'
  <2>1. PICK s : s = MovedScreen(delta)
    OBVIOUS
  <2>2. s \in Screens /\ [w |-> s.w, h |-> s.h] \in ScreenSizes
    BY <1>1, <2>1, MovedScreenIs
  <2>3. Follow(s)
    BY <1>5, <2>1 DEF MoveBy, MovedScreen
  <2>4. QED
    BY <2>2, <2>3, FollowIsTiled
<1>6. ASSUME NEW asked \in Factors, NEW pivot \in Pivots, ZoomByFactor(asked, pivot) PROVE Tiled'
  <2>1. PICK m : m = BoundedMpp(asked)
    OBVIOUS
  <2>2. m \in Int
    BY <1>1, <1>2, <2>1, BoundedMppIs
  <2>3. PICK s : s = ZoomedScreen(m, pivot)
    OBVIOUS
  <2>4. MinMpp < m /\ m < MaxMpp /\ Follow(s)
    BY <1>6, <2>1, <2>3 DEF ZoomByFactor, ZoomedScreen
  <2>5. s \in Screens /\ [w |-> s.w, h |-> s.h] \in ScreenSizes
    BY <1>1, <2>2, <2>3, <2>4, ZoomedScreenIs
  <2>6. QED
    BY <2>4, <2>5, FollowIsTiled
<1>7. ASSUME NEW f \in Frames, SetFrame(f) PROVE Tiled'
  <2>1. PICK s : s = [screen EXCEPT !.w = f.w, !.h = f.h]
    OBVIOUS
  <2>2. s \in Screens /\ s.w = f.w /\ s.h = f.h
    BY <1>1, <1>2, <2>1 DEF Screens
  <2>3. [w |-> s.w, h |-> s.h] \in ScreenSizes
    <3>1. f \in [w : Nat, h : Nat] /\ f \in ScreenSizes
      BY <1>2 DEF ScreenSizes
    <3>2. f = [w |-> f.w, h |-> f.h]
      BY <3>1
    <3>3. QED
      BY <2>2, <3>1, <3>2
  <2>4. Jump(s, TRUE, loadedTiles, DOMAIN images)
    BY <1>7, <2>1 DEF SetFrame
  <2>5. QED
    BY <1>1, <2>2, <2>3, <2>4, JumpIsTiled
<1>8. ASSUME SetTileSource PROVE Tiled'
  BY <1>1, <1>8, JumpIsTiled DEF SetTileSource
<1>9. QED
  BY <1>3, <1>4, <1>5, <1>6, <1>7, <1>8 DEF Gesture

(* Whatever images are left or loaded, those of the screen's zoom stay.    *)
LEMMA StillCovered ==
  ASSUME NEW b, NEW z, NEW old, NEW im, Covered(b, z, old),
         \A t \in DOMAIN old : t.zoom = z => t \in DOMAIN im /\ im[t].at = old[t].at
  PROVE  Covered(b, z, im)
<1>1. PICK X \in Int, Y \in Int, C \in Nat, R \in Nat : IsGrid(b, z, old, X, Y, C, R)
  BY DEF Covered
<1>2. ASSUME NEW x \in X..(X + C - 1), NEW y \in Y..(Y + R - 1) PROVE HasImage(im, x, y, z)
  <2>1. PICK t : t = [x |-> x % 2^z, y |-> y, zoom |-> z]
    OBVIOUS
  <2>2. t \in DOMAIN old /\ old[t].at = [x |-> x * TileSide(z), y |-> y * TileSide(z)]
    BY <1>1, <2>1 DEF IsGrid, HasImage
  <2>3. t.zoom = z
    BY <2>1
  <2>4. QED
    BY <2>1, <2>2, <2>3 DEF HasImage
<1>3. IsGrid(b, z, im, X, Y, C, R)
  BY <1>1, <1>2 DEF IsGrid
<1>4. QED
  BY <1>3 DEF Covered

(* An image set that tiles the screen still does after an answer.          *)
LEMMA AnswerIsTiled ==
  ASSUME Tiled, NEW t \in DOMAIN images, ImageLoaded(t) \/ ImageNotLoaded(t)
  PROVE  Tiled'
<1>1. Neat /\ Fits(screen) /\ loadedBounds \in BoundsType /\ zoom \in Int
  BY TileImageSetAssumption DEF Tiled, Neat
<1>2. Typed(images) /\ images[t] \in Images
  BY <1>1 DEF Neat, Typed
<1>3. Neat'
  BY <1>1, AnswerIsNeat
<1>4. PICK im : images' = im
  OBVIOUS
<1>5. \A o \in DOMAIN images : o.zoom = zoom => o \in DOMAIN im /\ im[o].at = images[o].at
  <2>1. CASE ImageLoaded(t)
    <3>1. PICK all : all = [images EXCEPT ![t].state = "shown"]
      OBVIOUS
    <3>2. DOMAIN all = DOMAIN images /\ Typed(all) /\ \A o \in DOMAIN images : all[o].at = images[o].at
      BY <1>2, <3>1 DEF Typed, Images, ImageStates
    <3>3. im = RemoveTilesWorseThan(zoom, all, {t})
      BY <1>4, <2>1, <3>1 DEF ImageLoaded
    <3>4. PICK z, better : z = zoom /\ better = {t}
      OBVIOUS
    <3>5. z \in Int /\ Typed(all) /\ im = RemoveTilesWorseThan(z, all, better)
      BY <1>1, <3>2, <3>3, <3>4
    <3>6. \A o \in DOMAIN all : o.zoom = z => o \in DOMAIN im
      BY <3>5, RemovedAreWorse
    <3>7. \A o \in DOMAIN im : im[o] = all[o]
      BY <3>5 DEF RemoveTilesWorseThan, Restrict
    <3>8. QED
      BY <3>2, <3>4, <3>6, <3>7
  <2>2. CASE ImageNotLoaded(t)
    <3>1. PICK state \in NotLoadedStates : im = [images EXCEPT ![t].state = state]
      BY <1>4, <2>2 DEF ImageNotLoaded
    <3>2. QED
      BY <1>2, <3>1 DEF Typed, Images
  <2>3. QED
    BY <2>1, <2>2
<1>6. UNCHANGED <<screen, zoom, loader, suppressLoading, expensive, waiting, aligned>>
  BY DEF ImageLoaded, ImageNotLoaded
<1>7. aligned' => Covered(loadedBounds, zoom, im)
  BY <1>5, <1>6, StillCovered DEF Tiled
<1>8. QED
  BY <1>1, <1>3, <1>4, <1>6, <1>7, TiledAfter DEF Tiled, loader

(* The end of init, and the timer that finds an update put off.            *)
LEMMA UpdateInPlaceIsTiled ==
  ASSUME Tiled, suppressLoading' \in BOOLEAN, expensive' \in BOOLEAN,
         suppressLoading' => expensive' /\ ~ waiting,
         UpdateLoadedImages(screen, images, loadedBounds, loadedTiles, aligned)
  PROVE  Tiled'
<1>1. Neat /\ zoom \in 0..MaxTileZoom /\ Typed(images) /\ Clean(zoom, images)
  BY DEF Tiled, Neat
<1>2. QED
  BY <1>1, UpdateIsTiled DEF Tiled

(* What is left alone stays tiled.                                         *)
LEMMA SameIsTiled ==
  ASSUME Tiled, UNCHANGED <<screen, images, zoom, loader, suppressLoading, waiting, aligned>>,
         expensive' \in BOOLEAN, waiting => ~ expensive', suppressLoading => expensive'
  PROVE  Tiled'
<1>1. Neat'
  BY DEF Tiled, Neat, Typed, Clean
<1>2. QED
  BY <1>1, TiledAfter DEF Tiled, loader

(* The first images tile the first screen.                                 *)
LEMMA InitIsTiled ==
  ASSUME OnTheMap, Init
  PROVE  Tiled
<1>1. screen \in Screens /\ screen = FirstScreen
  BY MapScreenAssumption DEF Init
<1>2. zoom \in 0..MaxTileZoom
  <2>1. MaxTileZoom \in Nat /\ zoom = 0
    BY TileImageSetAssumption DEF Init
  <2>2. QED
    BY <2>1
<1>3. DOMAIN images = {}
  BY DEF Init
<1>4. Neat
  BY <1>1, <1>2, <1>3 DEF Neat, Typed, Clean
<1>5. Fits(screen)
  BY <1>1 DEF Fits, OnTheMap, ScreenSizes
<1>6. loadedBounds = NoBounds /\ NoBounds \in BoundsType
  BY DEF Init, NoBounds, Rect, BoundsType
<1>7. Covered(loadedBounds, zoom, images)
  BY <1>2, <1>6, NothingIsCovered
<1>8. /\ loadedZoom = zoom /\ loadedTiles = FALSE /\ suppressLoading = TRUE
      /\ expensive = TRUE /\ waiting = FALSE /\ aligned = TRUE
  BY DEF Init
<1>9. QED
  BY <1>4, <1>5, <1>6, <1>7, <1>8 DEF Tiled

(* Every operation leaves the screen tiled.                                *)
LEMMA NextIsTiled ==
  ASSUME Tiled, OnTheMap', [Next]_vars
  PROVE  Tiled'
<1>1. CASE FinishInit
  BY <1>1, UpdateInPlaceIsTiled DEF FinishInit, Tiled
<1>2. CASE Gesture
  BY <1>2, GestureIsTiled DEF OnTheMap
<1>3. CASE Suspend
  BY <1>3, SameIsTiled DEF Suspend, Tiled
<1>4. CASE Resume
  <2>1. CASE waiting
    BY <1>4, <2>1, UpdateInPlaceIsTiled DEF Resume, Tiled
  <2>2. CASE ~ waiting
    BY <1>4, <2>2, SameIsTiled DEF Resume, Tiled
  <2>3. QED
    BY <2>1, <2>2
<1>5. CASE Answer
  BY <1>5, AnswerIsTiled DEF Answer
<1>6. CASE UNCHANGED vars
  BY <1>6, SameIsTiled DEF vars, Tiled
<1>7. QED
  BY <1>1, <1>2, <1>3, <1>4, <1>5, <1>6 DEF Next

(* Within bounds of whole tiles the screen shows only those.               *)
LEMMA OnScreenIsTiled ==
  ASSUME Tiled, ~ suppressLoading, ~ waiting, aligned
  PROVE  \A c \in OnScreen : IsAtItsPlace(c)
<1>1. ContainsRect(loadedBounds, Bounds(screen)) /\ NormalisedZoom(screen.mpp) = zoom
  BY DEF Tiled, ScreenIsLoaded
<1>2. PICK z : z = zoom
  OBVIOUS
<1>3. zoom \in 0..MaxTileZoom /\ screen \in Screens
  BY DEF Tiled, Neat
<1>4. PICK side \in Nat \ {0}, p \in Nat \ {0} : side = TileSide(z) /\ p = 2^z
  BY <1>2, <1>3, SideOfZoom
<1>5. PICK X \in Int, Y \in Int, C \in Nat, R \in Nat : IsGrid(loadedBounds, z, images, X, Y, C, R)
  BY <1>2 DEF Tiled, Covered
<1>6. PICK w \in Nat, h \in Nat, sx \in Int, sy \in Int, top \in Int :
        w = screen.w * screen.mpp /\ h = screen.h * screen.mpp /\ sx = screen.x /\ sy = screen.y
        /\ top = Top(screen) /\ top + h = sy
  BY <1>3, ScreenIs
<1>7. X * side <= sx /\ X * side + C * side >= sx + w /\ Y * side <= top /\ Y * side + R * side >= top + h
  BY <1>1, <1>4, <1>5, <1>6 DEF IsGrid, ContainsRect, Bounds, Rect
<1>8. X * side + C * side = (X + C) * side /\ Y * side + R * side = (Y + R) * side
  BY SumOfSides
<1>9. \A m \in Int, a \in Int : (a * side <= m => a <= m \div side) /\ (m <= a * side => (m - 1) \div side < a)
  <2>1. SUFFICES ASSUME NEW m \in Int, NEW a \in Int
                 PROVE  (a * side <= m => a <= m \div side) /\ (m <= a * side => (m - 1) \div side < a)
    OBVIOUS
  <2>2. PICK q, o : q = m \div side /\ o = (m - 1) \div side
    OBVIOUS
  <2>3. q \in Int /\ q * side <= m /\ m < q * side + side /\ q * side \in Int
    BY <2>2, WholeAndRest
  <2>4. o \in Int /\ o * side <= m - 1 /\ o * side \in Int
    BY <2>2, WholeAndRest
  <2>5. ASSUME a * side <= m PROVE a <= q
    <3>1. (q + 1) * side = q * side + side /\ a * side \in Int /\ q + 1 \in Int
      BY <2>3
    <3>2. a * side < (q + 1) * side
      BY <2>3, <2>5, <3>1
    <3>3. a < q + 1
      BY <2>3, <3>1, <3>2, FewerSides
    <3>4. QED
      BY <2>3, <3>3
  <2>6. ASSUME m <= a * side PROVE o < a
    <3>1. o * side < a * side
      BY <2>4, <2>6
    <3>2. QED
      BY <2>4, <3>1, FewerSides
  <2>7. QED
    BY <2>2, <2>5, <2>6
<1>10. /\ X <= sx \div side /\ (sx + w - 1) \div side < X + C
       /\ Y <= top \div side /\ (sy - 1) \div side < Y + R
  <2>1. PICK east \in Int, u \in Int, v \in Int : east = sx + w /\ u = X + C /\ v = Y + R
    OBVIOUS
  <2>2. X * side <= sx /\ east <= u * side /\ Y * side <= top /\ sy <= v * side
    <3>1. u * side = X * side + C * side /\ v * side = Y * side + R * side
      BY <1>8, <2>1
    <3>2. u * side \in Int /\ v * side \in Int
      OBVIOUS
    <3>3. QED
      BY <1>6, <1>7, <2>1, <3>1, <3>2
  <2>3. X <= sx \div side /\ Y <= top \div side
    BY <1>9, <2>2
  <2>4. (east - 1) \div side < u /\ (sy - 1) \div side < v
    BY <1>9, <2>2
  <2>5. QED
    BY <2>1, <2>3, <2>4
<1>11. ASSUME NEW c \in OnScreen PROVE IsAtItsPlace(c)
  <2>1. /\ c.x \in (sx \div side)..((sx + w - 1) \div side)
        /\ c.y \in (top \div side)..((sy - 1) \div side) /\ c.zoom = z
    BY <1>1, <1>2, <1>4, <1>6 DEF OnScreen
  <2>2. sx \div side \in Int /\ (sx + w - 1) \div side \in Int /\ top \div side \in Int /\ (sy - 1) \div side \in Int
    BY WholeAndRest
  <2>3. c.x \in X..(X + C - 1) /\ c.y \in Y..(Y + R - 1)
    BY <1>10, <2>1, <2>2
  <2>4. HasImage(images, c.x, c.y, z)
    BY <1>5, <2>3 DEF IsGrid
  <2>5. QED
    BY <2>1, <2>4 DEF HasImage, IsAtItsPlace
<1>12. QED
  BY <1>11

(* As long as the screen stays on the map, unless an update is put off,    *)
(* every tile it shows has an image, at its place: for every tile source   *)
(* and world, whatever gestures of updateLoadedImages' callers moved,      *)
(* zoomed or wrapped the screen, and whatever addTiles: and the answers    *)
(* took away.                                                              *)
THEOREM SpecScreenIsTiled == Spec /\ []OnTheMap => []ScreenIsTiled
<1>1. Init /\ OnTheMap => Tiled
  BY InitIsTiled
<1>2. Tiled /\ OnTheMap' /\ [Next]_vars => Tiled'
  BY NextIsTiled
<1>3. Tiled => ScreenIsTiled
  <2>1. SUFFICES ASSUME Tiled PROVE ScreenIsTiled
    OBVIOUS
  <2>2. TypeOK
    BY <2>1 DEF TypeOK, Tiled, Neat, Typed, BoundsType
  <2>3. QED
    BY <2>1, <2>2, OnScreenIsTiled DEF ScreenIsTiled
<1>4. QED
  BY <1>1, <1>2, <1>3, PTL DEF Spec

-----------------------------------------------------------------------------
(* Where the images of all levels lie.                                     *)

(* A tile is as wide as twice 2, 4, ... tiles of a finer zoom.             *)
LEMMA SidesOfZooms ==
  ASSUME NEW y \in 0..MaxTileZoom, NEW z \in 0..MaxTileZoom, y <= z
  PROVE  2^(z - y) \in Nat \ {0} /\ TileSide(y) = 2^(z - y) * TileSide(z)
<1>1. MaxTileZoom \in Nat
  BY TileImageSetAssumption
<1>2. PICK d : d = z - y
  OBVIOUS
<1>3. d \in 0..MaxTileZoom /\ y + d = z /\ y + d <= MaxTileZoom
  BY <1>1, <1>2
<1>4. 2^(y + d) = 2^y * 2^d
  BY <1>3, PowerAssumption
<1>5. PICK a \in Nat \ {0}, b \in Nat \ {0}, c \in Nat \ {0} : a = 2^y /\ b = 2^d /\ c = 2^z
  BY <1>3, SideOfZoom
<1>6. PICK m \in Nat \ {0}, n \in Nat \ {0} : m = TileSide(y) /\ n = TileSide(z) /\ m * a = WorldSide /\ n * c = WorldSide
  BY <1>5, SideOfZoom
<1>7. c = a * b
  BY <1>3, <1>4, <1>5
<1>8. m * a = (b * n) * a
  BY <1>6, <1>7
<1>9. m = b * n
  <2>1. b * n \in Int /\ m \in Int
    OBVIOUS
  <2>2. ~ (m * a < (b * n) * a) /\ ~ ((b * n) * a < m * a)
    BY <1>8
  <2>3. \A u, v \in Int : u < v => u * a < v * a
    <3>1. SUFFICES ASSUME NEW u \in Int, NEW v \in Int, u < v PROVE u * a < v * a
      OBVIOUS
    <3>2. PICK e \in Nat \ {0} : v = u + e
      <4>1. v - u \in Nat \ {0} /\ v = u + (v - u)
        BY <3>1
      <4>2. QED
        BY <4>1
    <3>3. v * a = u * a + e * a /\ e * a \in Nat \ {0} /\ u * a \in Int
      BY <3>2
    <3>4. QED
      BY <3>3
  <2>4. QED
    BY <2>1, <2>2, <2>3
<1>10. QED
  BY <1>2, <1>5, <1>6, <1>9

\* What adjusting a rectangle for a coarser zoom keeps: its size, where its
\* corner is, and that this is not far into the corner's tile.
IsAbove(l, r) ==
  /\ l.w = r.w /\ l.h = r.h
  /\ l.x * TileSide(l.zoom) + l.dx = r.x * TileSide(r.zoom) + r.dx
  /\ l.y * TileSide(l.zoom) + l.dy = r.y * TileSide(r.zoom) + r.dy
  /\ l.dx - r.dx <= TileSide(l.zoom) - TileSide(r.zoom)
  /\ l.dy - r.dy <= TileSide(l.zoom) - TileSide(r.zoom)

(* One coordinate of the corner: halving its column adds the odd one to    *)
(* the rest.                                                               *)
LEMMA HalvedCorner ==
  ASSUME NEW x \in Int, NEW d \in Int, NEW side \in Nat \ {0},
         NEW e, e = IF x % 2 = 1 THEN d + side ELSE d
  PROVE  (x \div 2) * (2 * side) + e = x * side + d /\ e - d <= side /\ e \in Int
<1>1. PICK q \in Int, m \in 0..1 : q = x \div 2 /\ m = x % 2 /\ x = 2 * q + m
  OBVIOUS
<1>2. q * (2 * side) = 2 * (q * side) /\ q * side \in Int
  OBVIOUS
<1>3. x * side = 2 * (q * side) + m * side
  BY <1>1, <1>2
<1>4. CASE m = 1
  BY <1>1, <1>2, <1>3, <1>4
<1>5. CASE m = 0
  BY <1>1, <1>2, <1>3, <1>5
<1>6. QED
  BY <1>1, <1>4, <1>5

(* The next coarser rectangle of a level above one is above it.            *)
LEMMA CoarserIsAbove ==
  ASSUME NEW r \in Rounded, NEW l \in Rounded, l.zoom # 0, IsAbove(l, r)
  PROVE  IsAbove(Coarser(l), r)
<1>1. /\ MaxTileZoom \in Nat /\ l.zoom \in 0..MaxTileZoom /\ r.zoom \in 0..MaxTileZoom
      /\ l.x \in Int /\ l.y \in Int /\ l.dx \in Int /\ l.dy \in Int /\ r.dx \in Int /\ r.dy \in Int
  BY TileImageSetAssumption DEF Rounded
<1>2. l.zoom - 1 \in 0..MaxTileZoom /\ l.zoom - 1 <= l.zoom /\ l.zoom - (l.zoom - 1) = 1
  BY <1>1
<1>3. PICK side \in Nat \ {0}, o \in Nat \ {0} : side = TileSide(l.zoom) /\ o = TileSide(r.zoom)
  BY <1>1, SideOfZoom
<1>4. TileSide(l.zoom - 1) = 2 * side
  <2>1. PICK y \in 0..MaxTileZoom, z \in 0..MaxTileZoom : y = l.zoom - 1 /\ z = l.zoom
    BY <1>1, <1>2
  <2>2. y <= z /\ z - y = 1
    BY <1>1, <2>1
  <2>3. TileSide(y) = 2^1 * TileSide(z)
    BY <2>2, SidesOfZooms
  <2>4. QED
    BY <1>3, <2>1, <2>3, PowerAssumption
<1>5. PICK dx, dy : /\ dx = IF l.x % 2 = 1 THEN l.dx + side ELSE l.dx
                    /\ dy = IF l.y % 2 = 1 THEN l.dy + side ELSE l.dy
  OBVIOUS
<1>6. PICK c : c = Coarser(l)
  OBVIOUS
<1>7. c = [l EXCEPT !.zoom = l.zoom - 1, !.x = l.x \div 2, !.y = l.y \div 2, !.dx = dx, !.dy = dy]
  BY <1>3, <1>5, <1>6 DEF Coarser
<1>8. /\ c.zoom = l.zoom - 1 /\ c.x = l.x \div 2 /\ c.y = l.y \div 2 /\ c.dx = dx /\ c.dy = dy
      /\ c.w = l.w /\ c.h = l.h
  BY <1>7 DEF Rounded
<1>9. c.x * (2 * side) + dx = l.x * side + l.dx /\ dx - l.dx <= side /\ dx \in Int
  BY <1>1, <1>5, <1>8, HalvedCorner
<1>10. c.y * (2 * side) + dy = l.y * side + l.dy /\ dy - l.dy <= side /\ dy \in Int
  BY <1>1, <1>5, <1>8, HalvedCorner
<1>11. dx - r.dx <= 2 * side - o /\ dy - r.dy <= 2 * side - o
  <2>1. l.dx - r.dx <= side - o /\ l.dy - r.dy <= side - o
    BY <1>3 DEF IsAbove
  <2>2. QED
    BY <1>1, <1>3, <1>9, <1>10, <2>1
<1>12. TileSide(c.zoom) = 2 * side
  BY <1>4, <1>8
<1>13. l.x * side + l.dx = r.x * o + r.dx /\ l.y * side + l.dy = r.y * o + r.dy /\ l.w = r.w /\ l.h = r.h
  BY <1>3 DEF IsAbove
<1>14. c.x * (2 * side) + dx = r.x * o + r.dx /\ c.y * (2 * side) + dy = r.y * o + r.dy
  BY <1>9, <1>10, <1>13
<1>15. IsAbove(c, r)
  BY <1>3, <1>8, <1>11, <1>12, <1>13, <1>14 DEF IsAbove
<1>16. QED
  BY <1>6, <1>15

(* So is every level that addTiles: adds.                                  *)
LEMMA LevelIsAbove ==
  ASSUME NEW r \in Rounded, NEW n \in 0..r.zoom
  PROVE  IsAbove(CoarserBy(r, n), r)
<1>1. r.zoom \in Nat /\ n \in Nat /\ r.zoom \in 0..MaxTileZoom /\ r.dx \in Int /\ r.dy \in Int
  BY TileImageSetAssumption DEF Rounded
<1>2. PICK level : IsLadder(level, r, n) /\ CoarserBy(r, n) = level[n]
  BY <1>1, CoarserIs
<1>3. \A i \in 0..n : level[i] = IF i = 0 THEN r ELSE Coarser(level[i - 1])
  BY <1>2 DEF IsLadder
<1>4. IsAbove(r, r)
  <2>1. TileSide(r.zoom) \in Int
    BY <1>1, SideOfZoom
  <2>2. r.dx - r.dx <= TileSide(r.zoom) - TileSide(r.zoom) /\ r.dy - r.dy <= TileSide(r.zoom) - TileSide(r.zoom)
    BY <1>1, <2>1
  <2>3. QED
    BY <2>2 DEF IsAbove
<1> DEFINE Good(i) == level[i] \in Rounded /\ level[i].zoom = r.zoom - i /\ IsAbove(level[i], r)
           Bad == {i \in 0..n : ~ Good(i)}
<1>5. ASSUME Bad # {} PROVE FALSE
  <2>1. PICK k \in Bad : \A j \in Bad : ~(<<j, k>> \in OpToRel(<, Nat))
    <3>1. Bad \subseteq Nat
      OBVIOUS
    <3> HIDE DEF Bad
    <3>2. QED
      BY <1>5, <3>1, WFMin, NatLessThanWellFounded
  <2>2. k \in 0..n /\ k \in Nat /\ ~ Good(k)
    OBVIOUS
  <2>3. k # 0
    BY <1>1, <1>3, <1>4, <2>2
  <2>4. k - 1 \in 0..n /\ k - 1 \notin Bad
    <3>1. k - 1 \in Nat /\ k - 1 < k /\ k - 1 \in 0..n
      BY <1>1, <2>2, <2>3
    <3> HIDE DEF Bad
    <3>2. QED
      BY <2>1, <2>2, <3>1 DEF OpToRel
  <2>5. Good(k - 1)
    BY <2>4
  <2>6. level[k - 1].zoom # 0 /\ (r.zoom - (k - 1)) - 1 = r.zoom - k
    BY <1>1, <2>2, <2>5
  <2>7. level[k] = Coarser(level[k - 1])
    BY <1>3, <2>2, <2>3
  <2>8. Good(k)
    BY <2>5, <2>6, <2>7, CoarserTyped, CoarserIsAbove
  <2>9. QED
    BY <2>2, <2>8
<1>6. n \in 0..n
  BY <1>1
<1>7. Good(n)
  BY <1>5, <1>6
<1>8. QED
  BY <1>2, <1>7

(* ... which are those of the zooms from the lowest to the screen's.       *)
LEMMA LevelsAreAbove ==
  ASSUME NEW r \in Rounded, r.zoom >= MinTileZoom, NEW z \in Int, NEW l \in Levels(z, r)
  PROVE  IsAbove(l, r)
<1>1. /\ r.zoom \in 0..MaxTileZoom /\ MaxTileZoom \in Nat /\ MinTileZoom \in 0..MaxTileZoom /\ TileDepth \in Nat
      /\ r.zoom \in Int /\ MinTileZoom \in Int
  BY TileImageSetAssumption DEF Rounded
<1>2. PICK n : n \in 0..Max({0, r.zoom - 1 - LowestZoom(z)}) /\ l = CoarserBy(r, n)
  BY DEF Levels
<1>3. PICK lowest : lowest = LowestZoom(z)
  OBVIOUS
<1>4. lowest \in Int /\ lowest >= MinTileZoom
  <2>1. z - TileDepth - 1 \in Int
    BY <1>1
  <2>2. lowest = IF MinTileZoom >= z - TileDepth - 1 THEN MinTileZoom ELSE z - TileDepth - 1
    BY <1>1, <1>3, <2>1, OfTwo DEF LowestZoom
  <2>3. QED
    BY <1>1, <2>1, <2>2
<1>5. PICK top : top = Max({0, r.zoom - 1 - lowest})
  OBVIOUS
<1>6. top \in 0..r.zoom
  <2>1. 0 \in Int /\ r.zoom - 1 - lowest \in Int
    BY <1>1, <1>4
  <2>2. top = IF 0 >= r.zoom - 1 - lowest THEN 0 ELSE r.zoom - 1 - lowest
    BY <1>5, <2>1, OfTwo
  <2>3. QED
    BY <1>1, <1>4, <2>2
<1>7. n \in 0..r.zoom
  BY <1>1, <1>2, <1>3, <1>5, <1>6
<1>8. QED
  BY <1>2, <1>7, LevelIsAbove

\* A tile lies under bounds: k worlds from where it is drawn first.
MeetsAt(t, b, k) ==
  LET side == TileSide(t.zoom) IN
  /\ t.y * side < b.y + b.h /\ b.y < (t.y + 1) * side
  /\ t.x * side + k * WorldSide < b.x + b.w /\ b.x < (t.x + 1) * side + k * WorldSide
Meets(t, b) == \E k \in Int : MeetsAt(t, b, k)

(* What a world off is not negative is no less than what is left of it.    *)
LEMMA RestIsLeast ==
  ASSUME NEW W \in Nat \ {0}, NEW d \in Int, NEW k \in Int, d + k * W >= 0
  PROVE  d % W \in Int /\ d % W <= d + k * W
<1>1. PICK a \in Int : a = d + k * W
  OBVIOUS
<1>2. a % W = d % W
  BY <1>1, SameColumn
<1>3. PICK q \in Int, m \in 0..(W - 1) : q = a \div W /\ m = a % W /\ a = q * W + m /\ q * W \in Int
  BY WholeAndRest
<1>4. q >= 0
  <2>1. (-1) * W < q * W
    BY <1>1, <1>3
  <2>2. -1 < q
    BY <2>1, FewerSides
  <2>3. QED
    BY <2>2
<1>5. q * W >= 0
  BY <1>4
<1>6. QED
  BY <1>1, <1>2, <1>3, <1>5

(* Where bounds are met round the world the distances are those of the     *)
(* property.                                                               *)
LEMMA MetRoundTheWorld ==
  ASSUME NEW a \in Int, NEW b \in Int, NEW side \in Int, NEW w \in Int, NEW k \in Int,
         a + k * WorldSide < b + w, b < a + side + k * WorldSide
  PROVE  (a - b) % WorldSide < w \/ (b - a) % WorldSide < side
<1>1. PICK W \in Nat \ {0} : W = WorldSide
  BY TileImageSetAssumption
<1>2. PICK n \in Int : n = k * W
  BY <1>1
<1>3. PICK d \in Int, e \in Int, o \in Int : d = a - b /\ e = b - a /\ o = -k
  OBVIOUS
<1>4. o * W = -n
  BY <1>2, <1>3
<1>5. d + n < w /\ e + o * W < side
  BY <1>1, <1>2, <1>3, <1>4
<1>6. CASE d + n >= 0
  <2>1. d % W \in Int /\ d % W <= d + n
    BY <1>2, <1>6, RestIsLeast
  <2>2. d % W < w
    BY <1>5, <2>1
  <2>3. QED
    BY <1>1, <1>3, <2>2
<1>7. CASE d + n < 0
  <2>1. e + o * W >= 0
    BY <1>3, <1>4, <1>7
  <2>2. e % W \in Int /\ e % W <= e + o * W
    BY <2>1, RestIsLeast
  <2>3. e % W < side
    BY <1>4, <1>5, <2>2
  <2>4. QED
    BY <1>1, <1>3, <2>3
<1>8. QED
  BY <1>6, <1>7

\* What is known of the rectangle of a screen that has tiles.
Corner(s, r, o, C, R, k) ==
  /\ r \in Rounded /\ r.zoom >= MinTileZoom /\ o \in Nat \ {0} /\ o = TileSide(r.zoom)
  /\ r.x \in 0..2^r.zoom /\ r.dx \in Nat
  /\ C \in Nat \ {0} /\ C = Columns(r) /\ R \in Nat \ {0} /\ R = Rows(r) /\ k \in Int
  /\ C * o >= r.w + r.dx /\ R * o >= r.h + r.dy
  /\ WholeTiles(r) = Rect(r.x * o + k * WorldSide, r.y * o, C * o, R * o)

(* The rectangle of a screen, and what addTiles: returns for it.           *)
LEMMA CornerIs ==
  ASSUME NEW s \in Screens, NEW r, r = TileBounds(s), HasArea(WholeTiles(r))
  PROVE  \E o, C, R, k : Corner(s, r, o, C, R, k)
<1>1. PICK z : z = NormalisedZoom(s.mpp)
  OBVIOUS
<1>2. PICK o : o = TileSide(z)
  OBVIOUS
<1>3. /\ z \in 0..MaxTileZoom /\ o \in Nat \ {0}
      /\ r \in Rounded /\ r.zoom = z /\ r.zoom >= MinTileZoom
      /\ r.x = Wrap(s.x) \div o /\ r.dx = Wrap(s.x) % o
      /\ r.y \in Nat /\ r.top = Top(s) /\ r.dy = Top(s) - r.y * o
      /\ r.w = s.w * s.mpp /\ r.h = s.h * s.mpp /\ r.left = s.x
  BY <1>1, <1>2, TileBoundsIs
<1>4. PICK p \in Nat \ {0} : p = 2^z /\ o * p = WorldSide
  BY <1>2, <1>3, SideOfZoom
<1>5. PICK w \in Nat, h \in Int, top \in Int, x \in Int : w = r.w /\ h = r.h /\ top = Top(s) /\ x = s.x
  <2>1. s.w * s.mpp \in Nat /\ s.h * s.mpp \in Int /\ Top(s) \in Int /\ s.x \in Int
    BY ScreenIs
  <2>2. QED
    BY <1>3, <2>1
<1>6. PICK u \in 0..WorldSide, k \in Int : u = Wrap(s.x) /\ x = u + k * WorldSide
  BY <1>5, WrapIs
<1>7. WorldSide \in Nat /\ u \in Int /\ 0 <= u /\ u <= WorldSide /\ k * WorldSide \in Int
  BY <1>6, TileImageSetAssumption
<1>8. PICK X \in Int, dx \in 0..(o - 1) : X = r.x /\ dx = r.dx /\ u = X * o + dx /\ X * o \in Int
  <2>1. u \div o \in Int /\ u % o \in 0..(o - 1) /\ (u \div o) * o \in Int /\ u = (u \div o) * o + (u % o)
    BY <1>3, <1>7, WholeAndRest
  <2>2. QED
    BY <1>3, <1>6, <2>1
<1>9. X \in 0..p
  <2>1. (p + 1) * o = WorldSide + o /\ (-1) * o = -o
    BY <1>3, <1>4
  <2>2. X * o < (p + 1) * o /\ (-1) * o < X * o
    <3>1. PICK q \in Int : q = X * o /\ u = q + dx
      BY <1>8
    <3>2. q < WorldSide + o /\ -o < q
      BY <1>3, <1>7, <3>1
    <3>3. QED
      BY <2>1, <3>1, <3>2
  <2>3. X < p + 1 /\ -1 < X
    BY <1>3, <1>4, <1>8, <2>2, FewerSides
  <2>4. QED
    BY <1>4, <1>8, <2>3
<1>10. PICK Y \in Nat, dy \in Int : Y = r.y /\ dy = r.dy /\ dy = top - Y * o /\ Y * o \in Int
  BY <1>3, <1>5
<1>11. PICK C, R : C = Columns(r) /\ R = Rows(r)
  OBVIOUS
<1>12. C = CeilDiv(w + dx, o) /\ R = CeilDiv(h + dy, o)
  BY <1>2, <1>3, <1>5, <1>8, <1>10, <1>11 DEF Columns, Rows
<1>13. C \in Int /\ C * o >= w + dx /\ R \in Int /\ R * o >= h + dy
  <2>1. w + dx \in Int /\ h + dy \in Int
    BY <1>3, <1>5, <1>8, <1>10
  <2>2. QED
    BY <1>3, <1>12, <2>1, CeilDivIs
<1>14. C \in Nat \ {0} /\ R \in Nat \ {0}
  <2>1. 0 * o < C * o /\ 0 * o < R * o
    <3>1. WholeTiles(r).w = C * o /\ WholeTiles(r).h = R * o
      BY <1>2, <1>3, <1>11 DEF WholeTiles
    <3>2. C * o > 0 /\ R * o > 0
      BY <3>1 DEF HasArea
    <3>3. 0 * o = 0 /\ C * o \in Int /\ R * o \in Int
      BY <1>3, <1>13
    <3>4. QED
      BY <3>2, <3>3
  <2>2. 0 < C /\ 0 < R
    BY <1>3, <1>13, <2>1, FewerSides
  <2>3. QED
    BY <1>13, <2>2
<1>15. WholeTiles(r) = Rect(X * o + k * WorldSide, Y * o, C * o, R * o)
  <2>1. r.left - r.dx = X * o + k * WorldSide
    <3>1. PICK q \in Int, n \in Int : q = X * o /\ n = k * WorldSide
      BY <1>7, <1>8
    <3>2. r.left = u + n /\ u = q + dx /\ r.dx = dx
      BY <1>3, <1>5, <1>6, <1>8, <3>1
    <3>3. (u + n) - dx = q + n
      BY <1>3, <1>7, <3>1, <3>2
    <3>4. QED
      BY <3>1, <3>2, <3>3
  <2>2. r.top - r.dy = Y * o
    BY <1>3, <1>5, <1>10
  <2>3. QED
    BY <1>2, <1>3, <1>11, <2>1, <2>2 DEF WholeTiles, Rect
<1>16. Corner(s, r, o, C, R, k)
  <2>1. r.dx \in Nat /\ r.x \in 0..2^r.zoom
    BY <1>3, <1>4, <1>8, <1>9
  <2>2. QED
    BY <1>2, <1>3, <1>5, <1>8, <1>10, <1>11, <1>13, <1>14, <1>15, <2>1 DEF Corner
<1>17. QED
  BY <1>16

\* A level over the rectangle below it, in one direction: its corner is in
\* tile i of side m, d into it, and it has N tiles; that of the rectangle is
\* e into tile j of side o, and has C tiles; both are w wide.
IsOver(i, d, m, N, j, e, o, C, w) ==
  i * m + d = j * o + e /\ d - e <= m - o /\ N * m < w + d + m /\ C * o >= w + e

(* A cell of the level lies under the whole tiles of the rectangle.        *)
LEMMA CellMeets ==
  ASSUME NEW i \in Int, NEW d \in Int, NEW m \in Nat \ {0}, NEW N \in Int,
         NEW j \in Int, NEW e \in Int, NEW o \in Nat \ {0}, NEW C \in Int, NEW w \in Int,
         IsOver(i, d, m, N, j, e, o, C, w), NEW c \in i..(i + N - 1)
  PROVE  c * m < j * o + C * o /\ j * o < (c + 1) * m
<1>1. c \in Int /\ i <= c /\ c <= i + N - 1
  OBVIOUS
<1>2. PICK im \in Int, jo \in Int, Nm \in Int, Co \in Int, cm \in Int :
        im = i * m /\ jo = j * o /\ Nm = N * m /\ Co = C * o /\ cm = c * m
  BY <1>1
<1>3. PICK g \in Nat, l \in Nat : c = i + g /\ i + N - 1 = c + l
  <2>1. c - i \in Nat /\ i + N - 1 - c \in Nat /\ c = i + (c - i) /\ i + N - 1 = c + (i + N - 1 - c)
    BY <1>1
  <2>2. QED
    BY <2>1
<1>4. cm = im + g * m /\ g * m \in Nat
  BY <1>2, <1>3
<1>5. (i + N - 1) * m = im + Nm - m /\ (c + l) * m = cm + l * m /\ l * m \in Nat
  <2>1. (i + N - 1) * m = i * m + N * m - m
    OBVIOUS
  <2>2. (c + l) * m = c * m + l * m /\ l * m \in Nat
    BY <1>1
  <2>3. QED
    BY <1>2, <2>1, <2>2
<1>6. cm + l * m = im + Nm - m
  BY <1>3, <1>5
<1>7. (c + 1) * m = cm + m
  BY <1>1, <1>2
<1>8. im + d = jo + e /\ d - e <= m - o /\ Nm < w + d + m /\ Co >= w + e
  BY <1>2 DEF IsOver
<1>9. cm < jo + Co
  <2>1. cm <= im + Nm - m
    BY <1>5, <1>6
  <2>2. QED
    BY <1>8, <2>1
<1>10. jo < cm + m
  <2>1. im <= cm
    BY <1>4
  <2>2. QED
    BY <1>8, <2>1
<1>11. QED
  BY <1>2, <1>7, <1>9, <1>10

(* Every tile that addTiles: adds for a screen, on whichever level, lies   *)
(* under the bounds it returns.                                            *)
LEMMA PlacesMeet ==
  ASSUME NEW s, NEW r, NEW o, NEW C, NEW R, NEW k, Corner(s, r, o, C, R, k),
         NEW l \in Rounded, l.zoom >= MinTileZoom, IsAbove(l, r), NEW t \in DOMAIN PlacesOfLevel(l)
  PROVE  Meets(t, WholeTiles(r))
<1>1. /\ l.zoom \in 0..MaxTileZoom /\ l.x \in Int /\ l.y \in Int /\ l.dx \in Int /\ l.dy \in Int /\ l.w \in Int /\ l.h \in Int
      /\ r.x \in Int /\ r.y \in Int /\ r.dx \in Int /\ r.dy \in Int /\ o \in Nat \ {0} /\ C \in Int /\ R \in Int /\ k \in Int
  BY DEF Rounded, Corner
<1>2. PICK m \in Nat \ {0}, p \in Nat \ {0} : m = TileSide(l.zoom) /\ p = 2^l.zoom /\ m * p = WorldSide
  BY <1>1, SideOfZoom
<1>3. PICK walk : walk = Walk(l, Columns(l), Rows(l)) /\ \E i \in DOMAIN walk : NormalisedTile(walk[i]) = t
  BY PlacesOfLevelTyped
<1>4. PICK A, B : A = Columns(l) /\ B = Rows(l)
  OBVIOUS
<1>5. /\ A \in Int /\ A * m < l.w + l.dx + m /\ B \in Int /\ B * m < l.h + l.dy + m
  <2>1. A = CeilDiv(l.w + l.dx, m) /\ B = CeilDiv(l.h + l.dy, m)
    BY <1>2, <1>4 DEF Columns, Rows
  <2>2. l.w + l.dx \in Int /\ l.h + l.dy \in Int
    BY <1>1
  <2>3. QED
    BY <2>1, <2>2, CeilDivIs
<1>6. PICK c : /\ c.x \in l.x..(l.x + A - 1) /\ c.y \in l.y..(l.y + B - 1)
               /\ t = [x |-> c.x % p, y |-> c.y, zoom |-> l.zoom]
  <2>1. PICK i \in DOMAIN walk : NormalisedTile(walk[i]) = t
    BY <1>3
  <2>2. /\ walk[i].x \in l.x..(l.x + A - 1) /\ walk[i].y \in l.y..(l.y + B - 1)
        /\ NormalisedTile(walk[i]) = [x |-> walk[i].x % 2^l.zoom, y |-> walk[i].y, zoom |-> l.zoom]
    BY <1>3, <1>4, <1>5, WalkIs
  <2>3. QED
    BY <1>2, <2>1, <2>2
<1>7. PICK x \in Int, y \in Int : x = c.x /\ y = c.y
  BY <1>1, <1>5, <1>6
<1>8. /\ r.w = l.w /\ r.h = l.h
      /\ l.x * m + l.dx = r.x * o + r.dx /\ l.y * m + l.dy = r.y * o + r.dy
      /\ l.dx - r.dx <= m - o /\ l.dy - r.dy <= m - o
      /\ C * o >= r.w + r.dx /\ R * o >= r.h + r.dy
      /\ WholeTiles(r) = Rect(r.x * o + k * WorldSide, r.y * o, C * o, R * o)
  BY <1>2 DEF IsAbove, Corner
<1>9. x * m < r.x * o + C * o /\ r.x * o < (x + 1) * m
  <2>1. IsOver(l.x, l.dx, m, A, r.x, r.dx, o, C, l.w)
    BY <1>5, <1>8 DEF IsOver
  <2>2. QED
    BY <1>1, <1>5, <1>6, <1>7, <2>1, CellMeets
<1>10. y * m < r.y * o + R * o /\ r.y * o < (y + 1) * m
  <2>1. IsOver(l.y, l.dy, m, B, r.y, r.dy, o, R, l.h)
    BY <1>5, <1>8 DEF IsOver
  <2>2. QED
    BY <1>1, <1>5, <1>6, <1>7, <2>1, CellMeets
<1>11. PICK q \in Int, u \in Int : q = x \div p /\ u = x % p /\ x = q * p + u /\ q * p \in Int
  <2>1. x \div p \in Int /\ x % p \in Int /\ (x \div p) * p \in Int /\ x = (x \div p) * p + (x % p)
    BY WholeAndRest
  <2>2. QED
    BY <2>1
<1>12. t.zoom = l.zoom /\ t.x = u /\ t.y = y /\ TileSide(t.zoom) = m
  BY <1>2, <1>6, <1>7, <1>11
<1>13. PICK n \in Int : n = q + k
  BY <1>1
<1>14. x * m + k * WorldSide = u * m + n * WorldSide /\ (x + 1) * m + k * WorldSide = (u + 1) * m + n * WorldSide
  <2>1. (q * p) * m = q * WorldSide
    <3>1. (q * p) * m = q * (m * p)
      OBVIOUS
    <3>2. QED
      BY <1>2, <3>1
  <2>2. PICK W \in Nat : W = WorldSide
    BY TileImageSetAssumption
  <2>3. x * m = (q * p) * m + u * m
    BY <1>11, SumOfSides
  <2>4. n * W = q * W + k * W /\ q * W \in Int /\ k * W \in Int /\ n * W \in Int
    BY <1>1, <1>13, SumOfSides
  <2>5. (x + 1) * m = x * m + m /\ (u + 1) * m = u * m + m /\ x * m \in Int /\ u * m \in Int
    OBVIOUS
  <2>6. QED
    BY <2>1, <2>2, <2>3, <2>4, <2>5
<1>15. PICK b : b = WholeTiles(r)
  OBVIOUS
<1>16. b.x = r.x * o + k * WorldSide /\ b.y = r.y * o /\ b.w = C * o /\ b.h = R * o
  BY <1>8, <1>15 DEF Rect
<1>17. u * m + n * WorldSide < b.x + b.w /\ b.x < (u + 1) * m + n * WorldSide
  <2>1. PICK W \in Int, a \in Int, g \in Int, f \in Int, e \in Int :
          W = k * WorldSide /\ a = x * m /\ g = r.x * o /\ f = C * o /\ e = (x + 1) * m
    <3>1. WorldSide \in Nat
      BY TileImageSetAssumption
    <3>2. k * WorldSide \in Int /\ x * m \in Int /\ r.x * o \in Int /\ C * o \in Int /\ (x + 1) * m \in Int
      BY <1>1, <3>1
    <3>3. QED
      BY <3>2
  <2>2. a + W < (g + W) + f /\ g + W < e + W
    BY <1>9, <2>1
  <2>3. QED
    BY <1>14, <1>16, <2>1, <2>2
<1>18. MeetsAt(t, b, n)
  BY <1>10, <1>12, <1>16, <1>17 DEF MeetsAt
<1>19. QED
  BY <1>15, <1>18 DEF Meets

(* Of two numbers of sides, the larger one is longer.                      *)
LEMMA MoreSides ==
  ASSUME NEW m \in Int, NEW n \in Int, NEW side \in Nat \ {0}, m < n
  PROVE  m * side < n * side
<1>1. PICK d \in Nat \ {0} : n = m + d
  <2>1. n - m \in Nat \ {0} /\ n = m + (n - m)
    OBVIOUS
  <2>2. QED
    BY <2>1
<1>2. n * side = m * side + d * side /\ d * side \in Nat \ {0} /\ m * side \in Int
  BY <1>1
<1>3. QED
  BY <1>2

\* Two places c and v, of zooms y and z whose sides are m and o, are reduced
\* to e and a of the coarser of the two zooms.
IsReduced(y, z, c, v, m, o, e, a) ==
  LET n == Min({y, z}) IN
  m = TileSide(y) /\ o = TileSide(z) /\ e = c \div 2^(y - n) /\ a = v \div 2^(z - n)
\* They are in the order of their lengths.
Compares(c, v, m, o, e, a) ==
  /\ e \in Int /\ a \in Int
  /\ e <= a => c * m < (v + 1) * o
  /\ e >= a => v * o < (c + 1) * m

(* Where removeTilesOutsideOf: compares a tile with a place of the         *)
(* rectangle on the coarser of the two zooms, the lengths compare too.     *)
LEMMA ComparedSides ==
  ASSUME NEW y \in 0..MaxTileZoom, NEW z \in 0..MaxTileZoom, NEW c \in Int, NEW v \in Int,
         NEW m, NEW o, NEW e, NEW a, IsReduced(y, z, c, v, m, o, e, a)
  PROVE  Compares(c, v, m, o, e, a)
<1>0. PICK n : n = Min({y, z}) /\ e = c \div 2^(y - n) /\ a = v \div 2^(z - n)
  BY DEF IsReduced
<1>1. MaxTileZoom \in Nat /\ y \in Int /\ z \in Int
  BY TileImageSetAssumption
<1>2. 2^0 = 1
  <2>1. 0 \in 0..MaxTileZoom /\ 0 + 0 = 0 /\ 0 + 0 <= MaxTileZoom
    BY <1>1
  <2>2. 2^(0 + 0) = 2^0 * 2^0
    BY <2>1, PowerAssumption
  <2>3. PICK w \in Nat \ {0} : w = 2^0
    BY <2>1, SideOfZoom
  <2>4. w = w * w
    BY <2>1, <2>2, <2>3
  <2>5. w = 1
    <3>1. ASSUME w >= 2 PROVE FALSE
      <4>1. PICK h \in Nat : w = 2 + h
        <5>1. w - 2 \in Nat /\ w = 2 + (w - 2)
          BY <3>1
        <5>2. QED
          BY <5>1
      <4>2. w * w = 2 * w + h * w /\ h * w \in Nat
        BY <4>1
      <4>3. QED
        BY <2>4, <4>2
    <3>2. QED
      BY <3>1
  <2>6. QED
    BY <2>3, <2>5
<1>3. m = TileSide(y) /\ o = TileSide(z) /\ m \in Nat \ {0} /\ o \in Nat \ {0}
  BY SideOfZoom DEF IsReduced
<1>4. CASE y <= z
  <2>1. n = y /\ y - n = 0
    BY <1>0, <1>1, <1>4, OfTwo
  <2>2. PICK q \in Nat \ {0} : q = 2^(z - y) /\ m = q * o
    BY <1>3, <1>4, SidesOfZooms
  <2>3. e = c /\ a = v \div q
    BY <1>0, <1>2, <2>1, <2>2
  <2>4. a \in Int /\ a * q <= v /\ v < a * q + q /\ a * q \in Int
    BY <2>3
  <2>5. c * m = (c * q) * o /\ (c + 1) * m = (c * q + q) * o
    BY <1>3, <2>2
  <2>6. ASSUME e <= a PROVE c * m < (v + 1) * o
    <3>1. c * q <= a * q
      <4>1. PICK g \in Nat : a = c + g
        <5>1. a - c \in Nat /\ a = c + (a - c)
          BY <2>3, <2>4, <2>6
        <5>2. QED
          BY <5>1
      <4>2. a * q = c * q + g * q /\ g * q \in Nat /\ c * q \in Int
        BY <4>1
      <4>3. QED
        BY <4>2
    <3>2. c * q < v + 1 /\ c * q \in Int
      BY <2>4, <3>1
    <3>3. QED
      BY <1>3, <2>5, <3>2, MoreSides
  <2>7. ASSUME e >= a PROVE v * o < (c + 1) * m
    <3>1. a * q <= c * q
      <4>1. PICK g \in Nat : c = a + g
        <5>1. c - a \in Nat /\ c = a + (c - a)
          BY <2>3, <2>4, <2>7
        <5>2. QED
          BY <5>1
      <4>2. c * q = a * q + g * q /\ g * q \in Nat
        BY <2>4, <4>1
      <4>3. QED
        BY <2>4, <4>2
    <3>2. v < c * q + q /\ c * q + q \in Int
      BY <2>4, <3>1
    <3>3. QED
      BY <1>3, <2>5, <3>2, MoreSides
  <2>8. QED
    BY <1>3, <2>3, <2>4, <2>6, <2>7 DEF Compares
<1>5. CASE y > z
  <2>1. n = z /\ z - n = 0
    BY <1>0, <1>1, <1>5, OfTwo
  <2>2. PICK q \in Nat \ {0} : q = 2^(y - z) /\ o = q * m
    BY <1>1, <1>3, <1>5, SidesOfZooms
  <2>3. a = v /\ e = c \div q
    BY <1>0, <1>2, <2>1, <2>2
  <2>4. e \in Int /\ e * q <= c /\ c < e * q + q /\ e * q \in Int
    BY <2>3
  <2>5. v * o = (v * q) * m /\ (v + 1) * o = (v * q + q) * m
    BY <1>3, <2>2
  <2>6. ASSUME e <= a PROVE c * m < (v + 1) * o
    <3>1. e * q <= v * q
      <4>1. PICK g \in Nat : v = e + g
        <5>1. v - e \in Nat /\ v = e + (v - e)
          BY <2>3, <2>4, <2>6
        <5>2. QED
          BY <5>1
      <4>2. v * q = e * q + g * q /\ g * q \in Nat
        BY <2>4, <4>1
      <4>3. QED
        BY <2>4, <4>2
    <3>2. c < v * q + q /\ v * q + q \in Int
      BY <2>4, <3>1
    <3>3. QED
      BY <1>3, <2>5, <3>2, MoreSides
  <2>7. ASSUME e >= a PROVE v * o < (c + 1) * m
    <3>1. v * q <= e * q
      <4>1. PICK g \in Nat : e = v + g
        <5>1. e - v \in Nat /\ e = v + (e - v)
          BY <2>3, <2>4, <2>7
        <5>2. QED
          BY <5>1
      <4>2. e * q = v * q + g * q /\ g * q \in Nat /\ v * q \in Int
        BY <2>4, <4>1
      <4>3. QED
        BY <4>2
    <3>2. v * q < c + 1 /\ v * q \in Int
      BY <2>4, <3>1
    <3>3. QED
      BY <1>3, <2>5, <3>2, MoreSides
  <2>8. QED
    BY <1>3, <2>3, <2>4, <2>6, <2>7 DEF Compares
<1>6. QED
  BY <1>1, <1>4, <1>5

(* The tile of the coarser zoom of a place further on is no earlier one.   *)
LEMMA SmallerParts ==
  ASSUME NEW a \in Nat, NEW b \in Nat, a <= b, NEW w \in Nat \ {0}
  PROVE  a \div w <= b \div w
<1>1. PICK i \in Int, j \in Int : i = a \div w /\ j = b \div w
  OBVIOUS
<1>2. i * w <= a /\ b < j * w + w /\ i * w \in Int /\ j * w \in Int
  BY <1>1
<1>3. (j + 1) * w = j * w + w
  OBVIOUS
<1>4. i * w < (j + 1) * w
  BY <1>2, <1>3
<1>5. i < j + 1
  BY <1>4, FewerSides
<1>6. QED
  BY <1>1, <1>5

(* What removeTilesOutsideOf: leaves lies under the bounds that addTiles:  *)
(* returned, also round the end of the world.                              *)
LEMMA InsideMeets ==
  ASSUME NEW s, NEW r, NEW o \in Nat \ {0}, NEW C \in Nat \ {0}, NEW R \in Nat \ {0}, NEW k \in Int, Corner(s, r, o, C, R, k),
         NEW im, NEW t \in TilesInside(im, r), t \in Tiles
  PROVE  Meets(t, WholeTiles(r))
<1>1. /\ r.zoom \in 0..MaxTileZoom /\ o = TileSide(r.zoom) /\ C = Columns(r) /\ R = Rows(r)
      /\ WholeTiles(r) = Rect(r.x * o + k * WorldSide, r.y * o, C * o, R * o)
  BY DEF Rounded, Corner
<1>2. PICK p \in Nat \ {0} : p = 2^r.zoom /\ o * p = WorldSide
  BY <1>1, SideOfZoom
<1>3. PICK X \in Nat, Y \in Nat : X = r.x /\ Y = r.y /\ X <= p
  <2>1. r.x \in 0..p /\ r.y \in Nat
    BY <1>2 DEF Corner, Rounded
  <2>2. QED
    BY <2>1
<1>4. PICK y : y \in 0..MaxTileZoom /\ y = t.zoom
  BY TileIs
<1>5. PICK m \in Nat \ {0}, pp \in Nat \ {0} : m = TileSide(y) /\ pp = 2^y /\ m * pp = WorldSide
  BY <1>4, SideOfZoom
<1>6. PICK u \in Nat, v \in Nat : u = t.x /\ v = t.y /\ u < pp
  <2>1. t.x \in 0..(pp - 1) /\ t.y \in 0..(pp - 1)
    BY <1>4, <1>5, TileIs
  <2>2. QED
    BY <2>1
<1>7. PICK last : last = [x |-> r.x + Span(Columns(r)), y |-> r.y + Span(Rows(r)), zoom |-> r.zoom]
  OBVIOUS
<1>8. PICK X2 \in Nat, Y2 \in Int : X2 = X + C - 1 /\ Y2 = Y + R - 1 /\ last.x = X2 /\ last.y = Y2 /\ last.zoom = r.zoom
  <2>1. X + C - 1 \in Nat /\ Y + R - 1 \in Int /\ Span(C) = C - 1 /\ Span(R) = R - 1
    BY DEF Span
  <2>2. last.x = X + C - 1 /\ last.y = Y + R - 1 /\ last.zoom = r.zoom
    BY <1>1, <1>3, <1>7, <2>1
  <2>3. QED
    BY <2>1, <2>2
<1>9. PICK right : right = IF IsDummy(last) THEN last.x ELSE NormalisedTile(last).x
  OBVIOUS
<1>10. PICK n : n = Min({y, r.zoom})
  OBVIOUS
<1>11. /\ v \div 2^(y - n) \in (Y \div 2^(r.zoom - n))..(Y2 \div 2^(r.zoom - n))
       /\ InColumns(u \div 2^(y - n), X \div 2^(r.zoom - n), right \div 2^(r.zoom - n))
  BY <1>3, <1>4, <1>6, <1>7, <1>8, <1>9, <1>10 DEF TilesInside
<1>12. right \in Nat /\ (right = X2 \/ \E g \in Nat : X2 = right + g * p)
  <2>1. CASE IsDummy(last)
    BY <1>8, <1>9, <2>1
  <2>2. CASE ~ IsDummy(last)
    <3>1. right = X2 % p
      BY <1>2, <1>7, <1>8, <1>9, <2>2 DEF NormalisedTile
    <3>2. X2 \div p \in Nat /\ X2 % p \in Nat /\ X2 = (X2 % p) + (X2 \div p) * p
      OBVIOUS
    <3>3. QED
      BY <3>1, <3>2
  <2>3. QED
    BY <2>1, <2>2
<1>13. right <= X2
  <2>1. ASSUME NEW g \in Nat, X2 = right + g * p PROVE right <= X2
    <3>1. g * p \in Nat
      OBVIOUS
    <3>2. QED
      BY <1>12, <2>1, <3>1
  <2>2. QED
    BY <1>12, <2>1
<1>14. PICK a, b, e : a = X \div 2^(r.zoom - n) /\ b = right \div 2^(r.zoom - n) /\ e = u \div 2^(y - n)
  OBVIOUS
<1>15. /\ e \in Int /\ a \in Int /\ b \in Int
       /\ e >= a => X * o < (u + 1) * m
       /\ e <= b => u * m < (right + 1) * o
  <2>1. IsReduced(y, r.zoom, u, X, m, o, e, a) /\ IsReduced(y, r.zoom, u, right, m, o, e, b)
    BY <1>1, <1>5, <1>10, <1>14 DEF IsReduced
  <2>2. right \in Int /\ u \in Int /\ X \in Int
    BY <1>12
  <2>3. Compares(u, X, m, o, e, a) /\ Compares(u, right, m, o, e, b)
    BY <1>1, <1>4, <2>1, <2>2, ComparedSides
  <2>4. QED
    BY <2>3 DEF Compares
<1>16. v * m < (Y2 + 1) * o /\ Y * o < (v + 1) * m
  <2>1. PICK c, d, f : c = Y \div 2^(r.zoom - n) /\ d = Y2 \div 2^(r.zoom - n) /\ f = v \div 2^(y - n)
    OBVIOUS
  <2>2. IsReduced(y, r.zoom, v, Y, m, o, f, c) /\ IsReduced(y, r.zoom, v, Y2, m, o, f, d)
    BY <1>1, <1>5, <1>10, <2>1 DEF IsReduced
  <2>3. Compares(v, Y, m, o, f, c) /\ Compares(v, Y2, m, o, f, d)
    <3>1. v \in Int /\ Y \in Int
      OBVIOUS
    <3>2. QED
      BY <1>1, <1>4, <2>2, <3>1, ComparedSides
  <2>4. f \in c..d
    BY <1>11, <2>1
  <2>5. QED
    BY <2>3, <2>4 DEF Compares
<1>17. \E g \in Nat : u * m + g * WorldSide < (X2 + 1) * o /\ X * o < (u + 1) * m + g * WorldSide
  <2>0. WorldSide \in Nat /\ 0 * WorldSide = 0
    BY TileImageSetAssumption
  <2>1. (right + 1) * o <= (X2 + 1) * o /\ (right + 1) * o \in Int /\ (X2 + 1) * o \in Int
    <3>1. right + 1 = X2 + 1 \/ right + 1 < X2 + 1
      BY <1>12, <1>13
    <3>2. right + 1 \in Int /\ X2 + 1 \in Int
      BY <1>12
    <3>3. (right + 1) * o \in Int /\ (X2 + 1) * o \in Int
      BY <1>1, <3>2
    <3>4. right + 1 < X2 + 1 => (right + 1) * o < (X2 + 1) * o
      BY <1>1, <3>2, MoreSides
    <3>5. QED
      BY <3>1, <3>3, <3>4
  <2>2. u * m \in Int /\ X * o \in Int /\ (u + 1) * m \in Int
    BY <1>1
  <2>3. CASE e >= a /\ e <= b
    <3>1. u * m + 0 * WorldSide < (X2 + 1) * o /\ X * o < (u + 1) * m + 0 * WorldSide
      BY <1>15, <2>0, <2>1, <2>2, <2>3
    <3>2. QED
      BY <3>1
  <2>4. CASE ~ (a <= b)
    <3>1. right < X
      <4>1. ASSUME X <= right PROVE FALSE
        <5>1. \A w \in Nat \ {0} : X \div w <= right \div w
          BY <1>12, <4>1, SmallerParts
        <5>2. 2^(r.zoom - n) \in Nat \ {0}
          <6>1. r.zoom \in Int /\ y \in Int /\ MaxTileZoom \in Nat
            BY <1>1, <1>4, TileImageSetAssumption
          <6>2. r.zoom - n \in 0..MaxTileZoom
            BY <1>1, <1>4, <1>10, <6>1, OfTwo
          <6>3. QED
            BY <6>2, SideOfZoom
        <5>3. QED
          BY <1>14, <2>4, <5>1, <5>2
      <4>2. QED
        BY <1>12, <4>1
    <3>2. PICK g \in Nat : X2 = right + g * p
      BY <1>1, <1>8, <1>12, <3>1
    <3>3. g >= 1
      <4>1. ASSUME g = 0 PROVE FALSE
        <5>1. X2 = right
          BY <1>12, <3>2, <4>1
        <5>2. QED
          BY <1>1, <1>8, <3>1, <5>1
      <4>2. QED
        BY <4>1
    <3>4. PICK h \in Nat : g = h + 1
      <4>1. g - 1 \in Nat /\ g = (g - 1) + 1
        BY <3>3
      <4>2. QED
        BY <4>1
    <3>5. g * p = h * p + p /\ h * p \in Nat /\ g * WorldSide = h * WorldSide + WorldSide /\ h * WorldSide \in Nat
      BY <2>0, <3>4
    <3>6. (u + 1) * m <= WorldSide
      <4>1. u + 1 = pp \/ u + 1 < pp
        BY <1>6
      <4>2. u + 1 < pp => (u + 1) * m < pp * m
        BY MoreSides
      <4>3. pp * m = WorldSide
        BY <1>5
      <4>4. QED
        BY <2>0, <2>2, <4>1, <4>2, <4>3
    <3>7. CASE e >= a
      <4>1. u * m < (u + 1) * m
        BY MoreSides
      <4>2. p * o = WorldSide
        BY <1>2
      <4>3. p < X2 + 1
        BY <1>12, <3>2, <3>5
      <4>4. p * o < (X2 + 1) * o
        BY <1>1, <4>3, MoreSides
      <4>5. u * m + 0 * WorldSide < (X2 + 1) * o /\ X * o < (u + 1) * m + 0 * WorldSide
        BY <1>15, <2>0, <2>1, <2>2, <3>6, <3>7, <4>1, <4>2, <4>4
      <4>6. QED
        BY <4>5
    <3>8. CASE e <= b
      <4>1. (X2 + 1) * o = (right + 1) * o + g * WorldSide
        <5>1. (g * p) * o = g * (o * p) /\ g * p \in Nat
          OBVIOUS
        <5>2. PICK gp \in Nat : gp = g * p
          BY <5>1
        <5>3. X2 + 1 = (right + 1) + gp
          BY <1>12, <3>2, <5>2
        <5>4. ((right + 1) + gp) * o = (right + 1) * o + gp * o
          BY <1>12, SumOfSides
        <5>5. QED
          BY <1>2, <5>1, <5>2, <5>3, <5>4
      <4>2. u * m + g * WorldSide < (X2 + 1) * o
        BY <1>15, <2>0, <2>1, <2>2, <3>5, <3>8, <4>1
      <4>3. X * o <= WorldSide
        <5>1. X = p \/ X < p
          BY <1>3
        <5>2. X < p => X * o < p * o
          BY <1>1, MoreSides
        <5>3. p * o = WorldSide
          BY <1>2
        <5>4. QED
          BY <2>0, <2>2, <5>1, <5>2, <5>3
      <4>4. 0 < (u + 1) * m
        <5>1. 0 * m = 0 /\ 0 < u + 1
          OBVIOUS
        <5>2. 0 * m < (u + 1) * m
          BY <5>1, MoreSides
        <5>3. QED
          BY <5>1, <5>2
      <4>5. X * o < (u + 1) * m + g * WorldSide
        BY <2>0, <2>2, <3>5, <4>3, <4>4
      <4>6. QED
        BY <4>2, <4>5
    <3>9. e >= a \/ e <= b
      BY <1>11, <1>14, <1>15, <2>4 DEF InColumns
    <3>10. QED
      BY <3>7, <3>8, <3>9
  <2>5. a <= b => e >= a /\ e <= b
    BY <1>11, <1>14, <1>15 DEF InColumns
  <2>6. QED
    BY <2>3, <2>4, <2>5
<1>18. PICK g \in Nat : u * m + g * WorldSide < (X2 + 1) * o /\ X * o < (u + 1) * m + g * WorldSide
  BY <1>17
<1>19. PICK W \in Nat : W = WorldSide
  BY TileImageSetAssumption
<1>20. PICK q \in Int : q = g + k
  BY <1>1
<1>21. q * W = g * W + k * W /\ g * W \in Int /\ k * W \in Int /\ q * W \in Int
  BY <1>1, <1>20, SumOfSides
<1>22. (X2 + 1) * o = X * o + C * o /\ (Y2 + 1) * o = Y * o + R * o /\ X * o \in Int /\ C * o \in Int
  <2>1. X2 + 1 = X + C /\ Y2 + 1 = Y + R
    BY <1>8
  <2>2. (X + C) * o = X * o + C * o /\ (Y + R) * o = Y * o + R * o /\ X * o \in Int /\ C * o \in Int
    OBVIOUS
  <2>3. QED
    BY <2>1, <2>2
<1>23. PICK f : f = WholeTiles(r)
  OBVIOUS
<1>24. f.x = X * o + k * W /\ f.y = Y * o /\ f.w = C * o /\ f.h = R * o
  BY <1>1, <1>3, <1>19, <1>23 DEF Rect
<1>25. u * m \in Int /\ (u + 1) * m \in Int
  OBVIOUS
<1>26. u * m + q * W < f.x + f.w /\ f.x < (u + 1) * m + q * W
  <2>1. PICK i \in Int, j \in Int, c \in Int, d \in Int, A \in Int, B \in Int :
          i = u * m /\ j = (u + 1) * m /\ c = X * o /\ d = C * o /\ A = g * W /\ B = k * W
    BY <1>21, <1>22, <1>25
  <2>2. i + A < c + d /\ c < j + A /\ q * W = A + B /\ f.x = c + B /\ f.w = d
    BY <1>18, <1>19, <1>21, <1>22, <1>24, <2>1
  <2>3. QED
    BY <2>1, <2>2
<1>27. v * m < f.y + f.h /\ f.y < (v + 1) * m
  BY <1>16, <1>22, <1>24
<1>28. MeetsAt(t, f, q)
  BY <1>4, <1>5, <1>6, <1>19, <1>26, <1>27 DEF MeetsAt
<1>29. QED
  BY <1>23, <1>28 DEF Meets

-----------------------------------------------------------------------------
(* No image is far away.                                                   *)

PlacesOfTheMap == [x : Int, y : Int, w : Int, h : Int]
Near(bounds, im) == HasArea(bounds) => \A t \in DOMAIN im : Meets(t, bounds)

\* What each gesture, answer and update leaves: no image is off the loaded
\* bounds, and none was added before there were loaded tiles to compare with.
Gathered ==
  /\ Neat /\ loadedBounds \in PlacesOfTheMap
  /\ loadedTiles \/ DOMAIN images = {}
  /\ aligned => Near(loadedBounds, images)

(* It is a property of the variables after a step as it is before.         *)
LEMMA GatheredAfter ==
  ASSUME Neat', NEW b \in PlacesOfTheMap, loadedBounds' = b, NEW im, images' = im,
         loadedTiles' \/ DOMAIN im = {}, aligned' => Near(b, im)
  PROVE  Gathered'
<1>1. (aligned => Near(loadedBounds, images))'
  BY DEF Near, HasArea, Meets, MeetsAt
<1>2. QED
  BY <1>1 DEF Gathered

(* A screen that is loaded anew keeps only what lies under its tiles.      *)
LEMMA LoadedIsNear ==
  ASSUME NEW s \in Screens, NEW y, NEW im, Typed(im), Clean(y, im), NEW tiles, tiles \/ DOMAIN im = {},
         NEW r, r = TileBounds(s),
         NEW added, added = AddTiles(r.zoom, SetZoomTo(y, im, r.zoom), r, Cached),
         NEW left, left = IF tiles THEN RemoveTilesOutsideOf(added, r) ELSE added
  PROVE  WholeTiles(r) \in PlacesOfTheMap /\ Near(WholeTiles(r), left)
<1>1. r \in Rounded /\ r.zoom >= MinTileZoom /\ r.zoom \in 0..MaxTileZoom
  BY TileBoundsIs
<1>2. r.zoom \in Int
  BY <1>1, TileImageSetAssumption
<1>5. WholeTiles(r) \in PlacesOfTheMap
  <2>1. TileSide(r.zoom) \in Int
    BY <1>1, SideOfZoom
  <2>2. Columns(r) \in Int /\ Rows(r) \in Int
    BY <1>1, RowsAndColumns
  <2>3. PICK w \in Int, h \in Int : w = Columns(r) * TileSide(r.zoom) /\ h = Rows(r) * TileSide(r.zoom)
    BY <2>1, <2>2
  <2>4. r.left - r.dx \in Int /\ r.top - r.dy \in Int
    BY <1>1 DEF Rounded
  <2>5. WholeTiles(r) = [x |-> r.left - r.dx, y |-> r.top - r.dy, w |-> w, h |-> h]
    BY <2>3 DEF WholeTiles
  <2>6. QED
    BY <2>4, <2>5 DEF PlacesOfTheMap
<1>6. Typed(added)
  BY LoadedIsNeat
<1>10. SUFFICES ASSUME HasArea(WholeTiles(r)) PROVE \A t \in DOMAIN left : Meets(t, WholeTiles(r))
  BY <1>5 DEF Near
<1>3. PICK o, C, R, k : Corner(s, r, o, C, R, k)
  BY <1>10, CornerIs
<1>4. o \in Nat \ {0} /\ C \in Nat \ {0} /\ R \in Nat \ {0} /\ k \in Int
  BY <1>3 DEF Corner
<1>7. CASE tiles
  <2>1. left = Restrict(added, TilesInside(added, r))
    BY <1>7 DEF RemoveTilesOutsideOf
  <2>2. DOMAIN left = TilesInside(added, r) /\ TilesInside(added, r) \subseteq DOMAIN added
    BY <2>1 DEF Restrict, TilesInside
  <2>3. ASSUME NEW t \in DOMAIN left PROVE Meets(t, WholeTiles(r))
    <3>1. t \in TilesInside(added, r) /\ t \in Tiles
      BY <1>6, <2>2 DEF Typed
    <3>2. QED
      BY <1>3, <1>4, <3>1, InsideMeets
  <2>4. QED
    BY <2>3
<1>8. CASE ~ tiles
  <2>1. DOMAIN im = {}
    BY <1>8
  <2>2. PICK fit : fit = SetZoomTo(y, im, r.zoom)
    OBVIOUS
  <2>3. Typed(fit) /\ Clean(r.zoom, fit)
    BY <1>2, <2>2, SetZoomCleans
  <2>4. DOMAIN fit = {}
    BY <2>1, <2>2 DEF SetZoomTo, RemoveTilesWorseThan, Restrict
  <2>5. PICK places : places = Places(r.zoom, r)
    OBVIOUS
  <2>6. \A t \in DOMAIN places : t \in Tiles /\ places[t] \in Points
    BY <1>1, <1>2, <2>5, PlacesTyped
  <2>7. added = AddTilesAt(r.zoom, fit, places, Cached)
    BY <2>2, <2>5 DEF AddTiles
  <2>8. DOMAIN added \subseteq DOMAIN fit \union DOMAIN places
    BY <1>2, <2>3, <2>6, <2>7, AddedTiles
  <2>9. ASSUME NEW t \in DOMAIN added PROVE Meets(t, WholeTiles(r))
    <3>1. t \in DOMAIN places
      BY <2>4, <2>8
    <3>2. PICK l \in Levels(r.zoom, r) : t \in DOMAIN PlacesOfLevel(l)
      BY <1>1, <1>2, <2>5, <3>1, PlacesTyped
    <3>3. l \in Rounded /\ l.zoom \in MinTileZoom..r.zoom
      BY <1>1, <1>2, LevelsTyped
    <3>4. l.zoom >= MinTileZoom
      BY <1>2, <3>3, TileImageSetAssumption
    <3>5. IsAbove(l, r)
      BY <1>1, <1>2, LevelsAreAbove
    <3>6. QED
      BY <1>3, <3>2, <3>3, <3>4, <3>5, PlacesMeet
  <2>10. QED
    BY <1>8, <2>9
<1>9. QED
  BY <1>7, <1>8

(* The update that ends each gesture.                                      *)
LEMMA UpdateIsGathered ==
  ASSUME zoom \in 0..MaxTileZoom, NEW s \in Screens, NEW moved, Typed(moved), Clean(zoom, moved),
         NEW bounds \in PlacesOfTheMap, NEW tiles, tiles \/ DOMAIN moved = {},
         NEW together, together => Near(bounds, moved),
         UpdateLoadedImages(s, moved, bounds, tiles, together)
  PROVE  Gathered'
<1>1. Neat'
  BY UpdateIsNeat
<1>3. CASE images' = moved /\ loadedBounds' = bounds /\ loadedTiles' = tiles /\ aligned' = together
  BY <1>1, <1>3, GatheredAfter
<1>4. CASE \E r : /\ r = TileBounds(s)
                  /\ images' = LET added == AddTiles(r.zoom, SetZoomTo(zoom, moved, r.zoom), r, Cached) IN
                               IF tiles THEN RemoveTilesOutsideOf(added, r) ELSE added
                  /\ loadedBounds' = WholeTiles(r) /\ loadedTiles' = TRUE
  <2>1. PICK r : /\ r = TileBounds(s)
                 /\ images' = LET added == AddTiles(r.zoom, SetZoomTo(zoom, moved, r.zoom), r, Cached) IN
                              IF tiles THEN RemoveTilesOutsideOf(added, r) ELSE added
                 /\ loadedBounds' = WholeTiles(r) /\ loadedTiles' = TRUE
    BY <1>4
  <2>2. PICK added : added = AddTiles(r.zoom, SetZoomTo(zoom, moved, r.zoom), r, Cached)
    OBVIOUS
  <2>3. PICK left : left = IF tiles THEN RemoveTilesOutsideOf(added, r) ELSE added
    OBVIOUS
  <2>4. images' = left
    BY <2>1, <2>2, <2>3
  <2>5. PICK b : b = WholeTiles(r)
    OBVIOUS
  <2>6. b \in PlacesOfTheMap /\ Near(b, left)
    BY <2>1, <2>2, <2>3, <2>5, LoadedIsNear
  <2>7. QED
    BY <1>1, <2>1, <2>4, <2>5, <2>6, GatheredAfter
<1>5. QED
  BY <1>3, <1>4 DEF UpdateLoadedImages

(* Bounds that are moved are bounds.                                       *)
LEMMA ShiftBoundsPlaced ==
  ASSUME loadedBounds \in PlacesOfTheMap, NEW dx \in Int, NEW dy \in Int
  PROVE  ShiftBounds(dx, dy) \in PlacesOfTheMap
<1>1. CASE loadedBounds = NoBounds
  BY <1>1 DEF ShiftBounds
<1>2. CASE loadedBounds # NoBounds
  <2>1. PICK x \in Int, y \in Int : x = loadedBounds.x + dx /\ y = loadedBounds.y + dy
    BY DEF PlacesOfTheMap
  <2>2. ShiftBounds(dx, dy) = [loadedBounds EXCEPT !.x = x, !.y = y]
    BY <1>2, <2>1 DEF ShiftBounds
  <2>3. QED
    BY <2>1, <2>2 DEF PlacesOfTheMap
<1>3. QED
  BY <1>1, <1>2

(* Bounds that go round the world lie over the same tiles.                 *)
LEMMA MetFromAfar ==
  ASSUME NEW t \in Tiles, NEW b \in PlacesOfTheMap, Meets(t, b), NEW k \in Int
  PROVE  Meets(t, [b EXCEPT !.x = @ + k * WorldSide, !.y = @ + 0])
<1>1. PICK n \in Int : MeetsAt(t, b, n)
  BY DEF Meets
<1>2. PICK W \in Nat \ {0} : W = WorldSide
  BY TileImageSetAssumption
<1>3. PICK side \in Nat \ {0} : side = TileSide(t.zoom)
  BY TileIs, SideOfZoom
<1>4. PICK x \in Nat : x = t.x
  <2>1. t.zoom \in 0..MaxTileZoom /\ t.x \in 0..(2^t.zoom - 1)
    BY TileIs
  <2>2. 2^t.zoom \in Nat
    BY <2>1, SideOfZoom
  <2>3. QED
    BY <2>1, <2>2
<1>5. PICK a \in Int, e \in Int, w \in Int : a = b.x /\ e = b.y /\ w = b.w
  BY DEF PlacesOfTheMap
<1>6. PICK q \in Int : q = n + k
  OBVIOUS
<1>7. PICK i \in Int, j \in Int, N \in Int, K \in Int : i = x * side /\ j = (x + 1) * side /\ N = n * W /\ K = k * W
  OBVIOUS
<1>8. q * W = N + K
  BY <1>6, <1>7, SumOfSides
<1>9. i + N < a + w /\ a < j + N
  BY <1>1, <1>2, <1>3, <1>4, <1>5, <1>7 DEF MeetsAt
<1>10. i + (N + K) < (a + K) + w /\ a + K < j + (N + K)
  BY <1>9
<1>11. PICK c : c = [b EXCEPT !.x = @ + k * WorldSide, !.y = @ + 0]
  OBVIOUS
<1>12. c.x = a + K /\ c.y = b.y /\ c.w = w /\ c.h = b.h
  BY <1>2, <1>5, <1>7, <1>11 DEF PlacesOfTheMap
<1>13. MeetsAt(t, c, q)
  BY <1>1, <1>2, <1>3, <1>4, <1>7, <1>8, <1>10, <1>12 DEF MeetsAt
<1>14. QED
  BY <1>11, <1>13 DEF Meets

(* A screen that the images follow.                                        *)
LEMMA FollowIsGathered ==
  ASSUME Gathered, NEW s \in Screens, Follow(s)
  PROVE  Gathered'
<1>1. PICK wrapped : wrapped = [s EXCEPT !.x = Wrap(s.x)]
  OBVIOUS
<1>2. s.x \in Int /\ Wrap(s.x) \in Int
  <2>1. s.x \in Int
    BY ScreenIs
  <2>2. Wrap(s.x) \in 0..WorldSide /\ WorldSide \in Nat
    BY <2>1, WrapIs, TileImageSetAssumption
  <2>3. QED
    BY <2>1, <2>2
<1>3. wrapped \in Screens /\ wrapped.x = Wrap(s.x)
  BY <1>1, <1>2 DEF Screens
<1>4. PICK dx : dx = wrapped.x - s.x
  OBVIOUS
<1>5. dx \in Int /\ 0 \in Int /\ \E k \in Int : dx = k * WorldSide
  <2>1. PICK k \in Int : s.x = Wrap(s.x) + k * WorldSide
    BY <1>2, WrapIs
  <2>2. PICK W \in Nat : W = WorldSide
    BY TileImageSetAssumption
  <2>3. PICK n \in Int : n = k * W
    OBVIOUS
  <2>4. dx = -n /\ -n = (-k) * W /\ -k \in Int
    BY <1>2, <1>3, <1>4, <2>1, <2>2, <2>3
  <2>5. QED
    BY <2>2, <2>3, <2>4
<1>6. PICK moved : moved = ShiftImages(dx, 0)
  OBVIOUS
<1>7. Neat /\ zoom \in 0..MaxTileZoom /\ loadedBounds \in PlacesOfTheMap
  BY DEF Gathered, Neat
<1>8. Typed(moved) /\ Clean(zoom, moved)
  BY <1>5, <1>6, <1>7, AllShifted, ShiftedIsNeat
<1>9. DOMAIN moved = DOMAIN images
  BY <1>6 DEF ShiftImages
<1>10. PICK bounds : bounds = ShiftBounds(dx, 0)
  OBVIOUS
<1>11. bounds \in PlacesOfTheMap
  BY <1>5, <1>7, <1>10, ShiftBoundsPlaced
<1>12. ASSUME aligned, HasArea(bounds), NEW t \in DOMAIN moved PROVE Meets(t, bounds)
  <2>1. /\ bounds = [loadedBounds EXCEPT !.x = @ + dx, !.y = @ + 0]
        /\ HasArea(loadedBounds)
    <3>1. bounds # NoBounds
      BY <1>12 DEF HasArea, NoBounds, Rect
    <3>2. bounds = [loadedBounds EXCEPT !.x = @ + dx, !.y = @ + 0]
      BY <1>10, <3>1 DEF ShiftBounds
    <3>3. bounds.w = loadedBounds.w /\ bounds.h = loadedBounds.h
      BY <1>7, <3>2 DEF PlacesOfTheMap
    <3>4. QED
      BY <1>12, <3>2, <3>3 DEF HasArea
  <2>2. t \in Tiles /\ Meets(t, loadedBounds)
    BY <1>7, <1>9, <1>12, <2>1 DEF Gathered, Neat, Typed, Near
  <2>3. PICK k \in Int : dx = k * WorldSide
    BY <1>5
  <2>4. QED
    BY <1>7, <2>1, <2>2, <2>3, MetFromAfar
<1>13. aligned => Near(bounds, moved)
  BY <1>12 DEF Near
<1>14. UpdateLoadedImages(wrapped, moved, bounds, loadedTiles, aligned)
  BY <1>1, <1>4, <1>6, <1>10 DEF Follow
<1>15. loadedTiles \/ DOMAIN moved = {}
  BY <1>9 DEF Gathered
<1>16. QED
  BY <1>3, <1>7, <1>8, <1>11, <1>13, <1>14, <1>15, UpdateIsGathered

(* A screen that they do not follow.                                       *)
LEMMA JumpIsGathered ==
  ASSUME Gathered, NEW s \in Screens, NEW reload \in BOOLEAN, NEW tiles,
         NEW set \in SUBSET DOMAIN images, tiles \/ set = {}, Jump(s, reload, tiles, set)
  PROVE  Gathered'
<1>1. PICK dx, dy : dx = s.x - screen.x /\ dy = Top(s) - Top(screen)
  OBVIOUS
<1>2. Neat /\ loadedBounds \in PlacesOfTheMap /\ zoom \in 0..MaxTileZoom /\ screen \in Screens
  BY DEF Gathered, Neat
<1>3. dx \in Int /\ dy \in Int
  BY <1>1, <1>2, ScreenIs
<1>4. PICK moved : moved = Restrict(ShiftImages(dx, dy), set)
  OBVIOUS
<1>5. Typed(moved) /\ Clean(zoom, moved)
  BY <1>2, <1>3, <1>4, ShiftedIsNeat
<1>6. DOMAIN moved = set
  BY <1>4 DEF Restrict
<1>7. PICK bounds : bounds = IF reload THEN NoBounds ELSE ShiftBounds(dx, dy)
  OBVIOUS
<1>8. bounds \in PlacesOfTheMap
  <2>1. NoBounds \in PlacesOfTheMap
    BY DEF NoBounds, Rect, PlacesOfTheMap
  <2>2. QED
    BY <1>2, <1>3, <1>7, <2>1, ShiftBoundsPlaced
<1>9. PICK together : together = (reload /\ aligned)
  OBVIOUS
<1>10. together => Near(bounds, moved)
  BY <1>7, <1>9 DEF Near, HasArea, NoBounds, Rect
<1>11. UpdateLoadedImages(s, moved, bounds, tiles, together)
  BY <1>1, <1>4, <1>7, <1>9 DEF Jump
<1>12. QED
  BY <1>2, <1>5, <1>6, <1>8, <1>10, <1>11, UpdateIsGathered

(* Each gesture leaves no image far away.                                  *)
LEMMA GestureIsGathered ==
  ASSUME Gathered, Gesture
  PROVE  Gathered'
<1>1. screen \in Screens /\ (loadedTiles \/ DOMAIN images = {})
  BY DEF Gathered, Neat
<1>2. /\ Factors \subseteq Int /\ Centers \subseteq [x : Int, y : Int] /\ Frames \subseteq [w : Nat, h : Nat]
  BY MapScreenAssumption
<1>3. ASSUME NEW mpp \in Factors, SetZoom(mpp) PROVE Gathered'
  <2>1. PICK s : s = SetScreen(mpp)
    OBVIOUS
  <2>2. s \in Screens
    BY <1>1, <1>2, <2>1, SetScreenIs
  <2>3. Jump(s, FALSE, loadedTiles, DOMAIN images)
    BY <1>3, <2>1 DEF SetZoom, SetScreen
  <2>4. QED
    BY <1>1, <2>2, <2>3, JumpIsGathered
<1>4. ASSUME NEW c \in Centers, SetMapCenter(c) PROVE Gathered'
  <2>1. PICK s : s = Centered(screen, c.x, c.y)
    OBVIOUS
  <2>2. s \in Screens
    BY <1>1, <1>2, <2>1, CenteredIs
  <2>3. Jump(s, TRUE, loadedTiles, DOMAIN images)
    BY <1>4, <2>1 DEF SetMapCenter
  <2>4. QED
    BY <1>1, <2>2, <2>3, JumpIsGathered
<1>5. ASSUME NEW delta \in Steps, MoveBy(delta) PROVE Gathered'
  <2>1. PICK s : s = MovedScreen(delta)
    OBVIOUS
  <2>2. s \in Screens
    BY <1>1, <2>1, MovedScreenIs
  <2>3. Follow(s)
    BY <1>5, <2>1 DEF MoveBy, MovedScreen
  <2>4. QED
    BY <2>2, <2>3, FollowIsGathered
<1>6. ASSUME NEW asked \in Factors, NEW pivot \in Pivots, ZoomByFactor(asked, pivot) PROVE Gathered'
  <2>1. PICK m : m = BoundedMpp(asked)
    OBVIOUS
  <2>2. m \in Int
    BY <1>1, <1>2, <2>1, BoundedMppIs
  <2>3. PICK s : s = ZoomedScreen(m, pivot)
    OBVIOUS
  <2>4. MinMpp < m /\ m < MaxMpp /\ Follow(s)
    BY <1>6, <2>1, <2>3 DEF ZoomByFactor, ZoomedScreen
  <2>5. s \in Screens
    BY <1>1, <2>2, <2>3, <2>4, ZoomedScreenIs
  <2>6. QED
    BY <2>4, <2>5, FollowIsGathered
<1>7. ASSUME NEW f \in Frames, SetFrame(f) PROVE Gathered'
  <2>1. PICK s : s = [screen EXCEPT !.w = f.w, !.h = f.h]
    OBVIOUS
  <2>2. s \in Screens
    BY <1>1, <1>2, <2>1 DEF Screens
  <2>3. Jump(s, TRUE, loadedTiles, DOMAIN images)
    BY <1>7, <2>1 DEF SetFrame
  <2>4. QED
    BY <1>1, <2>2, <2>3, JumpIsGathered
<1>8. ASSUME SetTileSource PROVE Gathered'
  BY <1>1, <1>8, JumpIsGathered DEF SetTileSource
<1>9. QED
  BY <1>3, <1>4, <1>5, <1>6, <1>7, <1>8 DEF Gesture

(* What is left alone, and what an answer leaves of it, is not far away.   *)
LEMMA FewerAreGathered ==
  ASSUME Gathered, Neat', DOMAIN images' \subseteq DOMAIN images, UNCHANGED <<screen, loader, aligned>>
  PROVE  Gathered'
<1>1. PICK im : images' = im
  OBVIOUS
<1>2. loadedBounds' = loadedBounds /\ loadedBounds \in PlacesOfTheMap /\ loadedTiles' = loadedTiles /\ aligned' = aligned
  BY DEF loader, Gathered
<1>3. aligned' => Near(loadedBounds, im)
  BY <1>1, <1>2 DEF Gathered, Near
<1>4. loadedTiles' \/ DOMAIN im = {}
  BY <1>1, <1>2 DEF Gathered
<1>5. QED
  BY <1>1, <1>2, <1>3, <1>4, GatheredAfter

(* An answer keeps no image it did not find.                               *)
LEMMA AnswerIsGathered ==
  ASSUME Gathered, NEW t \in DOMAIN images, ImageLoaded(t) \/ ImageNotLoaded(t)
  PROVE  Gathered'
<1>1. Neat'
  BY AnswerIsNeat DEF Gathered
<1>2. DOMAIN images' \subseteq DOMAIN images
  <2>1. CASE ImageLoaded(t)
    BY <2>1 DEF ImageLoaded, RemoveTilesWorseThan, Restrict
  <2>2. CASE ImageNotLoaded(t)
    BY <2>2 DEF ImageNotLoaded
  <2>3. QED
    BY <2>1, <2>2
<1>3. UNCHANGED <<screen, loader, aligned>>
  BY DEF ImageLoaded, ImageNotLoaded
<1>4. QED
  BY <1>1, <1>2, <1>3, FewerAreGathered

(* The end of init and the timer update the screen as it is.               *)
LEMMA UpdateInPlaceIsGathered ==
  ASSUME Gathered, UpdateLoadedImages(screen, images, loadedBounds, loadedTiles, aligned)
  PROVE  Gathered'
<1>1. Neat /\ zoom \in 0..MaxTileZoom /\ Typed(images) /\ Clean(zoom, images) /\ screen \in Screens
  BY DEF Gathered, Neat
<1>2. QED
  BY <1>1, UpdateIsGathered DEF Gathered

(* On every level, and round the world, a tile under the bounds is as near *)
(* as the property says.                                                   *)
LEMMA NearIsNotFar ==
  ASSUME NEW t \in Tiles, NEW b \in PlacesOfTheMap, Meets(t, b)
  PROVE  LET side == TileSide(t.zoom) IN
         /\ t.y * side < b.y + b.h /\ b.y < (t.y + 1) * side
         /\ \/ (t.x * side - b.x) % WorldSide < b.w
            \/ (b.x - t.x * side) % WorldSide < side
<1>1. PICK n \in Int : MeetsAt(t, b, n)
  BY DEF Meets
<1>2. PICK side \in Nat \ {0} : side = TileSide(t.zoom)
  BY TileIs, SideOfZoom
<1>3. PICK x \in Nat : x = t.x
  <2>1. t.zoom \in 0..MaxTileZoom /\ t.x \in 0..(2^t.zoom - 1)
    BY TileIs
  <2>2. 2^t.zoom \in Nat
    BY <2>1, SideOfZoom
  <2>3. QED
    BY <2>1, <2>2
<1>4. PICK i \in Int, w \in Int, a \in Int : i = x * side /\ a = b.x /\ w = b.w
  BY DEF PlacesOfTheMap
<1>5. (x + 1) * side = i + side
  BY <1>4
<1>6. i + n * WorldSide < a + w /\ a < i + side + n * WorldSide
  BY <1>1, <1>2, <1>3, <1>4, <1>5 DEF MeetsAt
<1>7. (i - a) % WorldSide < w \/ (a - i) % WorldSide < side
  BY <1>6, MetRoundTheWorld
<1>8. QED
  BY <1>1, <1>2, <1>3, <1>4, <1>7 DEF MeetsAt

(* Of all the images that addTiles: adds on every level, that are moved,   *)
(* zoomed past, answered or carried round the world, removeTilesOutsideOf: *)
(* keeps none off the loaded bounds: for every tile source and world,      *)
(* however far beyond the ends of the world the screen goes.               *)
THEOREM SpecNothingFarAway == Spec => []NothingFarAway
<1>1. Init => Gathered
  <2>1. SUFFICES ASSUME Init PROVE Gathered
    OBVIOUS
  <2>2. screen \in Screens /\ screen = FirstScreen
    BY <2>1, MapScreenAssumption DEF Init
  <2>4. zoom \in 0..MaxTileZoom
    <3>1. MaxTileZoom \in Nat /\ zoom = 0
      BY <2>1, TileImageSetAssumption DEF Init
    <3>2. QED
      BY <3>1
  <2>5. DOMAIN images = {}
    BY <2>1 DEF Init
  <2>6. Neat
    BY <2>2, <2>4, <2>5 DEF Neat, Typed, Clean
  <2>7. loadedBounds = NoBounds /\ NoBounds \in PlacesOfTheMap
    BY <2>1 DEF Init, NoBounds, Rect, PlacesOfTheMap
  <2>8. Near(loadedBounds, images)
    BY <2>7 DEF Near, HasArea, NoBounds, Rect
  <2>9. QED
    BY <2>5, <2>6, <2>7, <2>8 DEF Gathered
<1>2. Gathered /\ [Next]_vars => Gathered'
  <2>1. SUFFICES ASSUME Gathered, [Next]_vars PROVE Gathered'
    OBVIOUS
  <2>2. CASE FinishInit
    BY <2>1, <2>2, UpdateInPlaceIsGathered DEF FinishInit
  <2>3. CASE Gesture
    BY <2>1, <2>3, GestureIsGathered
  <2>4. ASSUME UNCHANGED <<screen, images, zoom, loader, aligned>> PROVE Gathered'
    <3>1. Neat'
      BY <2>1, <2>4 DEF Gathered, Neat, Typed, Clean
    <3>2. QED
      BY <2>1, <2>4, <3>1, FewerAreGathered
  <2>5. CASE Suspend
    BY <2>4, <2>5 DEF Suspend
  <2>6. CASE Resume
    BY <2>1, <2>4, <2>6, UpdateInPlaceIsGathered DEF Resume
  <2>7. CASE Answer
    BY <2>1, <2>7, AnswerIsGathered DEF Answer
  <2>8. CASE UNCHANGED vars
    BY <2>4, <2>8 DEF vars
  <2>9. QED
    BY <2>1, <2>2, <2>3, <2>5, <2>6, <2>7, <2>8 DEF Next
<1>3. Gathered => NothingFarAway
  <2>1. SUFFICES ASSUME Gathered, aligned, HasArea(loadedBounds), NEW t \in DOMAIN images
                 PROVE  LET side == TileSide(t.zoom) IN
                        /\ t.y * side < loadedBounds.y + loadedBounds.h /\ loadedBounds.y < (t.y + 1) * side
                        /\ \/ (t.x * side - loadedBounds.x) % WorldSide < loadedBounds.w
                           \/ (loadedBounds.x - t.x * side) % WorldSide < side
    BY DEF NothingFarAway
  <2>2. t \in Tiles /\ loadedBounds \in PlacesOfTheMap /\ Meets(t, loadedBounds)
    BY <2>1 DEF Gathered, Neat, Typed, Near
  <2>3. QED
    BY <2>2, NearIsNotFar
<1>4. QED
  BY <1>1, <1>2, <1>3, PTL DEF Spec
=============================================================================
