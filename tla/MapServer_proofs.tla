-------------------------- MODULE MapServer_proofs --------------------------
(***************************************************************************)
(* Proofs about the algorithms of Areas and about the tree of TileArray,   *)
(* for a world of any depth, any rectangles and any tiles, and about       *)
(* MapServer, which loads the tiles they answer, for any answers, any      *)
(* capacity of the streams and any number of simultaneous connections.     *)
(***************************************************************************)
EXTENDS MapServer, AreaQueries, TileArray, SequenceTheorems, FiniteSetTheorems, WellFoundedInduction, TLAPS

-----------------------------------------------------------------------------
(* The tiles as squares of cells.                                          *)

\* The side of a tile in cells, and its edges.
Side(t) == 2^(MaxZoom - t.zoom)
West(t) == t.x * Side(t)
East(t) == (t.x + 1) * Side(t)
South(t) == t.y * Side(t)
North(t) == (t.y + 1) * Side(t)

\* A tile is another one or lies in it.
Below(s, t) ==
  /\ t.zoom <= s.zoom
  /\ West(t) <= West(s) /\ East(s) <= East(t) /\ South(t) <= South(s) /\ North(s) <= North(t)

(* Types, and the side of tiles.                                           *)
LEMMA TileIs ==
  ASSUME NEW t \in Tiles
  PROVE  /\ MaxZoom \in Nat /\ Unit \in Nat /\ Unit > 0
         /\ t.zoom \in 0..MaxZoom /\ t.x \in 0..(2^t.zoom - 1) /\ t.y \in 0..(2^t.zoom - 1)
         /\ t = [x |-> t.x, y |-> t.y, zoom |-> t.zoom]
         /\ Side(t) \in Nat /\ Side(t) > 0 /\ Side(t) * 2^t.zoom = 2^MaxZoom
         /\ West(t) \in Int /\ East(t) = West(t) + Side(t)
         /\ South(t) \in Int /\ North(t) = South(t) + Side(t)
<1>1. MaxZoom \in Nat /\ Unit \in Nat /\ Unit > 0
  BY TileGeometryAssumption
<1>2. PICK z \in 0..MaxZoom : t \in TilesOfZoom(z)
  BY DEF Tiles
<1>3. t.zoom = z /\ t.x \in 0..(2^z - 1) /\ t.y \in 0..(2^z - 1) /\ t = [x |-> t.x, y |-> t.y, zoom |-> t.zoom]
  BY <1>2 DEF TilesOfZoom
<1>4. MaxZoom - z \in 0..MaxZoom /\ (MaxZoom - z) + z = MaxZoom
  BY <1>1
<1>5. 2^(MaxZoom - z) \in Nat /\ 2^(MaxZoom - z) > 0 /\ 2^z \in Nat
  BY <1>4, PowerAssumption
<1>6. 2^(MaxZoom - z) * 2^z = 2^MaxZoom
  BY <1>1, <1>4, PowerAssumption
<1>7. PICK side \in Nat : side = 2^(MaxZoom - z)
  BY <1>5
<1>8. Side(t) = side
  BY <1>3, <1>7 DEF Side
<1>9. t.x \in Int /\ t.y \in Int
  BY <1>3, <1>5
<1>10. \A a \in Int : a * side \in Int /\ (a + 1) * side = a * side + side
  OBVIOUS
<1>11. West(t) \in Int /\ East(t) = West(t) + Side(t) /\ South(t) \in Int /\ North(t) = South(t) + Side(t)
  BY <1>8, <1>9, <1>10 DEF West, East, South, North
<1>12. QED
  BY <1>1, <1>3, <1>5, <1>6, <1>7, <1>8, <1>11

(* A coarser tile is a whole number of times as wide as a finer one.       *)
LEMMA SidesDivide ==
  ASSUME NEW s \in Tiles, NEW t \in Tiles, t.zoom <= s.zoom
  PROVE  \E k \in Nat \ {0} : Side(t) = k * Side(s) /\ 2^s.zoom = k * 2^t.zoom
<1>1. MaxZoom \in Nat /\ s.zoom \in 0..MaxZoom /\ t.zoom \in 0..MaxZoom
  BY TileIs
<1> DEFINE d == s.zoom - t.zoom
           e == MaxZoom - s.zoom
<1>2. d \in 0..MaxZoom /\ e \in 0..MaxZoom /\ d + e = MaxZoom - t.zoom /\ d + e <= MaxZoom
      /\ d + t.zoom = s.zoom /\ d + t.zoom <= MaxZoom
  BY <1>1
<1> HIDE DEF d
<1>3. 2^(d + e) = 2^d * 2^e /\ 2^(d + t.zoom) = 2^d * 2^t.zoom /\ 2^d \in Nat \ {0}
  BY <1>1, <1>2, PowerAssumption
<1>4. Side(t) = 2^d * Side(s) /\ 2^s.zoom = 2^d * 2^t.zoom
  BY <1>2, <1>3 DEF Side
<1>5. QED
  BY <1>3, <1>4

(* A multiple within the first of two multiples and before the next ones.  *)
LEMMA MultiplesNest ==
  ASSUME NEW a \in Int, NEW b \in Int, NEW k \in Nat \ {0}, NEW w \in Nat \ {0}, NEW c \in Int,
         a * w <= c, c < (a + 1) * w, b * (k * w) <= c, c < (b + 1) * (k * w)
  PROVE  b * (k * w) <= a * w /\ (a + 1) * w <= (b + 1) * (k * w)
<1>1. PICK bk \in Int : bk = b * k
  OBVIOUS
<1>2. b * (k * w) = bk * w /\ (b + 1) * (k * w) = (bk + k) * w
  BY <1>1
<1>3. bk < a + 1
  <2>1. CASE bk >= a + 1
    <3>1. bk * w >= (a + 1) * w
      BY <2>1
    <3>2. QED
      BY <1>2, <3>1
  <2>2. QED
    BY <2>1
<1>4. a < bk + k
  <2>1. CASE a >= bk + k
    <3>1. a * w >= (bk + k) * w
      BY <2>1
    <3>2. QED
      BY <1>2, <3>1
  <2>2. QED
    BY <2>1
<1>5. bk * w <= a * w /\ (a + 1) * w <= (bk + k) * w
  BY <1>3, <1>4
<1>6. QED
  BY <1>2, <1>5

\* A cell lies in a tile.
IsIn(x, y, t) == West(t) <= x /\ x < East(t) /\ South(t) <= y /\ y < North(t)

(* Two tiles with a cell in common: the finer one lies in the other.       *)
LEMMA TilesNest ==
  ASSUME NEW s \in Tiles, NEW t \in Tiles, t.zoom <= s.zoom,
         NEW x \in Int, NEW y \in Int, IsIn(x, y, s), IsIn(x, y, t)
  PROVE  Below(s, t)
<1>1. PICK k \in Nat \ {0} : Side(t) = k * Side(s)
  BY SidesDivide
<1>2. s.x \in Int /\ s.y \in Int /\ t.x \in Int /\ t.y \in Int /\ Side(s) \in Nat \ {0}
  <2>1. MaxZoom \in Nat /\ s.zoom \in 0..MaxZoom /\ t.zoom \in 0..MaxZoom
    BY TileIs
  <2>2. 2^s.zoom \in Nat /\ 2^t.zoom \in Nat
    BY <2>1, PowerAssumption
  <2>3. QED
    BY <2>2, TileIs
<1>3. PICK w \in Nat \ {0} : w = Side(s)
  BY <1>2
<1>4. /\ s.x * w <= x /\ x < (s.x + 1) * w /\ t.x * (k * w) <= x /\ x < (t.x + 1) * (k * w)
      /\ s.y * w <= y /\ y < (s.y + 1) * w /\ t.y * (k * w) <= y /\ y < (t.y + 1) * (k * w)
  BY <1>1, <1>3 DEF IsIn, West, East, South, North
<1>5. t.x * (k * w) <= s.x * w /\ (s.x + 1) * w <= (t.x + 1) * (k * w)
  BY <1>2, <1>4, MultiplesNest
<1>6. t.y * (k * w) <= s.y * w /\ (s.y + 1) * w <= (t.y + 1) * (k * w)
  BY <1>2, <1>4, MultiplesNest
<1>7. QED
  BY <1>1, <1>3, <1>5, <1>6 DEF Below, West, East, South, North

(* Being below is an order; tiles of one zoom are equal or apart.          *)
LEMMA BelowIsOrder ==
  /\ \A t \in Tiles : Below(t, t)
  /\ \A r, s, t \in Tiles : Below(r, s) /\ Below(s, t) => Below(r, t)
  /\ \A r, s, t \in Tiles : Below(r, s) /\ Below(r, t) /\ t.zoom <= s.zoom => Below(s, t)
  /\ \A s, t \in Tiles : Below(s, t) /\ s.zoom = t.zoom => s = t
<1>1. \A t \in Tiles : Below(t, t)
  BY TileIs DEF Below
<1>2. ASSUME NEW r \in Tiles, NEW s \in Tiles, NEW t \in Tiles, Below(r, s), Below(s, t) PROVE Below(r, t)
  BY <1>2, TileIs DEF Below
<1>3. ASSUME NEW r \in Tiles, NEW s \in Tiles, NEW t \in Tiles, Below(r, s), Below(r, t), t.zoom <= s.zoom
      PROVE  Below(s, t)
  <2>1. IsIn(West(r), South(r), s) /\ IsIn(West(r), South(r), t) /\ West(r) \in Int /\ South(r) \in Int
    BY <1>3, TileIs DEF Below, IsIn
  <2>2. QED
    BY <1>3, <2>1, TilesNest
<1>4. ASSUME NEW s \in Tiles, NEW t \in Tiles, Below(s, t), s.zoom = t.zoom PROVE s = t
  <2>1. Side(s) = Side(t)
    BY <1>4 DEF Side
  <2>2. West(s) = West(t) /\ South(s) = South(t)
    <3>1. /\ West(s) \in Int /\ East(s) = West(s) + Side(t) /\ South(s) \in Int /\ North(s) = South(s) + Side(t)
          /\ West(t) \in Int /\ East(t) = West(t) + Side(t) /\ South(t) \in Int /\ North(t) = South(t) + Side(t)
          /\ Side(t) \in Nat
      BY <2>1, TileIs
    <3>2. QED
      BY <1>4, <3>1 DEF Below
  <2>3. PICK w \in Nat \ {0} : w = Side(t)
    BY TileIs
  <2>4. s.x \in Int /\ s.y \in Int /\ t.x \in Int /\ t.y \in Int
    <3>1. MaxZoom \in Nat /\ s.zoom \in 0..MaxZoom /\ t.zoom \in 0..MaxZoom
      BY TileIs
    <3>2. 2^s.zoom \in Nat /\ 2^t.zoom \in Nat
      BY <3>1, PowerAssumption
    <3>3. QED
      BY <3>2, TileIs
  <2>5. s.x * w = t.x * w /\ s.y * w = t.y * w
    BY <2>1, <2>2, <2>3 DEF West, South
  <2>6. \A a, b \in Int : a * w = b * w => a = b
    OBVIOUS
  <2>7. s.x = t.x /\ s.y = t.y
    BY <2>4, <2>5, <2>6
  <2>8. QED
    BY <1>4, <2>7, TileIs
<1>5. QED
  BY <1>1, <1>2, <1>3, <1>4

(* Every tile lies in the world, and so do its cells.                      *)
LEMMA WorldIsAll ==
  /\ World \in Tiles /\ \A t \in Tiles : Below(t, World)
  /\ West(World) = 0 /\ South(World) = 0 /\ East(World) = 2^MaxZoom /\ North(World) = 2^MaxZoom
  /\ \A t \in Tiles : t.zoom = 0 => t = World
<1>1. MaxZoom \in Nat /\ 2^0 = 1
  BY TileGeometryAssumption
<1>2. World \in TilesOfZoom(0)
  BY <1>1 DEF World, TilesOfZoom
<1>3. World \in Tiles
  BY <1>1, <1>2 DEF Tiles
<1>4. Side(World) = 2^MaxZoom /\ Side(World) \in Nat
  <2>1. MaxZoom - 0 = MaxZoom
    BY <1>1
  <2>2. Side(World) = 2^(MaxZoom - 0)
    BY DEF Side, World
  <2>3. QED
    BY <1>3, <2>1, <2>2, TileIs
<1>5. West(World) = 0 /\ South(World) = 0 /\ East(World) = 2^MaxZoom /\ North(World) = 2^MaxZoom
  BY <1>4 DEF West, East, South, North, World
<1>6. ASSUME NEW t \in Tiles PROVE Below(t, World)
  <2>1. PICK w \in Nat \ {0} : w = Side(t)
    BY TileIs
  <2>2. t.zoom \in 0..MaxZoom
    BY TileIs
  <2>3. PICK n \in Nat : n = 2^t.zoom
    BY <1>1, <2>2, PowerAssumption
  <2>4. t.x \in 0..(n - 1) /\ t.y \in 0..(n - 1) /\ w * n = 2^MaxZoom
    BY <2>1, <2>3, TileIs
  <2>5. \A a \in 0..(n - 1) : 0 <= a * w /\ (a + 1) * w <= w * n
    <3>1. TAKE a \in 0..(n - 1)
    <3>2. PICK b \in Nat : b = n - (a + 1)
      OBVIOUS
    <3>3. n = (a + 1) + b /\ b * w >= 0
      BY <3>2
    <3>4. w * n = (a + 1) * w + b * w
      BY <3>3
    <3>5. (a + 1) * w \in Int /\ b * w \in Int /\ 0 <= a * w
      OBVIOUS
    <3>6. QED
      BY <3>3, <3>4, <3>5
  <2>6. 0 <= West(t) /\ East(t) <= 2^MaxZoom /\ 0 <= South(t) /\ North(t) <= 2^MaxZoom
    BY <2>1, <2>4, <2>5 DEF West, East, South, North
  <2>7. World.zoom <= t.zoom
    BY <2>2 DEF World
  <2>8. QED
    BY <1>5, <2>6, <2>7 DEF Below
<1>7. ASSUME NEW t \in Tiles, t.zoom = 0 PROVE t = World
  BY <1>3, <1>6, <1>7, BelowIsOrder DEF World
<1>8. QED
  BY <1>3, <1>5, <1>6, <1>7

(* The tiles of zoom MaxZoom are the cells of the world.                   *)
LEMMA CellIs ==
  /\ \A c \in TilesOfZoom(MaxZoom) : /\ c \in Tiles /\ c.zoom = MaxZoom
                                     /\ Side(c) = 1 /\ West(c) = c.x /\ South(c) = c.y
  /\ \A x, y \in Int : IsIn(x, y, World) =>
       [x |-> x, y |-> y, zoom |-> MaxZoom] \in TilesOfZoom(MaxZoom)
<1>1. MaxZoom \in Nat /\ 2^0 = 1
  BY TileGeometryAssumption
<1>2. ASSUME NEW c \in TilesOfZoom(MaxZoom)
      PROVE  c \in Tiles /\ c.zoom = MaxZoom /\ Side(c) = 1 /\ West(c) = c.x /\ South(c) = c.y
  <2>1. c \in Tiles /\ c.zoom = MaxZoom
    BY <1>1 DEF Tiles, TilesOfZoom
  <2>2. MaxZoom - c.zoom = 0
    BY <1>1, <2>1
  <2>3. Side(c) = 1
    BY <1>1, <2>2 DEF Side
  <2>4. 2^c.zoom \in Nat
    BY <1>1, <2>1, PowerAssumption
  <2>5. c.x \in Int /\ c.y \in Int
    BY <2>1, <2>4, TileIs
  <2>6. QED
    BY <2>1, <2>3, <2>5 DEF West, South
<1>3. 2^MaxZoom \in Nat
  BY <1>1, PowerAssumption
<1>4. ASSUME NEW x \in Int, NEW y \in Int, IsIn(x, y, World)
      PROVE  [x |-> x, y |-> y, zoom |-> MaxZoom] \in TilesOfZoom(MaxZoom)
  <2>1. x \in 0..(2^MaxZoom - 1) /\ y \in 0..(2^MaxZoom - 1)
    BY <1>3, <1>4, WorldIsAll DEF IsIn
  <2>2. QED
    BY <2>1 DEF TilesOfZoom
<1>5. QED
  BY <1>2, <1>4

(* The quotient of a cell's column by a side says where it lies.           *)
LEMMA QuotientIs ==
  ASSUME NEW a \in Int, NEW k \in Nat \ {0}, NEW b \in Int
  PROVE  a \div k = b <=> b * k <= a /\ a < (b + 1) * k
<1>1. PICK q \in Int, m \in 0..(k - 1) : q = a \div k /\ a = k * q + m
  OBVIOUS
<1>2. ASSUME b * k <= a, a < (b + 1) * k PROVE b = q
  <2>1. ~(b < q)
    <3>1. ASSUME b < q PROVE FALSE
      <4>1. PICK d \in Nat : q = b + 1 + d
        BY <3>1
      <4>2. k * q = (b + 1) * k + d * k /\ d * k >= 0
        BY <4>1
      <4>3. (b + 1) * k \in Int /\ d * k \in Int
        OBVIOUS
      <4>4. QED
        BY <1>1, <1>2, <4>2, <4>3
    <3>2. QED
      BY <3>1
  <2>2. ~(q < b)
    <3>1. ASSUME q < b PROVE FALSE
      <4>1. PICK d \in Nat : b = q + 1 + d
        BY <3>1
      <4>2. b * k = k * q + k + d * k /\ d * k >= 0
        BY <4>1
      <4>3. k * q \in Int /\ d * k \in Int
        OBVIOUS
      <4>4. QED
        BY <1>1, <1>2, <4>2, <4>3
    <3>2. QED
      BY <3>1
  <2>3. QED
    BY <2>1, <2>2
<1>3. ASSUME b = q PROVE b * k <= a /\ a < (b + 1) * k
  <2>1. b * k = k * q /\ (b + 1) * k = k * q + k /\ k * q \in Int
    BY <1>3
  <2>2. QED
    BY <1>1, <2>1
<1>4. QED
  BY <1>1, <1>2, <1>3

(* The cells of a tile are those that lie in it.                           *)
LEMMA CellsAre ==
  ASSUME NEW t \in Tiles, NEW c \in TilesOfZoom(MaxZoom)
  PROVE  /\ c \in Cells[t] <=> IsIn(c.x, c.y, t)
         /\ c \in Cells[t] <=> Below(c, t)
         /\ c.x \in Int /\ c.y \in Int
<1>1. c \in Tiles /\ c.zoom = MaxZoom /\ Side(c) = 1 /\ West(c) = c.x /\ South(c) = c.y
  BY CellIs
<1>2. c.x \in Int /\ c.y \in Int /\ East(c) = c.x + 1 /\ North(c) = c.y + 1
  BY <1>1, TileIs
<1>3. PICK w \in Nat \ {0} : w = Side(t)
  BY TileIs
<1>4. t.x \in Int /\ t.y \in Int /\ t.zoom <= MaxZoom
  <2>1. t.zoom \in 0..MaxZoom /\ MaxZoom \in Nat
    BY TileIs
  <2>2. 2^t.zoom \in Nat
    BY <2>1, PowerAssumption
  <2>3. QED
    BY <2>1, <2>2, TileIs
<1>5. c \in Cells[t] <=> c.x \div w = t.x /\ c.y \div w = t.y
  BY <1>3 DEF Cells, Side
<1>6. /\ c.x \div w = t.x <=> t.x * w <= c.x /\ c.x < (t.x + 1) * w
      /\ c.y \div w = t.y <=> t.y * w <= c.y /\ c.y < (t.y + 1) * w
  BY <1>2, <1>4, QuotientIs
<1>7. c \in Cells[t] <=> IsIn(c.x, c.y, t)
  BY <1>3, <1>5, <1>6 DEF IsIn, West, East, South, North
<1>8. IsIn(c.x, c.y, t) <=> Below(c, t)
  <2>1. West(t) \in Int /\ East(t) \in Int /\ South(t) \in Int /\ North(t) \in Int
    BY TileIs
  <2>2. QED
    BY <1>1, <1>2, <1>4, <2>1 DEF IsIn, Below
<1>9. QED
  BY <1>2, <1>7, <1>8

(* A tile no finer lies in another one where its cells do.                 *)
LEMMA CellsBelow ==
  ASSUME NEW s \in Tiles, NEW t \in Tiles, t.zoom <= s.zoom
  PROVE  /\ Cells[s] \subseteq Cells[t] <=> Below(s, t)
         /\ Cells[s] \cap Cells[t] # {} => Below(s, t)
<1>1. \A u \in Tiles : Cells[u] \subseteq TilesOfZoom(MaxZoom)
  BY DEF Cells
<1>2. ASSUME NEW c \in Cells[s] \cap Cells[t] PROVE Below(s, t)
  <2>1. c \in TilesOfZoom(MaxZoom) /\ c \in Tiles
    BY <1>1, CellIs
  <2>2. Below(c, s) /\ Below(c, t)
    BY <2>1, CellsAre
  <2>3. QED
    BY <2>1, <2>2, BelowIsOrder
<1>3. PICK c \in TilesOfZoom(MaxZoom) : c \in Cells[s]
  <2>1. West(s) \in Int /\ South(s) \in Int /\ IsIn(West(s), South(s), s)
    BY TileIs DEF IsIn
  <2>2. IsIn(West(s), South(s), World)
    <3>1. Below(s, World) /\ s \in Tiles /\ World \in Tiles
      BY WorldIsAll
    <3>2. \A u \in Tiles : West(u) \in Int /\ East(u) \in Int /\ South(u) \in Int /\ North(u) \in Int
      BY TileIs
    <3>3. QED
      BY <2>1, <3>1, <3>2 DEF Below, IsIn
  <2> DEFINE c == [x |-> West(s), y |-> South(s), zoom |-> MaxZoom]
  <2>3. c \in TilesOfZoom(MaxZoom) /\ c.x = West(s) /\ c.y = South(s)
    BY <2>1, <2>2, CellIs
  <2>4. c \in Cells[s]
    BY <2>1, <2>3, CellsAre
  <2>5. QED
    BY <2>3, <2>4
<1>4. ASSUME Below(s, t), NEW d \in Cells[s] PROVE d \in Cells[t]
  <2>1. d \in TilesOfZoom(MaxZoom) /\ d \in Tiles
    BY <1>1, CellIs
  <2>2. Below(d, s)
    BY <2>1, CellsAre
  <2>3. Below(d, t)
    BY <1>4, <2>1, <2>2, BelowIsOrder
  <2>4. QED
    BY <2>1, <2>3, CellsAre
<1>5. QED
  BY <1>2, <1>3, <1>4

(* The quarters of a tile are tiles of the next zoom, and lie in it.       *)
LEMMA QuarterIs ==
  ASSUME NEW t \in Tiles, t.zoom < MaxZoom, NEW i \in 1..4
  PROVE  LET q == Quarter(t, i)
             h == Side(q)
         IN /\ q \in Tiles /\ q.zoom = t.zoom + 1 /\ Below(q, t)
            /\ h \in Nat /\ h > 0 /\ Side(t) = 2 * h
            /\ West(q) = West(t) + ((i - 1) % 2) * h /\ South(q) = South(t) + ((i - 1) \div 2) * h
<1> DEFINE q == Quarter(t, i)
           a == (i - 1) % 2
           b == (i - 1) \div 2
<1>1. /\ MaxZoom \in Nat /\ t.zoom \in 0..MaxZoom /\ t.x \in 0..(2^t.zoom - 1) /\ t.y \in 0..(2^t.zoom - 1)
      /\ West(t) \in Int /\ South(t) \in Int /\ East(t) = West(t) + Side(t) /\ North(t) = South(t) + Side(t)
  BY TileIs
<1>2. a \in 0..1 /\ b \in 0..1
  OBVIOUS
<1>3. q.zoom = t.zoom + 1 /\ q.x = t.x * 2 + a /\ q.y = t.y * 2 + b
      /\ q = [x |-> q.x, y |-> q.y, zoom |-> t.zoom + 1]
  BY DEF Quarter
<1> HIDE DEF q, a, b
<1>4. t.zoom + 1 \in 0..MaxZoom /\ 1 + t.zoom = t.zoom + 1 /\ 1 + t.zoom <= MaxZoom /\ 1 \in 0..MaxZoom
  BY <1>1
<1>5. 2^(t.zoom + 1) = 2 * 2^t.zoom
  BY <1>1, <1>4, PowerAssumption
<1>6. PICK n \in Nat : n = 2^t.zoom
  BY <1>1, PowerAssumption
<1>7. t.x \in Int /\ t.y \in Int /\ q.x \in 0..(2 * n - 1) /\ q.y \in 0..(2 * n - 1)
  BY <1>1, <1>2, <1>3, <1>6
<1>8. q \in TilesOfZoom(t.zoom + 1)
  <2>1. q.x \in 0..(2^(t.zoom + 1) - 1) /\ q.y \in 0..(2^(t.zoom + 1) - 1)
    BY <1>5, <1>6, <1>7
  <2>2. QED
    BY <1>3, <2>1 DEF TilesOfZoom
<1>9. q \in Tiles
  BY <1>4, <1>8 DEF Tiles
<1>10. PICK h \in Nat \ {0} : h = Side(q)
  BY <1>9, TileIs
<1>11. Side(t) = 2 * h
  <2>1. /\ MaxZoom - q.zoom \in 0..MaxZoom /\ 1 + (MaxZoom - q.zoom) = MaxZoom - t.zoom
        /\ 1 + (MaxZoom - q.zoom) <= MaxZoom
    BY <1>1, <1>3, <1>4
  <2>2. 2^(1 + (MaxZoom - q.zoom)) = 2^1 * 2^(MaxZoom - q.zoom)
    BY <1>4, <2>1, PowerAssumption
  <2>3. QED
    BY <1>10, <2>1, <2>2, PowerAssumption DEF Side
<1>12. West(q) = West(t) + a * h /\ South(q) = South(t) + b * h
  <2>1. West(q) = (t.x * 2 + a) * h /\ South(q) = (t.y * 2 + b) * h
    BY <1>3, <1>10 DEF West, South
  <2>2. West(t) = t.x * (2 * h) /\ South(t) = t.y * (2 * h)
    BY <1>11 DEF West, South
  <2>3. /\ (t.x * 2 + a) * h = t.x * (2 * h) + a * h
        /\ (t.y * 2 + b) * h = t.y * (2 * h) + b * h
    BY <1>2, <1>7
  <2>4. QED
    BY <2>1, <2>2, <2>3
<1>13. Below(q, t)
  <2>1. West(q) \in Int /\ East(q) = West(q) + h /\ South(q) \in Int /\ North(q) = South(q) + h
    BY <1>9, <1>10, TileIs
  <2>2. (a = 0 \/ a = 1) /\ (b = 0 \/ b = 1)
    BY <1>2
  <2>3. (a * h = 0 \/ a * h = h) /\ (b * h = 0 \/ b * h = h)
    BY <2>2
  <2>4. QED
    BY <1>1, <1>3, <1>11, <1>12, <2>1, <2>3 DEF Below
<1>14. QED
  BY <1>3, <1>9, <1>10, <1>11, <1>12, <1>13 DEF q, a, b

(* What lies in a tile and is finer lies in exactly one of its quarters.   *)
LEMMA QuartersPart ==
  ASSUME NEW t \in Tiles, t.zoom < MaxZoom, NEW s \in Tiles, Below(s, t), t.zoom < s.zoom
  PROVE  \E i \in 1..4 : Below(s, Quarter(t, i))
<1> DEFINE x == West(s)
           y == South(s)
<1>1. x \in Int /\ y \in Int /\ IsIn(x, y, s) /\ IsIn(x, y, t)
  BY TileIs DEF Below, IsIn
<1>2. PICK h \in Nat \ {0} : h = Side(Quarter(t, 1))
  BY QuarterIs
<1>3. \A i \in 1..4 : Side(Quarter(t, i)) = h
  <2>1. TAKE i \in 1..4
  <2>2. Quarter(t, i).zoom = Quarter(t, 1).zoom
    BY DEF Quarter
  <2>3. QED
    BY <1>2, <2>2 DEF Side
<1>4. Side(t) = 2 * h
  BY <1>2, QuarterIs
<1>5. West(t) \in Int /\ South(t) \in Int /\ East(t) = West(t) + 2 * h /\ North(t) = South(t) + 2 * h
  BY <1>4, TileIs
<1>6. PICK a \in 0..1 : West(t) + a * h <= x /\ x < West(t) + a * h + h
  <2>1. CASE x < West(t) + h
    <3>1. West(t) + 0 * h <= x /\ x < West(t) + 0 * h + h
      BY <1>1, <1>5, <2>1 DEF IsIn
    <3>2. QED
      BY <3>1
  <2>2. CASE ~(x < West(t) + h)
    <3>1. West(t) + 1 * h <= x /\ x < West(t) + 1 * h + h
      BY <1>1, <1>5, <2>2 DEF IsIn
    <3>2. QED
      BY <3>1
  <2>3. QED
    BY <2>1, <2>2
<1>7. PICK b \in 0..1 : South(t) + b * h <= y /\ y < South(t) + b * h + h
  <2>1. CASE y < South(t) + h
    <3>1. South(t) + 0 * h <= y /\ y < South(t) + 0 * h + h
      BY <1>1, <1>5, <2>1 DEF IsIn
    <3>2. QED
      BY <3>1
  <2>2. CASE ~(y < South(t) + h)
    <3>1. South(t) + 1 * h <= y /\ y < South(t) + 1 * h + h
      BY <1>1, <1>5, <2>2 DEF IsIn
    <3>2. QED
      BY <3>1
  <2>3. QED
    BY <2>1, <2>2
<1>8. PICK i \in 1..4 : (i - 1) % 2 = a /\ (i - 1) \div 2 = b
  <2>1. 1 + a + 2 * b \in 1..4 /\ ((1 + a + 2 * b) - 1) % 2 = a /\ ((1 + a + 2 * b) - 1) \div 2 = b
    <3>1. (a = 0 \/ a = 1) /\ (b = 0 \/ b = 1)
      BY <1>6, <1>7
    <3>2. QED
      BY <3>1
  <2>2. QED
    BY <2>1
<1> DEFINE q == Quarter(t, i)
<1>9. q \in Tiles /\ q.zoom = t.zoom + 1 /\ West(q) = West(t) + a * h /\ South(q) = South(t) + b * h /\ Side(q) = h
  BY <1>3, <1>8, QuarterIs
<1>10. East(q) = West(q) + h /\ North(q) = South(q) + h /\ q.zoom <= s.zoom
  <2>1. t.zoom \in Int /\ s.zoom \in Int
    BY TileIs
  <2>2. QED
    BY <1>9, <2>1, TileIs
<1> HIDE DEF q
<1>11. IsIn(x, y, q)
  BY <1>6, <1>7, <1>9, <1>10 DEF IsIn
<1>12. Below(s, q)
  BY <1>1, <1>9, <1>10, <1>11, TilesNest
<1>13. QED
  BY <1>12 DEF q

(* ... and in no other.                                                    *)
LEMMA QuartersApart ==
  ASSUME NEW t \in Tiles, t.zoom < MaxZoom, NEW s \in Tiles, NEW i \in 1..4, NEW j \in 1..4,
         Below(s, Quarter(t, i)), Below(s, Quarter(t, j))
  PROVE  i = j
<1>1. /\ Quarter(t, i) \in Tiles /\ Quarter(t, i).zoom = t.zoom + 1
      /\ Quarter(t, j) \in Tiles /\ Quarter(t, j).zoom = t.zoom + 1 /\ t.zoom \in Int
  BY QuarterIs, TileIs
<1>2. Quarter(t, i) = Quarter(t, j)
  BY <1>1, BelowIsOrder
<1>3. t.x * 2 + ((i - 1) % 2) = t.x * 2 + ((j - 1) % 2) /\ t.y * 2 + ((i - 1) \div 2) = t.y * 2 + ((j - 1) \div 2)
  BY <1>2 DEF Quarter
<1>4. t.x \in Int /\ t.y \in Int
  <2>1. MaxZoom \in Nat /\ t.zoom \in 0..MaxZoom
    BY TileIs
  <2>2. 2^t.zoom \in Nat
    BY <2>1, PowerAssumption
  <2>3. QED
    BY <2>2, TileIs
<1>5. (i - 1) % 2 = (j - 1) % 2 /\ (i - 1) \div 2 = (j - 1) \div 2
  <2>1. (i - 1) % 2 \in Int /\ (j - 1) % 2 \in Int /\ (i - 1) \div 2 \in Int /\ (j - 1) \div 2 \in Int
    OBVIOUS
  <2>2. QED
    BY <1>3, <1>4, <2>1
<1>6. QED
  BY <1>5

-----------------------------------------------------------------------------
(* The rectangles of tiles.                                                *)

Meets(r, t) == IntersectsRect(r, RectFromTile(t))

(* The rectangle of a tile, in coordinates.                                *)
LEMMA RectIs ==
  ASSUME NEW t \in Tiles
  PROVE  /\ RectFromTile(t) \in Rectangles
         /\ RectFromTile(t).x = Unit * West(t) /\ RectFromTile(t).x + RectFromTile(t).w = Unit * East(t)
         /\ RectFromTile(t).y = Unit * South(t) /\ RectFromTile(t).y + RectFromTile(t).h = Unit * North(t)
<1>1. PICK w \in Nat \ {0}, u \in Nat \ {0} : w = Side(t) /\ u = Unit
  BY TileIs
<1>2. t.x \in Int /\ t.y \in Int
  <2>1. MaxZoom \in Nat /\ t.zoom \in 0..MaxZoom
    BY TileIs
  <2>2. 2^t.zoom \in Nat
    BY <2>1, PowerAssumption
  <2>3. QED
    BY <2>2, TileIs
<1>3. RectFromTile(t) = [x |-> t.x * (u * w), y |-> t.y * (u * w), w |-> u * w, h |-> u * w]
  BY <1>1 DEF RectFromTile, Side
<1>4. \A a \in Int : a * (u * w) = u * (a * w) /\ a * (u * w) + u * w = u * ((a + 1) * w) /\ a * (u * w) \in Int
  OBVIOUS
<1>5. u * w \in Nat
  OBVIOUS
<1> DEFINE a == RectFromTile(t)
<1>6. a.x = u * (t.x * w) /\ a.y = u * (t.y * w) /\ a.x \in Int /\ a.y \in Int /\ a.w = u * w /\ a.h = u * w
  BY <1>2, <1>3, <1>4
<1>7. a.x + a.w = u * ((t.x + 1) * w) /\ a.y + a.h = u * ((t.y + 1) * w)
  BY <1>2, <1>3, <1>4
<1>8. a \in Rectangles
  BY <1>3, <1>5, <1>6 DEF Rectangles
<1> HIDE DEF a
<1>9. West(t) = t.x * w /\ East(t) = (t.x + 1) * w /\ South(t) = t.y * w /\ North(t) = (t.y + 1) * w
  BY <1>1 DEF West, East, South, North
<1>10. QED
  BY <1>1, <1>6, <1>7, <1>8, <1>9 DEF a

(* The edges of a rectangle.                                               *)
LEMMA EdgesAre ==
  ASSUME NEW r \in Rectangles
  PROVE  /\ r.x \in Int /\ r.y \in Int /\ r.w \in Nat /\ r.h \in Nat
         /\ MinLongitude(r) = r.x /\ MaxLongitude(r) = r.x + r.w
         /\ MinLatitude(r) = r.y /\ MaxLatitude(r) = r.y + r.h
  BY DEF Rectangles, MinLongitude, MaxLongitude, MinLatitude, MaxLatitude

(* What meets a tile meets those it lies in; one that is not split has no  *)
(* tile in it that is.                                                     *)
LEMMA MeetsAndSplitsUpwards ==
  ASSUME NEW r \in Rectangles, NEW o \in Nat, NEW s \in Tiles, NEW t \in Tiles, Below(s, t)
  PROVE  /\ Meets(r, s) => Meets(r, t)
         /\ Split(r, o, RectFromTile(s)) => Split(r, o, RectFromTile(t))
<1> DEFINE a == RectFromTile(s)
           b == RectFromTile(t)
<1>1. PICK u \in Nat \ {0} : u = Unit
  BY TileIs
<1>2. /\ a \in Rectangles /\ a.x = u * West(s) /\ a.x + a.w = u * East(s)
      /\ a.y = u * South(s) /\ a.y + a.h = u * North(s)
      /\ b \in Rectangles /\ b.x = u * West(t) /\ b.x + b.w = u * East(t)
      /\ b.y = u * South(t) /\ b.y + b.h = u * North(t)
  BY <1>1, RectIs
<1> HIDE DEF a, b
<1>3. \A t2 \in Tiles : West(t2) \in Int /\ East(t2) \in Int /\ South(t2) \in Int /\ North(t2) \in Int
  BY TileIs
<1>4. \A m, n \in Int : m <= n => u * m <= u * n
  OBVIOUS
<1>5. b.x <= a.x /\ a.x + a.w <= b.x + b.w /\ b.y <= a.y /\ a.y + a.h <= b.y + b.h
  BY <1>2, <1>3, <1>4 DEF Below
<1>6. IntersectsRect(r, a) => IntersectsRect(r, b)
  BY <1>2, <1>5, EdgesAre DEF IntersectsRect
<1>7. Split(r, o, a) => Split(r, o, b)
  BY <1>2, <1>5, EdgesAre DEF Split
<1>8. QED
  BY <1>6, <1>7 DEF a, b, Meets

(* A tile of zoom MaxZoom that meets a rectangle is not split.             *)
LEMMA CellsAreNotSplit ==
  ASSUME NEW r \in Rectangles, NEW o \in Nat, o >= Unit, NEW t \in Tiles, Meets(r, t),
         Split(r, o, RectFromTile(t))
  PROVE  t.zoom < MaxZoom
<1>1. SUFFICES ASSUME t.zoom >= MaxZoom PROVE FALSE
  BY TileIs
<1>2. MaxZoom - t.zoom = 0 /\ 2^0 = 1
  BY <1>1, TileIs
<1>3. Side(t) = 1
  BY <1>2 DEF Side
<1> DEFINE a == RectFromTile(t)
<1>4. PICK u \in Nat \ {0} : u = Unit
  BY TileIs
<1>5. a \in Rectangles /\ a.w = u /\ a.h = u
  BY <1>3, <1>4, RectIs DEF RectFromTile, Side
<1> HIDE DEF a
<1>6. ~Split(r, o, a)
  BY <1>4, <1>5, EdgesAre DEF Meets, IntersectsRect, Split, a
<1>7. QED
  BY <1>6 DEF a

-----------------------------------------------------------------------------
(* The recursion of NSArrayOfTilesFromCoordinateRectWithinTile.            *)

\* The answer for a tile, from the answers for its quarters.
AnswerFrom(g, r, o, t) ==
  IF ~IntersectsRect(r, RectFromTile(t)) THEN <<>>
  ELSE IF Split(r, o, RectFromTile(t))
       THEN g[Quarter(t, 1)] \o g[Quarter(t, 2)] \o g[Quarter(t, 3)] \o g[Quarter(t, 4)]
       ELSE <<t>>

\* g answers for the n + 1 finest zooms.
AnswersTo(g, r, o, n) == \A t \in Tiles : t.zoom >= MaxZoom - n => g[t] = AnswerFrom(g, r, o, t)

(* Answers for some zooms give those for one zoom less.                    *)
LEMMA AnswersGoOn ==
  ASSUME NEW r \in Rectangles, NEW o \in Nat, o >= Unit, NEW n \in Nat, n < MaxZoom,
         NEW g, AnswersTo(g, r, o, n)
  PROVE  \E f : AnswersTo(f, r, o, n + 1)
<1> DEFINE f == [t \in Tiles |-> AnswerFrom(g, r, o, t)]
<1>1. MaxZoom \in Nat /\ \A t \in Tiles : t.zoom \in 0..MaxZoom
  BY TileGeometryAssumption, TileIs
<1>2. ASSUME NEW t \in Tiles, t.zoom >= MaxZoom - n PROVE f[t] = g[t]
  BY <1>2 DEF AnswersTo
<1> HIDE DEF f
<1>3. ASSUME NEW t \in Tiles, t.zoom >= MaxZoom - (n + 1) PROVE AnswerFrom(g, r, o, t) = AnswerFrom(f, r, o, t)
  <2>1. CASE Meets(r, t) /\ Split(r, o, RectFromTile(t))
    <3>1. t.zoom < MaxZoom
      BY <2>1, CellsAreNotSplit
    <3>2. \A i \in 1..4 : Quarter(t, i) \in Tiles /\ Quarter(t, i).zoom = t.zoom + 1
      BY <3>1, QuarterIs
    <3>3. \A i \in 1..4 : f[Quarter(t, i)] = g[Quarter(t, i)]
      BY <1>1, <1>2, <1>3, <3>2
    <3>4. QED
      BY <3>3 DEF AnswerFrom
  <2>2. CASE ~(Meets(r, t) /\ Split(r, o, RectFromTile(t)))
    BY <2>2 DEF AnswerFrom, Meets
  <2>3. QED
    BY <2>1, <2>2
<1>4. \A t \in Tiles : t.zoom >= MaxZoom - (n + 1) => f[t] = AnswerFrom(f, r, o, t)
  BY <1>3 DEF f
<1>5. QED
  BY <1>4 DEF AnswersTo

(* So there are answers for all tiles, and the answer for the world is     *)
(* one of them.                                                            *)
LEMMA AnswersExist ==
  ASSUME NEW r \in Rectangles, NEW o \in Nat, o >= Unit
  PROVE  \E f : /\ \A t \in Tiles : f[t] = AnswerFrom(f, r, o, t)
                /\ TilesFromRect(r, o) = f[World]
<1>1. MaxZoom \in Nat /\ \A t \in Tiles : t.zoom \in 0..MaxZoom
  BY TileGeometryAssumption, TileIs
<1> DEFINE N == {n \in Nat : n <= MaxZoom /\ ~ \E g : AnswersTo(g, r, o, n)}
<1>2. N = {}
  <2>1. SUFFICES ASSUME N # {} PROVE FALSE
    OBVIOUS
  <2>2. N \subseteq Nat
    OBVIOUS
  <2>3. PICK n \in N : \A m \in N : ~(<<m, n>> \in OpToRel(<, Nat))
    BY <2>1, <2>2, WFMin, NatLessThanWellFounded
  <2>4. n \in Nat /\ n <= MaxZoom /\ ~ \E g : AnswersTo(g, r, o, n)
    BY <2>3
  <2>5. CASE n = 0
    <3> DEFINE g == [t \in Tiles |-> AnswerFrom(<<>>, r, o, t)]
    <3>1. ASSUME NEW t \in Tiles, t.zoom >= MaxZoom - n PROVE g[t] = AnswerFrom(g, r, o, t)
      <4>1. ~(t.zoom < MaxZoom)
        BY <1>1, <2>5, <3>1
      <4>2. ~(Meets(r, t) /\ Split(r, o, RectFromTile(t)))
        BY <4>1, CellsAreNotSplit
      <4>3. g[t] = AnswerFrom(<<>>, r, o, t)
        OBVIOUS
      <4> HIDE DEF g
      <4>4. QED
        BY <4>2, <4>3 DEF AnswerFrom, Meets
    <3>2. AnswersTo(g, r, o, n)
      BY <3>1 DEF AnswersTo
    <3>3. QED
      BY <2>4, <3>2
  <2>6. CASE n # 0
    <3>1. n - 1 \in Nat /\ n - 1 < MaxZoom /\ (n - 1) + 1 = n /\ n - 1 < n
      BY <1>1, <2>4, <2>6
    <3>2. n - 1 \notin N
      BY <2>3, <2>4, <3>1 DEF OpToRel
    <3>3. PICK g : AnswersTo(g, r, o, n - 1)
      BY <1>1, <3>1, <3>2
    <3>4. \E f : AnswersTo(f, r, o, (n - 1) + 1)
      BY <3>1, <3>3, AnswersGoOn
    <3>5. QED
      BY <2>4, <3>1, <3>4
  <2>7. QED
    BY <2>5, <2>6
<1>3. PICK g : AnswersTo(g, r, o, MaxZoom)
  BY <1>1, <1>2
<1> DEFINE f == [t \in Tiles |-> g[t]]
<1>4. \A t \in Tiles : g[t] = AnswerFrom(g, r, o, t)
  BY <1>1, <1>3 DEF AnswersTo
<1>5. ASSUME NEW t \in Tiles PROVE AnswerFrom(f, r, o, t) = AnswerFrom(g, r, o, t)
  <2>1. CASE Meets(r, t) /\ Split(r, o, RectFromTile(t))
    <3>1. t.zoom < MaxZoom
      BY <2>1, CellsAreNotSplit
    <3>2. \A i \in 1..4 : f[Quarter(t, i)] = g[Quarter(t, i)]
      BY <3>1, QuarterIs
    <3> HIDE DEF f
    <3>3. QED
      BY <3>2 DEF AnswerFrom
  <2>2. CASE ~(Meets(r, t) /\ Split(r, o, RectFromTile(t)))
    BY <2>2 DEF AnswerFrom, Meets
  <2>3. QED
    BY <2>1, <2>2
<1>6. f = [t \in Tiles |-> AnswerFrom(f, r, o, t)]
  BY <1>4, <1>5
<1> HIDE DEF f
<1> DEFINE within == CHOOSE h : h = [t \in Tiles |-> AnswerFrom(h, r, o, t)]
<1>7. within = [t \in Tiles |-> AnswerFrom(within, r, o, t)]
  BY <1>6
<1>8. TilesFromRect(r, o) = within[World]
  BY DEF TilesFromRect, AnswerFrom
<1> HIDE DEF within
<1>9. \A t \in Tiles : within[t] = AnswerFrom(within, r, o, t)
  BY <1>7
<1>10. QED
  BY <1>8, <1>9

-----------------------------------------------------------------------------
(* What the answer for a tile is.                                          *)

(* Sequences that have nothing in common, one after the other.             *)
LEMMA ConcatOfApart ==
  ASSUME NEW S, NEW p \in Seq(S), NEW q \in Seq(S), IsInjective(p), IsInjective(q),
         ToSet(p) \cap ToSet(q) = {}
  PROVE  p \o q \in Seq(S) /\ IsInjective(p \o q) /\ ToSet(p \o q) = ToSet(p) \cup ToSet(q)
<1>1. /\ Len(p) \in Nat /\ Len(q) \in Nat /\ DOMAIN p = 1..Len(p) /\ DOMAIN q = 1..Len(q)
      /\ p \o q \in Seq(S) /\ DOMAIN (p \o q) = 1..(Len(p) + Len(q))
      /\ \A i \in 1..(Len(p) + Len(q)) : (p \o q)[i] = IF i <= Len(p) THEN p[i] ELSE q[i - Len(p)]
  BY LenProperties, ConcatProperties
<1> DEFINE c == p \o q
<1> HIDE DEF c
<1>2. \A i \in 1..(Len(p) + Len(q)) :
         \/ i \in DOMAIN p /\ c[i] = p[i]
         \/ i > Len(p) /\ i - Len(p) \in DOMAIN q /\ c[i] = q[i - Len(p)]
  BY <1>1 DEF c
<1>3. \A i \in DOMAIN p : i \in DOMAIN c /\ c[i] = p[i]
  BY <1>1 DEF c
<1>4. \A i \in DOMAIN q : i + Len(p) \in DOMAIN c /\ c[i + Len(p)] = q[i]
  <2>1. TAKE i \in DOMAIN q
  <2>2. i + Len(p) \in 1..(Len(p) + Len(q)) /\ ~(i + Len(p) <= Len(p)) /\ (i + Len(p)) - Len(p) = i
    BY <1>1
  <2>3. QED
    BY <1>1, <2>2 DEF c
<1>5. ToSet(c) = ToSet(p) \cup ToSet(q)
  <2>1. ASSUME NEW x \in ToSet(c) PROVE x \in ToSet(p) \cup ToSet(q)
    BY <1>1, <1>2, <2>1 DEF ToSet, c
  <2>2. ASSUME NEW x \in ToSet(p) PROVE x \in ToSet(c)
    BY <1>3, <2>2 DEF ToSet
  <2>3. ASSUME NEW x \in ToSet(q) PROVE x \in ToSet(c)
    BY <1>4, <2>3 DEF ToSet
  <2>4. QED
    BY <2>1, <2>2, <2>3
<1>6. IsInjective(c)
  <2>1. ASSUME NEW i \in DOMAIN c, NEW j \in DOMAIN c, c[i] = c[j] PROVE i = j
    <3>1. i \in 1..(Len(p) + Len(q)) /\ j \in 1..(Len(p) + Len(q))
      BY <1>1 DEF c
    <3>2. CASE i \in DOMAIN p /\ c[i] = p[i]
      <4>1. c[j] \notin ToSet(q)
        BY <2>1, <3>2 DEF ToSet
      <4>2. j \in DOMAIN p /\ c[j] = p[j]
        BY <1>2, <3>1, <4>1 DEF ToSet
      <4>3. QED
        BY <2>1, <3>2, <4>2 DEF IsInjective
    <3>3. CASE i > Len(p) /\ i - Len(p) \in DOMAIN q /\ c[i] = q[i - Len(p)]
      <4>1. c[j] \notin ToSet(p)
        BY <2>1, <3>3 DEF ToSet
      <4>2. j > Len(p) /\ j - Len(p) \in DOMAIN q /\ c[j] = q[j - Len(p)]
        BY <1>2, <3>1, <4>1 DEF ToSet
      <4>3. i - Len(p) = j - Len(p)
        BY <2>1, <3>3, <4>2 DEF IsInjective
      <4>4. QED
        BY <1>1, <3>1, <4>3
    <3>4. QED
      BY <1>2, <3>1, <3>2, <3>3
  <2>2. QED
    BY <2>1 DEF IsInjective
<1>7. QED
  BY <1>1, <1>5, <1>6 DEF c

\* The largest tiles in t that meet the rectangle and are not split.
Largest(r, o, t) ==
  {s \in Tiles : /\ Below(s, t) /\ Meets(r, s) /\ ~Split(r, o, RectFromTile(s))
                 /\ \A a \in Tiles : Below(a, t) /\ Below(s, a) /\ a.zoom < s.zoom
                      => Split(r, o, RectFromTile(a))}

\* Those, each once; they cover the cells of t that meet the rectangle.
IsAnswer(p, r, o, t) ==
  /\ p \in Seq(Tiles) /\ IsInjective(p) /\ ToSet(p) = Largest(r, o, t)
  /\ \A c \in TilesOfZoom(MaxZoom) : Below(c, t) /\ Meets(r, c) => \E s \in ToSet(p) : Below(c, s)

(* A tile that does not meet the rectangle.                                *)
LEMMA AnswerOfNone ==
  ASSUME NEW r \in Rectangles, NEW o \in Nat, NEW t \in Tiles, ~Meets(r, t)
  PROVE  IsAnswer(<<>>, r, o, t)
<1>1. <<>> \in Seq(Tiles) /\ IsInjective(<<>>) /\ ToSet(<<>>) = {}
  BY DEF IsInjective, ToSet
<1>2. \A s \in Tiles : Below(s, t) => ~Meets(r, s)
  BY MeetsAndSplitsUpwards
<1>3. Largest(r, o, t) = {}
  BY <1>2 DEF Largest
<1>4. \A c \in TilesOfZoom(MaxZoom) : c \in Tiles
  BY CellIs
<1>5. QED
  BY <1>1, <1>2, <1>3, <1>4 DEF IsAnswer

(* A tile that meets it and is not split.                                  *)
LEMMA AnswerOfOne ==
  ASSUME NEW r \in Rectangles, NEW o \in Nat, NEW t \in Tiles, Meets(r, t), ~Split(r, o, RectFromTile(t))
  PROVE  IsAnswer(<<t>>, r, o, t)
<1>1. <<t>> \in Seq(Tiles) /\ IsInjective(<<t>>) /\ ToSet(<<t>>) = {t}
  BY DEF IsInjective, ToSet
<1>2. Below(t, t)
  BY BelowIsOrder
<1>3. \A s \in Tiles : s.zoom \in Int
  BY TileIs
<1>4. t \in Largest(r, o, t)
  <2>1. ASSUME NEW a \in Tiles, Below(a, t), a.zoom < t.zoom PROVE FALSE
    BY <1>3, <2>1 DEF Below
  <2>2. QED
    BY <1>2, <2>1 DEF Largest
<1>5. ASSUME NEW s \in Largest(r, o, t) PROVE s = t
  <2>1. s \in Tiles /\ Below(s, t) /\ ~(t.zoom < s.zoom)
    BY <1>2 DEF Largest
  <2>2. s.zoom = t.zoom
    BY <1>3, <2>1 DEF Below
  <2>3. QED
    BY <2>1, <2>2, BelowIsOrder
<1>6. Largest(r, o, t) = {t}
  BY <1>4, <1>5
<1>7. QED
  BY <1>1, <1>6 DEF IsAnswer

(* The answers for the quarters make up that for a tile that is split.     *)
LEMMA LargestInQuarters ==
  ASSUME NEW r \in Rectangles, NEW o \in Nat, NEW t \in Tiles, t.zoom < MaxZoom,
         Split(r, o, RectFromTile(t))
  PROVE  /\ Largest(r, o, t) = UNION {Largest(r, o, Quarter(t, i)) : i \in 1..4}
         /\ \A i, j \in 1..4 : i # j => Largest(r, o, Quarter(t, i)) \cap Largest(r, o, Quarter(t, j)) = {}
<1>1. \A i \in 1..4 : Quarter(t, i) \in Tiles /\ Quarter(t, i).zoom = t.zoom + 1 /\ Below(Quarter(t, i), t)
  BY QuarterIs
<1>2. \A s \in Tiles : s.zoom \in Int
  BY TileIs
<1>3. ASSUME NEW s \in Tiles, Below(s, t), s # t PROVE t.zoom < s.zoom /\ \E i \in 1..4 : Below(s, Quarter(t, i))
  <2>1. t.zoom < s.zoom
    <3>1. s.zoom # t.zoom
      BY <1>3, BelowIsOrder
    <3>2. QED
      BY <1>2, <1>3, <3>1 DEF Below
  <2>2. QED
    BY <1>3, <2>1, QuartersPart
<1>4. ASSUME NEW s \in Largest(r, o, t) PROVE \E i \in 1..4 : s \in Largest(r, o, Quarter(t, i))
  <2>1. s \in Tiles /\ Below(s, t) /\ s # t
    BY DEF Largest
  <2>2. PICK i \in 1..4 : Below(s, Quarter(t, i))
    BY <1>3, <2>1
  <2>3. ASSUME NEW a \in Tiles, Below(a, Quarter(t, i)) PROVE Below(a, t)
    BY <1>1, <2>3, BelowIsOrder
  <2>4. s \in Largest(r, o, Quarter(t, i))
    BY <2>2, <2>3 DEF Largest
  <2>5. QED
    BY <2>4
<1>5. ASSUME NEW i \in 1..4, NEW s \in Largest(r, o, Quarter(t, i)) PROVE s \in Largest(r, o, t)
  <2>1. s \in Tiles /\ Below(s, Quarter(t, i)) /\ Below(s, t)
    BY <1>1, BelowIsOrder DEF Largest
  <2>2. ASSUME NEW a \in Tiles, Below(a, t), Below(s, a), a.zoom < s.zoom PROVE Split(r, o, RectFromTile(a))
    <3>1. CASE a = t
      BY <3>1
    <3>2. CASE a # t
      <4>1. PICK j \in 1..4 : Below(a, Quarter(t, j))
        BY <1>3, <2>2, <3>2
      <4>2. Below(s, Quarter(t, j))
        BY <1>1, <2>1, <2>2, <4>1, BelowIsOrder
      <4>3. i = j
        BY <2>1, <4>2, QuartersApart
      <4>4. QED
        BY <2>2, <4>1, <4>3 DEF Largest
    <3>3. QED
      BY <3>1, <3>2
  <2>3. QED
    BY <2>1, <2>2 DEF Largest
<1>6. ASSUME NEW i \in 1..4, NEW j \in 1..4, i # j, NEW s \in Largest(r, o, Quarter(t, i)),
             s \in Largest(r, o, Quarter(t, j))
      PROVE  FALSE
  <2>1. s \in Tiles /\ Below(s, Quarter(t, i)) /\ Below(s, Quarter(t, j))
    BY <1>6 DEF Largest
  <2>2. QED
    BY <1>6, <2>1, QuartersApart
<1>7. \A i, j \in 1..4 : i # j => Largest(r, o, Quarter(t, i)) \cap Largest(r, o, Quarter(t, j)) = {}
  BY <1>6
<1>8. Largest(r, o, t) = UNION {Largest(r, o, Quarter(t, i)) : i \in 1..4}
  BY <1>4, <1>5
<1>9. QED
  BY <1>7, <1>8

(* ... one after the other.                                                *)
LEMMA AnswerOfQuarters ==
  ASSUME NEW r \in Rectangles, NEW o \in Nat, NEW t \in Tiles, t.zoom < MaxZoom,
         Split(r, o, RectFromTile(t)), NEW g,
         \A i \in 1..4 : IsAnswer(g[Quarter(t, i)], r, o, Quarter(t, i))
  PROVE  IsAnswer(g[Quarter(t, 1)] \o g[Quarter(t, 2)] \o g[Quarter(t, 3)] \o g[Quarter(t, 4)], r, o, t)
<1> DEFINE L(i) == Largest(r, o, Quarter(t, i))
           p(i) == g[Quarter(t, i)]
<1>1. \A i \in 1..4 : p(i) \in Seq(Tiles) /\ IsInjective(p(i)) /\ ToSet(p(i)) = L(i)
  BY DEF IsAnswer
<1>2. \A i, j \in 1..4 : i # j => L(i) \cap L(j) = {}
  BY LargestInQuarters
<1>3. Largest(r, o, t) = L(1) \cup L(2) \cup L(3) \cup L(4)
  <2>1. Largest(r, o, t) = UNION {L(i) : i \in 1..4}
    BY LargestInQuarters
  <2>2. \A i : i \in 1..4 <=> i = 1 \/ i = 2 \/ i = 3 \/ i = 4
    OBVIOUS
  <2> HIDE DEF L
  <2>3. QED
    BY <2>1, <2>2
<1> HIDE DEF L, p
<1>4. 1 \in 1..4 /\ 2 \in 1..4 /\ 3 \in 1..4 /\ 4 \in 1..4
  OBVIOUS
<1> DEFINE a == p(1) \o p(2)
           b == a \o p(3)
           c == b \o p(4)
<1>5. a \in Seq(Tiles) /\ IsInjective(a) /\ ToSet(a) = L(1) \cup L(2)
  <2>1. ToSet(p(1)) \cap ToSet(p(2)) = {}
    BY <1>1, <1>2, <1>4
  <2>2. QED
    BY <1>1, <1>4, <2>1, ConcatOfApart
<1> HIDE DEF a
<1>6. b \in Seq(Tiles) /\ IsInjective(b) /\ ToSet(b) = L(1) \cup L(2) \cup L(3)
  <2>1. ToSet(a) \cap ToSet(p(3)) = {}
    BY <1>1, <1>2, <1>4, <1>5
  <2>2. QED
    BY <1>1, <1>4, <1>5, <2>1, ConcatOfApart
<1> HIDE DEF b
<1>7. c \in Seq(Tiles) /\ IsInjective(c) /\ ToSet(c) = L(1) \cup L(2) \cup L(3) \cup L(4)
  <2>1. ToSet(b) \cap ToSet(p(4)) = {}
    BY <1>1, <1>2, <1>4, <1>6
  <2>2. QED
    BY <1>1, <1>4, <1>6, <2>1, ConcatOfApart
<1> HIDE DEF c
<1>8. ASSUME NEW cell \in TilesOfZoom(MaxZoom), Below(cell, t), Meets(r, cell)
      PROVE  \E s \in ToSet(c) : Below(cell, s)
  <2>1. cell \in Tiles /\ t.zoom < cell.zoom
    BY CellIs
  <2>2. PICK i \in 1..4 : Below(cell, Quarter(t, i))
    BY <1>8, <2>1, QuartersPart
  <2>3. PICK s \in ToSet(p(i)) : Below(cell, s)
    BY <1>8, <2>2 DEF IsAnswer, p
  <2>4. i = 1 \/ i = 2 \/ i = 3 \/ i = 4
    OBVIOUS
  <2>5. ToSet(p(i)) \subseteq ToSet(c)
    BY <1>1, <1>7, <2>4
  <2>6. QED
    BY <2>3, <2>5
<1>9. IsAnswer(c, r, o, t)
  BY <1>3, <1>7, <1>8 DEF IsAnswer
<1>10. QED
  BY <1>9 DEF a, b, c, p

(* What NSArrayOfTilesFromCoordinateRect answers.                          *)
LEMMA TilesFromRectIs ==
  ASSUME NEW r \in Rectangles, NEW o \in Nat, o >= Unit
  PROVE  IsAnswer(TilesFromRect(r, o), r, o, World)
<1>1. PICK f : (\A t \in Tiles : f[t] = AnswerFrom(f, r, o, t)) /\ TilesFromRect(r, o) = f[World]
  BY AnswersExist
<1>2. MaxZoom \in Nat /\ \A t \in Tiles : t.zoom \in 0..MaxZoom
  BY TileGeometryAssumption, TileIs
<1> DEFINE Wrong == {t \in Tiles : ~IsAnswer(f[t], r, o, t)}
           N == {MaxZoom - t.zoom : t \in Wrong}
<1>3. Wrong = {}
  <2>1. SUFFICES ASSUME Wrong # {} PROVE FALSE
    OBVIOUS
  <2>2. N \subseteq Nat /\ N # {}
    BY <1>2, <2>1
  <2>3. PICK n \in N : \A m \in N : ~(<<m, n>> \in OpToRel(<, Nat))
    BY <2>2, WFMin, NatLessThanWellFounded
  <2>4. PICK t \in Wrong : n = MaxZoom - t.zoom
    BY <2>3
  <2>5. t \in Tiles /\ f[t] = AnswerFrom(f, r, o, t) /\ ~IsAnswer(f[t], r, o, t)
    BY <1>1, <2>4
  <2>6. CASE ~Meets(r, t)
    <3>1. f[t] = <<>>
      BY <2>5, <2>6 DEF AnswerFrom, Meets
    <3>2. QED
      BY <2>5, <2>6, <3>1, AnswerOfNone
  <2>7. CASE Meets(r, t) /\ ~Split(r, o, RectFromTile(t))
    <3>1. f[t] = <<t>>
      BY <2>5, <2>7 DEF AnswerFrom, Meets
    <3>2. QED
      BY <2>5, <2>7, <3>1, AnswerOfOne
  <2>8. CASE Meets(r, t) /\ Split(r, o, RectFromTile(t))
    <3>1. t.zoom < MaxZoom
      BY <2>5, <2>8, CellsAreNotSplit
    <3>2. ASSUME NEW i \in 1..4 PROVE IsAnswer(f[Quarter(t, i)], r, o, Quarter(t, i))
      <4>1. Quarter(t, i) \in Tiles /\ Quarter(t, i).zoom = t.zoom + 1
        BY <2>5, <3>1, QuarterIs
      <4>2. MaxZoom - Quarter(t, i).zoom \in Nat /\ MaxZoom - Quarter(t, i).zoom < n /\ n \in Nat
        BY <1>2, <2>4, <2>5, <3>1, <4>1
      <4>3. MaxZoom - Quarter(t, i).zoom \notin N
        BY <2>3, <4>2 DEF OpToRel
      <4>4. Quarter(t, i) \notin Wrong
        BY <4>3
      <4>5. QED
        BY <4>1, <4>4
    <3>3. f[t] = f[Quarter(t, 1)] \o f[Quarter(t, 2)] \o f[Quarter(t, 3)] \o f[Quarter(t, 4)]
      BY <2>5, <2>8 DEF AnswerFrom, Meets
    <3>4. QED
      BY <2>5, <2>8, <3>1, <3>2, <3>3, AnswerOfQuarters
  <2>9. QED
    BY <2>6, <2>7, <2>8
<1>4. QED
  BY <1>1, <1>3, WorldIsAll

(* A sequence without duplicates is as long as the set of its elements.    *)
LEMMA LengthOfInjective ==
  ASSUME NEW S, NEW p \in Seq(S), IsInjective(p)
  PROVE  Len(p) = Cardinality(ToSet(p))
<1>1. Len(p) \in Nat /\ DOMAIN p = 1..Len(p) /\ p \in [1..Len(p) -> S]
  BY LenProperties
<1>2. p \in [1..Len(p) -> ToSet(p)]
  BY <1>1 DEF ToSet
<1>3. p \in Bijection(1..Len(p), ToSet(p))
  BY <1>1, <1>2 DEF Bijection, Injection, Surjection, IsInjective, ToSet
<1>4. ExistsBijection(1..Len(p), ToSet(p))
  BY <1>3 DEF ExistsBijection
<1>5. QED
  BY <1>1, <1>4, FS_CountingElements

(* The unit squares of a tile are those of its cells.                      *)
LEMMA SquaresOfTile ==
  ASSUME NEW t \in Tiles, NEW x \in Int, NEW y \in Int
  PROVE  /\ <<x, y>> \in Squares(RectFromTile(t)) <=> IsIn(x \div Unit, y \div Unit, t)
         /\ x \div Unit \in Int /\ y \div Unit \in Int
<1>1. PICK u \in Nat \ {0} : u = Unit
  BY TileIs
<1>2. PICK cx \in Int, mx \in 0..(u - 1) : cx = x \div u /\ x = u * cx + mx
  OBVIOUS
<1>3. PICK cy \in Int, my \in 0..(u - 1) : cy = y \div u /\ y = u * cy + my
  OBVIOUS
<1> DEFINE a == RectFromTile(t)
<1>4. /\ a.x = u * West(t) /\ a.x + a.w = u * East(t) /\ a.y = u * South(t) /\ a.y + a.h = u * North(t)
      /\ a.x \in Int /\ a.y \in Int /\ a.w \in Int /\ a.h \in Int
  BY <1>1, RectIs DEF Rectangles
<1>5. <<x, y>> \in Squares(a) <=> /\ a.x <= x /\ x < a.x + a.w
                                  /\ a.y <= y /\ y < a.y + a.h
  BY <1>4 DEF Squares
<1> HIDE DEF a
<1>6. West(t) \in Int /\ East(t) \in Int /\ South(t) \in Int /\ North(t) \in Int
  BY TileIs
<1>7. ASSUME NEW c \in Int, NEW m \in 0..(u - 1), NEW e \in Int
      PROVE  /\ u * e <= u * c + m <=> e <= c
             /\ u * c + m < u * e <=> c < e
  <2>1. CASE e <= c
    <3>1. PICK d \in Nat : c = e + d
      BY <2>1
    <3>2. u * c = u * e + u * d /\ u * d >= 0 /\ u * e \in Int /\ u * d \in Int
      BY <3>1
    <3>3. QED
      BY <2>1, <3>2
  <2>2. CASE c < e
    <3>1. PICK d \in Nat : e = c + 1 + d
      BY <2>2
    <3>2. u * e = u * c + u + u * d /\ u * d >= 0 /\ u * c \in Int /\ u * d \in Int
      BY <3>1
    <3>3. QED
      BY <2>2, <3>2
  <2>3. QED
    BY <2>1, <2>2
<1>8. /\ u * West(t) <= x <=> West(t) <= cx
      /\ x < u * East(t) <=> cx < East(t)
      /\ u * South(t) <= y <=> South(t) <= cy
      /\ y < u * North(t) <=> cy < North(t)
  BY <1>2, <1>3, <1>6, <1>7
<1>9. <<x, y>> \in Squares(a) <=> IsIn(cx, cy, t)
  BY <1>4, <1>5, <1>8 DEF IsIn
<1>10. QED
  BY <1>1, <1>2, <1>3, <1>9 DEF a

(* A tile with a square of a rectangle meets it.                           *)
LEMMA SquareMeets ==
  ASSUME NEW r \in Rectangles, NEW t \in Tiles, NEW q \in Squares(r), q \in Squares(RectFromTile(t))
  PROVE  Meets(r, t)
<1> DEFINE a == RectFromTile(t)
<1>1. a \in Rectangles
  BY RectIs
<1> HIDE DEF a
<1>2. /\ r.x \in Int /\ r.y \in Int /\ r.w \in Nat /\ r.h \in Nat
      /\ a.x \in Int /\ a.y \in Int /\ a.w \in Nat /\ a.h \in Nat
  BY <1>1 DEF Rectangles
<1>3. PICK x \in r.x..(r.x + r.w - 1), y \in r.y..(r.y + r.h - 1) : q = <<x, y>>
  BY DEF Squares
<1>4. x \in a.x..(a.x + a.w - 1) /\ y \in a.y..(a.y + a.h - 1)
  BY <1>3 DEF Squares, a
<1>5. IntersectsRect(r, a)
  BY <1>1, <1>2, <1>3, <1>4, EdgesAre DEF IntersectsRect
<1>6. QED
  BY <1>5 DEF a, Meets

(* The bench's question about tiles.                                       *)
LEMMA FoundCovers ==
  ASSUME rect \in Rectangles, overspill \in Nat, overspill >= Unit, found = TilesFromRect(rect, overspill)
  PROVE  TilesCover
<1>1. IsAnswer(found, rect, overspill, World)
  BY TilesFromRectIs
<1>2. /\ found \in Seq(Tiles) /\ IsInjective(found) /\ ToSet(found) = Largest(rect, overspill, World)
      /\ \A c \in TilesOfZoom(MaxZoom) : Below(c, World) /\ Meets(rect, c) => \E s \in ToSet(found) : Below(c, s)
  BY <1>1 DEF IsAnswer
<1>3. ASSUME NEW t \in Tiles PROVE Fits(t) <=> ~Split(rect, overspill, RectFromTile(t))
  <2> DEFINE a == RectFromTile(t)
             b == Outset(rect, overspill)
  <2>1. a \in Rectangles
    BY RectIs
  <2>2. /\ b \in Rectangles /\ b.x = rect.x - overspill /\ b.y = rect.y - overspill
        /\ b.w = rect.w + 2 * overspill /\ b.h = rect.h + 2 * overspill
    BY DEF Outset, Rect, Rectangles
  <2>3. Fits(t) <=> ContainsRect(b, a)
    BY DEF Fits
  <2> HIDE DEF a, b
  <2>4. ContainsRect(b, a) <=> ~Split(rect, overspill, a)
    BY <2>1, <2>2, EdgesAre DEF ContainsRect, Split
  <2>5. QED
    BY <2>3, <2>4 DEF a
<1>4. ToSet(found) =
       {t \in Tiles : /\ IntersectsRect(rect, RectFromTile(t)) /\ Fits(t)
                      /\ \A s \in Tiles :
                           s.zoom < t.zoom /\ Cells[t] \subseteq Cells[s] => ~Fits(s)}
  <2>1. \A s, t \in Tiles : s.zoom < t.zoom => (Cells[t] \subseteq Cells[s] <=> Below(t, s))
    <3>1. ASSUME NEW s \in Tiles, NEW t \in Tiles, s.zoom < t.zoom
          PROVE  Cells[t] \subseteq Cells[s] <=> Below(t, s)
      <4>1. s.zoom <= t.zoom
        BY <3>1, TileIs
      <4>2. QED
        BY <4>1, CellsBelow
    <3>2. QED
      BY <3>1
  <2>2. ASSUME NEW t \in Tiles
        PROVE  t \in Largest(rect, overspill, World) <=>
                 /\ IntersectsRect(rect, RectFromTile(t)) /\ Fits(t)
                 /\ \A s \in Tiles : s.zoom < t.zoom /\ Cells[t] \subseteq Cells[s] => ~Fits(s)
    BY <1>3, <2>1, WorldIsAll DEF Largest, Meets
  <2>3. Largest(rect, overspill, World) \subseteq Tiles
    BY DEF Largest
  <2>4. QED
    BY <1>2, <2>2, <2>3
<1>5. Len(found) = Cardinality(ToSet(found))
  BY <1>2, LengthOfInjective
<1>6. ASSUME NEW q \in Squares(rect) \cap Squares(RectFromTile(World))
      PROVE  \E t \in ToSet(found) : q \in Squares(RectFromTile(t))
  <2>1. rect.x \in Int /\ rect.w \in Int /\ rect.y \in Int /\ rect.h \in Int
    BY DEF Rectangles
  <2>2. PICK x \in Int, y \in Int : q = <<x, y>>
    BY <2>1 DEF Squares
  <2> DEFINE cx == x \div Unit
             cy == y \div Unit
             c == [x |-> cx, y |-> cy, zoom |-> MaxZoom]
  <2>3. World \in Tiles
    BY WorldIsAll
  <2>4. IsIn(cx, cy, World) /\ cx \in Int /\ cy \in Int
    BY <2>2, <2>3, SquaresOfTile
  <2> HIDE DEF cx, cy
  <2>5. c \in TilesOfZoom(MaxZoom) /\ c.x = cx /\ c.y = cy
    BY <2>4, CellIs
  <2> HIDE DEF c
  <2>6. c \in Tiles /\ Side(c) = 1 /\ West(c) = cx /\ South(c) = cy
    BY <2>5, CellIs
  <2>7. IsIn(cx, cy, c)
    BY <2>4, <2>6, TileIs DEF IsIn
  <2>8. q \in Squares(RectFromTile(c))
    BY <2>2, <2>6, <2>7, SquaresOfTile DEF cx, cy
  <2>9. Meets(rect, c) /\ Below(c, World)
    BY <2>6, <2>8, SquareMeets, WorldIsAll
  <2>10. PICK s \in ToSet(found) : Below(c, s)
    BY <1>2, <2>5, <2>9
  <2>11. s \in Tiles
    BY <1>2 DEF Largest
  <2>12. IsIn(cx, cy, s)
    BY <2>5, <2>10, <2>11, CellsAre
  <2>13. q \in Squares(RectFromTile(s))
    BY <2>2, <2>11, <2>12, SquaresOfTile DEF cx, cy
  <2>14. QED
    BY <2>13
<1>7. ASSUME NEW s \in ToSet(found), NEW t \in ToSet(found), s.zoom <= t.zoom, Cells[s] \cap Cells[t] # {}
      PROVE  s = t
  <2>1. s \in Tiles /\ t \in Tiles /\ s.zoom \in Int /\ t.zoom \in Int
    BY <1>2, TileIs DEF Largest
  <2>2. Below(t, s)
    BY <1>7, <2>1, CellsBelow
  <2>3. ~(s.zoom < t.zoom)
    <3>1. ~Split(rect, overspill, RectFromTile(s)) /\ Below(s, World)
      BY <1>2 DEF Largest
    <3>2. QED
      BY <1>2, <2>1, <2>2, <3>1 DEF Largest
  <2>4. s.zoom = t.zoom
    BY <1>7, <2>1, <2>3
  <2>5. QED
    BY <2>1, <2>2, <2>4, BelowIsOrder
<1>8. ASSUME NEW s \in ToSet(found), NEW t \in ToSet(found), s # t PROVE Cells[s] \cap Cells[t] = {}
  <2>1. s.zoom \in Int /\ t.zoom \in Int
    BY <1>2, TileIs DEF Largest
  <2>2. s.zoom <= t.zoom \/ t.zoom <= s.zoom
    BY <2>1
  <2>3. QED
    BY <1>7, <1>8, <2>2
<1>9. QED
  BY <1>4, <1>5, <1>6, <1>8 DEF TilesCover

-----------------------------------------------------------------------------
(* Areas: sequences of rectangles that do not overlap.                     *)

\* The unit squares of an area.
SquaresOf(p) == UNION {Squares(p[i]) : i \in 1..Len(p)}

\* A list of rectangles that is an area: no two of them overlap.
IsArea(p) ==
  /\ p \in Seq(Rectangles)
  /\ \A i, j \in 1..Len(p) : i # j => Squares(p[i]) \cap Squares(p[j]) = {}

(* The smallest areas.                                                     *)
LEMMA SmallAreas ==
  /\ IsArea(<<>>) /\ SquaresOf(<<>>) = {}
  /\ \A r \in Rectangles : IsArea(<<r>>) /\ SquaresOf(<<r>>) = Squares(r)
<1>1. <<>> \in Seq(Rectangles) /\ Len(<<>>) = 0 /\ \A i : ~(i \in 1..0)
  OBVIOUS
<1>2. IsArea(<<>>) /\ SquaresOf(<<>>) = {}
  BY <1>1 DEF IsArea, SquaresOf
<1>3. ASSUME NEW r \in Rectangles PROVE IsArea(<<r>>) /\ SquaresOf(<<r>>) = Squares(r)
  <2>1. <<r>> \in Seq(Rectangles) /\ Len(<<r>>) = 1 /\ <<r>>[1] = r /\ \A i : i \in 1..1 <=> i = 1
    OBVIOUS
  <2> DEFINE p == <<r>>
  <2>2. p \in Seq(Rectangles) /\ Len(p) = 1 /\ p[1] = r
    BY <2>1
  <2> HIDE DEF p
  <2>3. IsArea(p) /\ SquaresOf(p) = Squares(r)
    BY <2>1, <2>2 DEF IsArea, SquaresOf
  <2>4. QED
    BY <2>3 DEF p
<1>4. QED
  BY <1>2, <1>3

(* Two areas that do not overlap, one after the other.                     *)
LEMMA ConcatOfAreas ==
  ASSUME NEW p, NEW q, IsArea(p), IsArea(q), SquaresOf(p) \cap SquaresOf(q) = {}
  PROVE  IsArea(p \o q) /\ SquaresOf(p \o q) = SquaresOf(p) \cup SquaresOf(q)
<1>1. p \in Seq(Rectangles) /\ q \in Seq(Rectangles)
  BY DEF IsArea
<1> DEFINE c == p \o q
           m == Len(p)
           n == Len(q)
<1>2. /\ m \in Nat /\ n \in Nat /\ c \in Seq(Rectangles) /\ Len(c) = m + n
      /\ \A i \in 1..(m + n) : c[i] = IF i <= m THEN p[i] ELSE q[i - m]
  BY <1>1, LenProperties, ConcatProperties
<1> HIDE DEF c
<1>3. \A i \in 1..(m + n) : \/ i \in 1..m /\ c[i] = p[i]
                            \/ i > m /\ i - m \in 1..n /\ c[i] = q[i - m]
  BY <1>2
<1>4. /\ \A i \in 1..m : i \in 1..(m + n) /\ c[i] = p[i]
      /\ \A i \in 1..n : i + m \in 1..(m + n) /\ c[i + m] = q[i]
  <2>1. \A i \in 1..m : i \in 1..(m + n) /\ c[i] = p[i]
    BY <1>2
  <2>2. ASSUME NEW i \in 1..n PROVE i + m \in 1..(m + n) /\ c[i + m] = q[i]
    <3>1. i + m \in 1..(m + n) /\ ~(i + m <= m) /\ (i + m) - m = i
      BY <1>2
    <3>2. QED
      BY <1>2, <3>1
  <2>3. QED
    BY <2>1, <2>2
<1> HIDE DEF m, n
<1>5. SquaresOf(c) = SquaresOf(p) \cup SquaresOf(q)
  <2>1. ASSUME NEW x \in SquaresOf(c) PROVE x \in SquaresOf(p) \cup SquaresOf(q)
    <3>1. PICK i \in 1..(m + n) : x \in Squares(c[i])
      BY <1>2 DEF SquaresOf
    <3>2. QED
      BY <1>3, <3>1 DEF SquaresOf, m, n
  <2>2. ASSUME NEW x \in SquaresOf(p) PROVE x \in SquaresOf(c)
    <3>1. PICK i \in 1..m : x \in Squares(p[i])
      BY <2>2 DEF SquaresOf, m
    <3>2. QED
      BY <1>2, <1>4, <3>1 DEF SquaresOf
  <2>3. ASSUME NEW x \in SquaresOf(q) PROVE x \in SquaresOf(c)
    <3>1. PICK i \in 1..n : x \in Squares(q[i])
      BY <2>3 DEF SquaresOf, n
    <3>2. QED
      BY <1>2, <1>4, <3>1 DEF SquaresOf
  <2>4. QED
    BY <2>1, <2>2, <2>3
<1>6. ASSUME NEW i \in 1..(m + n), NEW j \in 1..(m + n), i # j PROVE Squares(c[i]) \cap Squares(c[j]) = {}
  <2>1. /\ \A k \in 1..m : Squares(p[k]) \subseteq SquaresOf(p)
        /\ \A k \in 1..n : Squares(q[k]) \subseteq SquaresOf(q)
    BY DEF SquaresOf, m, n
  <2>2. /\ \A k, l \in 1..m : k # l => Squares(p[k]) \cap Squares(p[l]) = {}
        /\ \A k, l \in 1..n : k # l => Squares(q[k]) \cap Squares(q[l]) = {}
    BY DEF IsArea, m, n
  <2>3. CASE i \in 1..m /\ c[i] = p[i]
    <3>1. CASE j \in 1..m /\ c[j] = p[j]
      BY <1>6, <2>2, <2>3, <3>1
    <3>2. CASE j > m /\ j - m \in 1..n /\ c[j] = q[j - m]
      BY <2>1, <2>3, <3>2
    <3>3. QED
      BY <1>3, <3>1, <3>2
  <2>4. CASE i > m /\ i - m \in 1..n /\ c[i] = q[i - m]
    <3>1. CASE j \in 1..m /\ c[j] = p[j]
      BY <2>1, <2>4, <3>1
    <3>2. CASE j > m /\ j - m \in 1..n /\ c[j] = q[j - m]
      <4>1. i - m # j - m
        BY <1>2, <1>6
      <4>2. QED
        BY <2>2, <2>4, <3>2, <4>1
    <3>3. QED
      BY <1>3, <3>1, <3>2
  <2>5. QED
    BY <1>3, <2>3, <2>4
<1>7. IsArea(c)
  BY <1>2, <1>6 DEF IsArea
<1>8. QED
  BY <1>5, <1>7 DEF c

-----------------------------------------------------------------------------
(* OSPCoordinateRectSubtract.                                              *)

\* q is a unit square of the rectangle.
HasSquare(x, y, w, h, q) ==
  \E i \in Int, j \in Int : q = <<i, j>> /\ x <= i /\ i < x + w /\ y <= j /\ j < y + h

\* One of the four chops: a rectangle, or none.
Chop(p, S) == IsArea(p) /\ SquaresOf(p) = S

(* One rectangle cut out of another leaves the difference, in pieces that  *)
(* do not overlap.                                                         *)
LEMMA SubtractIs ==
  ASSUME NEW a \in Rectangles, NEW b \in Rectangles
  PROVE  Chop(Subtract(a, b), Squares(a) \ Squares(b))
<1> DEFINE left == IF a.x < b.x THEN b.x ELSE a.x
           aRight == a.x + a.w
           bRight == b.x + b.w
           right == IF aRight > bRight THEN bRight ELSE aRight
           aTop == a.y + a.h
           bTop == b.y + b.h
           p1 == IF a.x < b.x THEN <<Rect(a.x, a.y, b.x - a.x, a.h)>> ELSE <<>>
           p2 == IF aRight > bRight THEN <<Rect(bRight, a.y, aRight - bRight, a.h)>> ELSE <<>>
           p3 == IF a.y < b.y THEN <<Rect(left, a.y, right - left, b.y - a.y)>> ELSE <<>>
           p4 == IF aTop > bTop THEN <<Rect(left, bTop, right - left, aTop - bTop)>> ELSE <<>>
           S1 == {q \in Squares(a) : q[1] < b.x}
           S2 == {q \in Squares(a) : q[1] >= bRight}
           M == {q \in Squares(a) : b.x <= q[1] /\ q[1] < bRight}
           S3 == {q \in M : q[2] < b.y}
           S4 == {q \in M : q[2] >= bTop}
<1>1. /\ a.x \in Int /\ a.y \in Int /\ a.w \in Nat /\ a.h \in Nat
      /\ b.x \in Int /\ b.y \in Int /\ b.w \in Nat /\ b.h \in Nat
  BY DEF Rectangles
<1>2. ASSUME NEW x \in Int, NEW y \in Int, NEW w \in Nat, NEW h \in Nat
      PROVE  Rect(x, y, w, h) \in Rectangles /\ \A q : q \in Squares(Rect(x, y, w, h)) <=> HasSquare(x, y, w, h, q)
  BY DEF Rect, Rectangles, Squares, HasSquare
<1>3. \A q : q \in Squares(a) <=>
         \E i \in Int, j \in Int : q = <<i, j>> /\ a.x <= i /\ i < aRight /\ a.y <= j /\ j < aTop
  BY <1>1 DEF Squares
<1>4. \A q : q \in Squares(b) <=>
         \E i \in Int, j \in Int : q = <<i, j>> /\ b.x <= i /\ i < bRight /\ b.y <= j /\ j < bTop
  BY <1>1 DEF Squares
<1>5. CASE ~IntersectsRect(a, b)
  <2>1. Subtract(a, b) = <<a>>
    BY <1>5 DEF Subtract
  <2>2. aRight < b.x \/ a.x > bRight \/ aTop < b.y \/ a.y > bTop
    BY <1>1, <1>5, EdgesAre DEF IntersectsRect
  <2>3. Squares(a) \cap Squares(b) = {}
    BY <1>1, <1>3, <1>4, <2>2
  <2>4. QED
    BY <2>1, <2>3, SmallAreas DEF Chop
<1>6. CASE IntersectsRect(a, b)
  <2>1. aRight >= b.x /\ a.x <= bRight /\ aTop >= b.y /\ a.y <= bTop
    BY <1>1, <1>6, EdgesAre DEF IntersectsRect
  <2>2. Chop(p1, S1)
    <3>1. CASE a.x < b.x
      <4>1. PICK w \in Nat : w = b.x - a.x
        BY <1>1, <3>1
      <4> DEFINE r == Rect(a.x, a.y, w, a.h)
      <4>2. r \in Rectangles /\ \A q : q \in Squares(r) <=> HasSquare(a.x, a.y, w, a.h, q)
        BY <1>1, <1>2, <4>1
      <4> HIDE DEF r
      <4>3. Squares(r) = S1
        <5>1. ASSUME NEW i \in Int, NEW j \in Int,
                     a.x <= i /\ i < aRight /\ a.y <= j /\ j < aTop /\ i < b.x
              PROVE  a.x <= i /\ i < a.x + w /\ a.y <= j /\ j < aTop
          BY <1>1, <2>1, <4>1, <5>1
        <5>2. ASSUME NEW i \in Int, NEW j \in Int, a.x <= i /\ i < a.x + w /\ a.y <= j /\ j < aTop
              PROVE  a.x <= i /\ i < aRight /\ a.y <= j /\ j < aTop /\ i < b.x
          BY <1>1, <2>1, <3>1, <4>1, <5>2
        <5>3. ASSUME NEW q \in Squares(r) PROVE q \in S1
          <6>1. PICK i \in Int, j \in Int : q = <<i, j>> /\ a.x <= i /\ i < a.x + w /\ a.y <= j /\ j < aTop
            BY <4>2 DEF HasSquare
          <6>2. q \in Squares(a) /\ i < b.x
            BY <1>3, <5>2, <6>1
          <6>3. QED
            BY <6>1, <6>2
        <5>4. ASSUME NEW q \in S1 PROVE q \in Squares(r)
          <6>1. PICK i \in Int, j \in Int : q = <<i, j>> /\ a.x <= i /\ i < aRight /\ a.y <= j /\ j < aTop
            BY <1>3
          <6>2. i < b.x
            BY <6>1
          <6>3. a.x <= i /\ i < a.x + w /\ a.y <= j /\ j < aTop
            BY <5>1, <6>1, <6>2
          <6>4. QED
            BY <4>2, <6>1, <6>3 DEF HasSquare
        <5>5. QED
          BY <5>3, <5>4
      <4>4. p1 = <<r>>
        BY <3>1, <4>1 DEF r
      <4>5. QED
        BY <4>2, <4>3, <4>4, SmallAreas DEF Chop
    <3>2. CASE ~(a.x < b.x)
      <4>1. p1 = <<>> /\ S1 = {}
        BY <1>1, <1>3, <3>2
      <4>2. QED
        BY <4>1, SmallAreas DEF Chop
    <3>3. QED
      BY <3>1, <3>2
  <2>3. Chop(p2, S2)
    <3>1. CASE aRight > bRight
      <4>1. PICK w \in Nat, x0 \in Int : w = aRight - bRight /\ x0 = bRight
        BY <1>1, <3>1
      <4> DEFINE r == Rect(x0, a.y, w, a.h)
      <4>2. r \in Rectangles /\ \A q : q \in Squares(r) <=> HasSquare(x0, a.y, w, a.h, q)
        BY <1>1, <1>2, <4>1
      <4> HIDE DEF r
      <4>3. Squares(r) = S2
        <5>1. ASSUME NEW i \in Int, NEW j \in Int,
                     a.x <= i /\ i < aRight /\ a.y <= j /\ j < aTop /\ i >= bRight
              PROVE  x0 <= i /\ i < x0 + w /\ a.y <= j /\ j < aTop
          BY <1>1, <2>1, <4>1, <5>1
        <5>2. ASSUME NEW i \in Int, NEW j \in Int, x0 <= i /\ i < x0 + w /\ a.y <= j /\ j < aTop
              PROVE  a.x <= i /\ i < aRight /\ a.y <= j /\ j < aTop /\ i >= bRight
          BY <1>1, <2>1, <3>1, <4>1, <5>2
        <5>3. ASSUME NEW q \in Squares(r) PROVE q \in S2
          <6>1. PICK i \in Int, j \in Int : q = <<i, j>> /\ x0 <= i /\ i < x0 + w /\ a.y <= j /\ j < aTop
            BY <4>2 DEF HasSquare
          <6>2. q \in Squares(a) /\ i >= bRight
            BY <1>3, <5>2, <6>1
          <6>3. QED
            BY <6>1, <6>2
        <5>4. ASSUME NEW q \in S2 PROVE q \in Squares(r)
          <6>1. PICK i \in Int, j \in Int : q = <<i, j>> /\ a.x <= i /\ i < aRight /\ a.y <= j /\ j < aTop
            BY <1>3
          <6>2. i >= bRight
            BY <6>1
          <6>3. x0 <= i /\ i < x0 + w /\ a.y <= j /\ j < aTop
            BY <5>1, <6>1, <6>2
          <6>4. QED
            BY <4>2, <6>1, <6>3 DEF HasSquare
        <5>5. QED
          BY <5>3, <5>4
      <4>4. p2 = <<r>>
        BY <3>1, <4>1 DEF r
      <4>5. QED
        BY <4>2, <4>3, <4>4, SmallAreas DEF Chop
    <3>2. CASE ~(aRight > bRight)
      <4>1. p2 = <<>> /\ S2 = {}
        BY <1>1, <1>3, <3>2
      <4>2. QED
        BY <4>1, SmallAreas DEF Chop
    <3>3. QED
      BY <3>1, <3>2
  <2>4. PICK width \in Nat : width = right - left /\ left \in Int /\ right \in Int
    BY <1>1, <2>1
  <2>5. \A i \in Int : left <= i /\ i < right <=> a.x <= i /\ i < aRight /\ b.x <= i /\ i < bRight
    BY <1>1
  <2> HIDE DEF left, right
  <2>6. Chop(p3, S3)
    <3>1. CASE a.y < b.y
      <4>1. PICK h \in Nat : h = b.y - a.y
        BY <1>1, <3>1
      <4> DEFINE r == Rect(left, a.y, width, h)
      <4>2. r \in Rectangles /\ \A q : q \in Squares(r) <=> HasSquare(left, a.y, width, h, q)
        BY <1>1, <1>2, <2>4, <4>1
      <4> HIDE DEF r
      <4>3. Squares(r) = S3
        <5>1. ASSUME NEW i \in Int, NEW j \in Int,
                     a.x <= i /\ i < aRight /\ a.y <= j /\ j < aTop /\ b.x <= i /\ i < bRight /\ j < b.y
              PROVE  left <= i /\ i < left + width /\ a.y <= j /\ j < a.y + h
          BY <1>1, <2>1, <2>4, <2>5, <4>1, <5>1
        <5>2. ASSUME NEW i \in Int, NEW j \in Int, left <= i /\ i < left + width /\ a.y <= j /\ j < a.y + h
              PROVE  a.x <= i /\ i < aRight /\ a.y <= j /\ j < aTop /\ b.x <= i /\ i < bRight /\ j < b.y
          BY <1>1, <2>1, <3>1, <2>4, <2>5, <4>1, <5>2
        <5>3. ASSUME NEW q \in Squares(r) PROVE q \in S3
          <6>1. PICK i \in Int, j \in Int : q = <<i, j>> /\ left <= i /\ i < left + width /\ a.y <= j /\ j < a.y + h
            BY <4>2 DEF HasSquare
          <6>2. q \in Squares(a) /\ b.x <= i /\ i < bRight /\ j < b.y
            BY <1>3, <5>2, <6>1
          <6>3. QED
            BY <6>1, <6>2
        <5>4. ASSUME NEW q \in S3 PROVE q \in Squares(r)
          <6>1. PICK i \in Int, j \in Int : q = <<i, j>> /\ a.x <= i /\ i < aRight /\ a.y <= j /\ j < aTop
            BY <1>3
          <6>2. b.x <= i /\ i < bRight /\ j < b.y
            BY <6>1
          <6>3. left <= i /\ i < left + width /\ a.y <= j /\ j < a.y + h
            BY <5>1, <6>1, <6>2
          <6>4. QED
            BY <4>2, <6>1, <6>3 DEF HasSquare
        <5>5. QED
          BY <5>3, <5>4
      <4>4. p3 = <<r>>
        BY <3>1, <4>1, <2>4 DEF r
      <4>5. QED
        BY <4>2, <4>3, <4>4, SmallAreas DEF Chop
    <3>2. CASE ~(a.y < b.y)
      <4>1. p3 = <<>> /\ S3 = {}
        BY <1>1, <1>3, <3>2
      <4>2. QED
        BY <4>1, SmallAreas DEF Chop
    <3>3. QED
      BY <3>1, <3>2
  <2>7. Chop(p4, S4)
    <3>1. CASE aTop > bTop
      <4>1. PICK h \in Nat, y0 \in Int : h = aTop - bTop /\ y0 = bTop
        BY <1>1, <3>1
      <4> DEFINE r == Rect(left, y0, width, h)
      <4>2. r \in Rectangles /\ \A q : q \in Squares(r) <=> HasSquare(left, y0, width, h, q)
        BY <1>1, <1>2, <2>4, <4>1
      <4> HIDE DEF r
      <4>3. Squares(r) = S4
        <5>1. ASSUME NEW i \in Int, NEW j \in Int,
                     a.x <= i /\ i < aRight /\ a.y <= j /\ j < aTop /\ b.x <= i /\ i < bRight /\ j >= bTop
              PROVE  left <= i /\ i < left + width /\ y0 <= j /\ j < y0 + h
          BY <1>1, <2>1, <2>4, <2>5, <4>1, <5>1
        <5>2. ASSUME NEW i \in Int, NEW j \in Int, left <= i /\ i < left + width /\ y0 <= j /\ j < y0 + h
              PROVE  a.x <= i /\ i < aRight /\ a.y <= j /\ j < aTop /\ b.x <= i /\ i < bRight /\ j >= bTop
          BY <1>1, <2>1, <3>1, <2>4, <2>5, <4>1, <5>2
        <5>3. ASSUME NEW q \in Squares(r) PROVE q \in S4
          <6>1. PICK i \in Int, j \in Int : q = <<i, j>> /\ left <= i /\ i < left + width /\ y0 <= j /\ j < y0 + h
            BY <4>2 DEF HasSquare
          <6>2. q \in Squares(a) /\ b.x <= i /\ i < bRight /\ j >= bTop
            BY <1>3, <5>2, <6>1
          <6>3. QED
            BY <6>1, <6>2
        <5>4. ASSUME NEW q \in S4 PROVE q \in Squares(r)
          <6>1. PICK i \in Int, j \in Int : q = <<i, j>> /\ a.x <= i /\ i < aRight /\ a.y <= j /\ j < aTop
            BY <1>3
          <6>2. b.x <= i /\ i < bRight /\ j >= bTop
            BY <6>1
          <6>3. left <= i /\ i < left + width /\ y0 <= j /\ j < y0 + h
            BY <5>1, <6>1, <6>2
          <6>4. QED
            BY <4>2, <6>1, <6>3 DEF HasSquare
        <5>5. QED
          BY <5>3, <5>4
      <4>4. p4 = <<r>>
        BY <3>1, <4>1, <2>4 DEF r
      <4>5. QED
        BY <4>2, <4>3, <4>4, SmallAreas DEF Chop
    <3>2. CASE ~(aTop > bTop)
      <4>1. p4 = <<>> /\ S4 = {}
        BY <1>1, <1>3, <3>2
      <4>2. QED
        BY <4>1, SmallAreas DEF Chop
    <3>3. QED
      BY <3>1, <3>2
  <2>8. Subtract(a, b) = p1 \o p2 \o p3 \o p4
    BY <1>6 DEF Subtract, left, right
  <2>9. /\ S1 \cap S2 = {} /\ (S1 \cup S2) \cap S3 = {} /\ (S1 \cup S2 \cup S3) \cap S4 = {}
        /\ S1 \cup S2 \cup S3 \cup S4 = Squares(a) \ Squares(b)
    <3>1. ASSUME NEW q PROVE /\ ~(q \in S1 /\ q \in S2) /\ ~((q \in S1 \/ q \in S2) /\ q \in S3)
                             /\ ~((q \in S1 \/ q \in S2 \/ q \in S3) /\ q \in S4)
                             /\ q \in S1 \/ q \in S2 \/ q \in S3 \/ q \in S4 <=> q \in Squares(a) /\ q \notin Squares(b)
      <4>1. CASE q \in Squares(a)
        <5>1. PICK i \in Int, j \in Int : q = <<i, j>> /\ a.x <= i /\ i < aRight /\ a.y <= j /\ j < aTop
          BY <1>3, <4>1
        <5>2. q \in Squares(b) <=> b.x <= i /\ i < bRight /\ b.y <= j /\ j < bTop
          BY <1>4, <5>1
        <5>3. /\ q \in S1 <=> i < b.x
              /\ q \in S2 <=> i >= bRight
              /\ q \in S3 <=> b.x <= i /\ i < bRight /\ j < b.y
              /\ q \in S4 <=> b.x <= i /\ i < bRight /\ j >= bTop
          BY <4>1, <5>1
        <5> HIDE DEF S1, S2, S3, S4
        <5>4. QED
          BY <1>1, <4>1, <5>2, <5>3
      <4>2. CASE q \notin Squares(a)
        BY <4>2
      <4>3. QED
        BY <4>1, <4>2
    <3> HIDE DEF S1, S2, S3, S4
    <3>2. QED
      BY <3>1
  <2> HIDE DEF p1, p2, p3, p4, S1, S2, S3, S4
  <2>10. Chop(p1 \o p2, S1 \cup S2)
    BY <2>2, <2>3, <2>9, ConcatOfAreas DEF Chop
  <2>11. Chop(p1 \o p2 \o p3, S1 \cup S2 \cup S3)
    BY <2>6, <2>9, <2>10, ConcatOfAreas DEF Chop
  <2>12. Chop(p1 \o p2 \o p3 \o p4, S1 \cup S2 \cup S3 \cup S4)
    BY <2>7, <2>9, <2>11, ConcatOfAreas DEF Chop
  <2>13. QED
    BY <2>8, <2>9, <2>12
<1>7. QED
  BY <1>5, <1>6

-----------------------------------------------------------------------------
(* FlattenSeq and FoldLeft of areas.                                       *)

FlatFrom(g, seqs, i) == IF i = 1 THEN seqs[i] ELSE g[i - 1] \o seqs[i]
FlatTo(g, seqs, n) == \A i \in 1..n : g[i] = FlatFrom(g, seqs, i)

(* The recursion of FlattenSeq.                                            *)
LEMMA FlattenIs ==
  ASSUME NEW seqs, Len(seqs) \in Nat \ {0}
  PROVE  \E g : FlatTo(g, seqs, Len(seqs)) /\ FlattenSeq(seqs) = g[Len(seqs)]
<1> DEFINE n == Len(seqs)
           N == {k \in Nat : k <= n /\ ~ \E g : FlatTo(g, seqs, k)}
<1>1. n \in Nat /\ n >= 1
  OBVIOUS
<1>2. FlattenSeq(seqs) = (CHOOSE g : g = [i \in 1..n |-> FlatFrom(g, seqs, i)])[n]
  <2>1. ~(Len(seqs) = 0)
    OBVIOUS
  <2>2. QED
    BY <2>1 DEF FlattenSeq, FlatFrom
<1> HIDE DEF n
<1>3. N = {}
  <2>1. SUFFICES ASSUME N # {} PROVE FALSE
    OBVIOUS
  <2>2. N \subseteq Nat
    OBVIOUS
  <2>3. PICK k \in N : \A m \in N : ~(<<m, k>> \in OpToRel(<, Nat))
    BY <2>1, <2>2, WFMin, NatLessThanWellFounded
  <2>4. k \in Nat /\ k <= n /\ ~ \E g : FlatTo(g, seqs, k)
    BY <2>3
  <2>5. CASE k = 0
    <3>1. FlatTo(<<>>, seqs, k)
      BY <2>5 DEF FlatTo
    <3>2. QED
      BY <2>4, <3>1
  <2>6. CASE k # 0
    <3>1. k - 1 \in Nat /\ k - 1 <= n /\ k - 1 < k
      BY <1>1, <2>4, <2>6
    <3>2. k - 1 \notin N
      BY <2>3, <2>4, <3>1 DEF OpToRel
    <3>3. PICK g : FlatTo(g, seqs, k - 1)
      BY <3>1, <3>2
    <3> DEFINE f == [i \in 1..k |-> FlatFrom(g, seqs, i)]
    <3>4. \A i \in 1..(k - 1) : f[i] = g[i]
      BY <2>4, <3>3 DEF FlatTo
    <3>5. \A i \in 1..k : f[i] = FlatFrom(g, seqs, i)
      OBVIOUS
    <3> HIDE DEF f
    <3>6. ASSUME NEW i \in 1..k PROVE f[i] = FlatFrom(f, seqs, i)
      <4>1. CASE i = 1
        BY <3>5, <4>1 DEF FlatFrom
      <4>2. CASE i # 1
        <5>1. i - 1 \in 1..(k - 1)
          BY <2>4, <4>2
        <5>2. f[i - 1] = g[i - 1]
          BY <3>4, <5>1
        <5>3. QED
          BY <3>5, <4>2, <5>2 DEF FlatFrom
      <4>3. QED
        BY <4>1, <4>2
    <3>7. FlatTo(f, seqs, k)
      BY <3>6 DEF FlatTo
    <3>8. QED
      BY <2>4, <3>7
  <2>7. QED
    BY <2>5, <2>6
<1>4. PICK g : FlatTo(g, seqs, n)
  <2>1. n \in Nat /\ n <= n /\ n \notin N
    BY <1>1, <1>3
  <2> HIDE DEF N
  <2>2. QED
    BY <2>1 DEF N
<1> DEFINE f == [i \in 1..n |-> g[i]]
<1>5. \A i \in 1..n : f[i] = g[i]
  OBVIOUS
<1>6. ASSUME NEW i \in 1..n PROVE FlatFrom(f, seqs, i) = FlatFrom(g, seqs, i)
  <2>1. CASE i = 1
    BY <2>1 DEF FlatFrom
  <2>2. CASE i # 1
    <3>1. i - 1 \in 1..n
      BY <1>1, <2>2
    <3> HIDE DEF f
    <3>2. QED
      BY <1>5, <2>2, <3>1 DEF FlatFrom
  <2>3. QED
    BY <2>1, <2>2
<1>7. f = [i \in 1..n |-> FlatFrom(f, seqs, i)]
  <2>1. \A i \in 1..n : g[i] = FlatFrom(f, seqs, i)
    BY <1>4, <1>6 DEF FlatTo
  <2>2. f = [i \in 1..n |-> g[i]]
    OBVIOUS
  <2> HIDE DEF f
  <2>3. QED
    BY <2>1, <2>2
<1> HIDE DEF f
<1> DEFINE flat == CHOOSE h : h = [i \in 1..n |-> FlatFrom(h, seqs, i)]
<1>8. flat = [i \in 1..n |-> FlatFrom(flat, seqs, i)]
  BY <1>7
<1>9. FlattenSeq(seqs) = flat[n]
  BY <1>2
<1> HIDE DEF flat
<1>10. \A i \in 1..n : flat[i] = FlatFrom(flat, seqs, i)
  BY <1>8
<1>11. FlatTo(flat, seqs, n)
  BY <1>10 DEF FlatTo
<1>12. QED
  BY <1>9, <1>11 DEF n

\* Areas that do not overlap.
ApartAreas(seqs, n) ==
  /\ \A i \in 1..n : IsArea(seqs[i])
  /\ \A i, j \in 1..n : i # j => SquaresOf(seqs[i]) \cap SquaresOf(seqs[j]) = {}

SquaresOfAll(seqs, n) == UNION {SquaresOf(seqs[i]) : i \in 1..n}

(* Areas that do not overlap, one after the other.                         *)
LEMMA FlattenAreas ==
  ASSUME NEW seqs, Len(seqs) \in Nat \ {0}, ApartAreas(seqs, Len(seqs))
  PROVE  IsArea(FlattenSeq(seqs)) /\ SquaresOf(FlattenSeq(seqs)) = SquaresOfAll(seqs, Len(seqs))
<1> DEFINE n == Len(seqs)
<1>1. PICK g : FlatTo(g, seqs, n) /\ FlattenSeq(seqs) = g[n]
  BY FlattenIs
<1>2. n \in Nat /\ n >= 1 /\ ApartAreas(seqs, n)
  OBVIOUS
<1> HIDE DEF n
<1> DEFINE Good(i) == IsArea(g[i]) /\ SquaresOf(g[i]) = SquaresOfAll(seqs, i)
           N == {i \in 1..n : ~Good(i)}
<1>3. N = {}
  <2>1. SUFFICES ASSUME N # {} PROVE FALSE
    OBVIOUS
  <2>2. N \subseteq Nat
    OBVIOUS
  <2>3. PICK k \in N : \A m \in N : ~(<<m, k>> \in OpToRel(<, Nat))
    BY <2>1, <2>2, WFMin, NatLessThanWellFounded
  <2>4. k \in 1..n /\ ~Good(k)
    BY <2>3
  <2>5. k \in Nat /\ k >= 1 /\ k <= n
    BY <1>2, <2>4
  <2>6. CASE k = 1
    <3>1. g[1] = seqs[1] /\ 1 \in 1..n
      BY <1>1, <2>4, <2>6 DEF FlatTo, FlatFrom
    <3>2. \A i : i \in 1..1 <=> i = 1
      OBVIOUS
    <3>3. SquaresOfAll(seqs, 1) = SquaresOf(seqs[1])
      BY <3>2 DEF SquaresOfAll
    <3>4. QED
      BY <1>2, <2>4, <2>6, <3>1, <3>3 DEF ApartAreas
  <2>7. CASE k # 1
    <3>1. k - 1 \in 1..n /\ k - 1 < k /\ k - 1 \in Nat
      BY <1>2, <2>5, <2>7
    <3>2. k - 1 \notin N
      BY <2>3, <2>5, <3>1 DEF OpToRel
    <3>3. Good(k - 1)
      BY <3>1, <3>2
    <3>4. g[k] = g[k - 1] \o seqs[k]
      BY <1>1, <2>4, <2>7 DEF FlatTo, FlatFrom
    <3>5. \A i : i \in 1..k <=> i \in 1..(k - 1) \/ i = k
      BY <2>5, <2>7
    <3>6. \A i \in 1..(k - 1) : i \in 1..n /\ i # k
      BY <1>2, <2>5
    <3>7. SquaresOfAll(seqs, k) = SquaresOfAll(seqs, k - 1) \cup SquaresOf(seqs[k])
      BY <3>5 DEF SquaresOfAll
    <3>8. SquaresOfAll(seqs, k - 1) \cap SquaresOf(seqs[k]) = {}
      <4>1. \A i \in 1..(k - 1) : SquaresOf(seqs[i]) \cap SquaresOf(seqs[k]) = {}
        BY <1>2, <2>4, <3>6 DEF ApartAreas
      <4>2. QED
        BY <4>1, Zenon DEF SquaresOfAll
    <3>9. IsArea(seqs[k])
      BY <1>2, <2>4 DEF ApartAreas
    <3>10. IsArea(g[k]) /\ SquaresOf(g[k]) = SquaresOf(g[k - 1]) \cup SquaresOf(seqs[k])
      BY <3>3, <3>4, <3>8, <3>9, ConcatOfAreas
    <3>11. QED
      BY <2>4, <3>3, <3>7, <3>10
  <2>8. QED
    BY <2>6, <2>7
<1>4. n \in 1..n
  BY <1>2
<1>5. Good(n)
  BY <1>3, <1>4
<1>6. QED
  BY <1>1, <1>5 DEF n

\* One rectangle cut out of an area.
CutOut(current, b) == FlattenSeq([i \in 1..Len(current) |-> Subtract(current[i], b)])

(* It leaves the difference.                                               *)
LEMMA CutOutIs ==
  ASSUME NEW p, IsArea(p), NEW b \in Rectangles
  PROVE  IsArea(CutOut(p, b)) /\ SquaresOf(CutOut(p, b)) = SquaresOf(p) \ Squares(b)
<1> DEFINE n == Len(p)
           seqs == [i \in 1..n |-> Subtract(p[i], b)]
<1>1. p \in Seq(Rectangles) /\ n \in Nat /\ \A i \in 1..n : p[i] \in Rectangles
  BY LenProperties DEF IsArea
<1>2. \A i, j \in 1..n : i # j => Squares(p[i]) \cap Squares(p[j]) = {}
  BY DEF IsArea
<1>3. \A i \in 1..n : Chop(Subtract(p[i], b), Squares(p[i]) \ Squares(b))
  BY <1>1, SubtractIs
<1>4. SquaresOf(p) = UNION {Squares(p[i]) : i \in 1..n}
  BY DEF SquaresOf
<1>5. seqs \in Seq(Seq(Rectangles)) /\ Len(seqs) = n
  <2>1. \A i \in 1..n : Subtract(p[i], b) \in Seq(Rectangles)
    BY <1>3 DEF Chop, IsArea
  <2> HIDE DEF n
  <2>2. QED
    BY <1>1, <2>1
<1>6. CutOut(p, b) = FlattenSeq(seqs)
  BY DEF CutOut
<1>7. \A i \in 1..n : seqs[i] = Subtract(p[i], b)
  OBVIOUS
<1> HIDE DEF seqs, n
<1>8. CASE n = 0
  <2>1. seqs = <<>>
    BY <1>5, <1>8, EmptySeq
  <2>2. CutOut(p, b) = <<>>
    BY <1>5, <1>6, <1>8, <2>1 DEF FlattenSeq
  <2>3. \A i : ~(i \in 1..n)
    BY <1>8
  <2>4. SquaresOf(p) = {}
    BY <1>4, <2>3
  <2>5. QED
    BY <2>2, <2>4, SmallAreas
<1>9. CASE n # 0
  <2>1. \A i \in 1..n : IsArea(seqs[i]) /\ SquaresOf(seqs[i]) = Squares(p[i]) \ Squares(b)
    BY <1>3, <1>7 DEF Chop
  <2>2. ApartAreas(seqs, n)
    BY <1>2, <2>1 DEF ApartAreas
  <2>3. SquaresOfAll(seqs, n) = SquaresOf(p) \ Squares(b)
    <3>1. ASSUME NEW q \in SquaresOfAll(seqs, n) PROVE q \in SquaresOf(p) \ Squares(b)
      <4>1. PICK i \in 1..n : q \in SquaresOf(seqs[i])
        BY <3>1 DEF SquaresOfAll
      <4>2. QED
        BY <1>4, <2>1, <4>1
    <3>2. ASSUME NEW q \in SquaresOf(p) \ Squares(b) PROVE q \in SquaresOfAll(seqs, n)
      <4>1. PICK i \in 1..n : q \in Squares(p[i])
        BY <1>4, <3>2
      <4>2. QED
        BY <2>1, <3>2, <4>1 DEF SquaresOfAll
    <3>3. QED
      BY <3>1, <3>2
  <2>4. Len(seqs) \in Nat \ {0}
    BY <1>1, <1>5, <1>9
  <2>5. QED
    BY <1>5, <1>6, <2>2, <2>3, <2>4, FlattenAreas
<1>10. QED
  BY <1>8, <1>9

RestFrom(g, area, holes, s) == IF s = {} THEN area ELSE CutOut(g[s \ {Max(s)}], holes[Max(s)])
RestTo(g, area, holes, n) == \A s \in SUBSET (1..n) : g[s] = RestFrom(g, area, holes, s)

(* The last of some indices, and what is before it.                        *)
LEMMA LastIndex ==
  ASSUME NEW n \in Nat, NEW s \in SUBSET (1..n), s # {}
  PROVE  Max(s) \in s /\ \A i \in s : i <= Max(s)
<1> DEFINE N == {n - i : i \in s}
<1>1. N \subseteq Nat /\ N # {}
  OBVIOUS
<1>2. PICK k \in N : \A m \in N : ~(<<m, k>> \in OpToRel(<, Nat))
  BY <1>1, WFMin, NatLessThanWellFounded
<1>3. PICK j \in s : k = n - j
  BY <1>2
<1>4. \A i \in s : i \in 1..n /\ n - i \in N /\ n - i \in Nat /\ k \in Nat
  BY <1>1, <1>2
<1>5. \A i \in s : ~(n - i < k)
  BY <1>2, <1>4 DEF OpToRel
<1>6. \A i \in s : j >= i
  BY <1>3, <1>4, <1>5
<1>7. Max(s) \in s /\ \A i \in s : Max(s) >= i
  BY <1>6 DEF Max
<1>8. QED
  BY <1>4, <1>7

(* The recursion of FoldLeft.                                              *)
LEMMA FoldIs ==
  ASSUME NEW area, NEW holes \in Seq(Rectangles)
  PROVE  \E g : RestTo(g, area, holes, Len(holes)) /\ AreaBySubtractingArea(area, holes) = g[1..Len(holes)]
<1> DEFINE n == Len(holes)
           N == {k \in Nat : ~ \E g : RestTo(g, area, holes, k)}
<1>1. n \in Nat /\ DOMAIN holes = 1..n
  BY LenProperties
<1>2. AreaBySubtractingArea(area, holes) =
        (CHOOSE g : g = [s \in SUBSET DOMAIN holes |-> RestFrom(g, area, holes, s)])[DOMAIN holes]
  BY DEF AreaBySubtractingArea, FoldLeft, MapThenFoldSet, RestFrom, CutOut
<1> HIDE DEF n
<1>3. N = {}
  <2>1. SUFFICES ASSUME N # {} PROVE FALSE
    OBVIOUS
  <2>2. N \subseteq Nat
    OBVIOUS
  <2>3. PICK k \in N : \A m \in N : ~(<<m, k>> \in OpToRel(<, Nat))
    BY <2>1, <2>2, WFMin, NatLessThanWellFounded
  <2>4. k \in Nat /\ ~ \E g : RestTo(g, area, holes, k)
    BY <2>3
  <2>5. CASE k = 0
    <3> DEFINE g == [s \in SUBSET (1..k) |-> area]
    <3>1. \A s \in SUBSET (1..k) : s = {}
      BY <2>5
    <3>2. \A s \in SUBSET (1..k) : g[s] = area
      OBVIOUS
    <3> HIDE DEF g
    <3>3. RestTo(g, area, holes, k)
      BY <3>1, <3>2 DEF RestTo, RestFrom
    <3>4. QED
      BY <2>4, <3>3
  <2>6. CASE k # 0
    <3>1. k - 1 \in Nat /\ k - 1 < k
      BY <2>4, <2>6
    <3>2. k - 1 \notin N
      BY <2>3, <2>4, <3>1 DEF OpToRel
    <3>3. PICK g : RestTo(g, area, holes, k - 1)
      BY <3>1, <3>2
    <3> DEFINE f == [s \in SUBSET (1..k) |-> RestFrom(g, area, holes, s)]
    <3>4. \A s \in SUBSET (1..k) : f[s] = RestFrom(g, area, holes, s)
      OBVIOUS
    <3>5. \A s \in SUBSET (1..(k - 1)) : s \in SUBSET (1..k)
      BY <2>4
    <3> HIDE DEF f
    <3>6. \A s \in SUBSET (1..(k - 1)) : f[s] = g[s]
      BY <3>3, <3>4, <3>5 DEF RestTo
    <3>7. ASSUME NEW s \in SUBSET (1..k) PROVE f[s] = RestFrom(f, area, holes, s)
      <4>1. CASE s = {}
        BY <3>4, <4>1 DEF RestFrom
      <4>2. CASE s # {}
        <5>1. Max(s) \in s /\ \A i \in s : i <= Max(s)
          BY <2>4, <4>2, LastIndex
        <5>2. PICK m \in 1..k : m = Max(s)
          BY <5>1
        <5>3. ASSUME NEW i \in s \ {m} PROVE i \in 1..(k - 1)
          <6>1. i \in 1..k /\ i <= m /\ i # m
            BY <5>1, <5>2, <5>3
          <6>2. QED
            BY <2>4, <6>1
        <5>4. s \ {Max(s)} \in SUBSET (1..(k - 1))
          BY <5>2, <5>3
        <5>5. f[s \ {Max(s)}] = g[s \ {Max(s)}]
          BY <3>6, <5>4
        <5>6. QED
          BY <3>4, <4>2, <5>5 DEF RestFrom
      <4>3. QED
        BY <4>1, <4>2
    <3>8. RestTo(f, area, holes, k)
      BY <3>7 DEF RestTo
    <3>9. QED
      BY <2>4, <3>8
  <2>7. QED
    BY <2>5, <2>6
<1>4. PICK g : RestTo(g, area, holes, n)
  <2>1. n \in Nat /\ n \notin N
    BY <1>1, <1>3
  <2>2. QED
    BY <2>1
<1> DEFINE f == [s \in SUBSET (1..n) |-> g[s]]
<1>5. f = [s \in SUBSET (1..n) |-> g[s]]
  OBVIOUS
<1>6. \A s \in SUBSET (1..n) : f[s] = g[s]
  OBVIOUS
<1> HIDE DEF f
<1>7. ASSUME NEW s \in SUBSET (1..n) PROVE g[s] = RestFrom(f, area, holes, s)
  <2>1. f[s \ {Max(s)}] = g[s \ {Max(s)}]
    BY <1>6
  <2>2. g[s] = RestFrom(g, area, holes, s)
    BY <1>4 DEF RestTo
  <2>3. QED
    BY <2>1, <2>2 DEF RestFrom
<1>8. f = [s \in SUBSET DOMAIN holes |-> RestFrom(f, area, holes, s)]
  BY <1>1, <1>5, <1>7
<1> DEFINE left == CHOOSE h : h = [s \in SUBSET DOMAIN holes |-> RestFrom(h, area, holes, s)]
<1>9. left = [s \in SUBSET DOMAIN holes |-> RestFrom(left, area, holes, s)]
  BY <1>8
<1>10. AreaBySubtractingArea(area, holes) = left[1..n]
  BY <1>1, <1>2
<1> HIDE DEF left
<1>11. RestTo(left, area, holes, n)
  <2>1. \A s \in SUBSET (1..n) : left[s] = RestFrom(left, area, holes, s)
    BY <1>1, <1>9
  <2>2. QED
    BY <2>1 DEF RestTo
<1>12. QED
  BY <1>10, <1>11 DEF n

(* Rectangles cut out of an area one by one leave the difference, in       *)
(* pieces that do not overlap.                                             *)
LEMMA AreaBySubtractingAreaIs ==
  ASSUME NEW area, IsArea(area), NEW holes \in Seq(Rectangles)
  PROVE  /\ IsArea(AreaBySubtractingArea(area, holes))
         /\ SquaresOf(AreaBySubtractingArea(area, holes)) = SquaresOf(area) \ SquaresOf(holes)
<1> DEFINE n == Len(holes)
           CutTo(k) == UNION {Squares(holes[i]) : i \in 1..k}
<1>1. PICK g : RestTo(g, area, holes, n) /\ AreaBySubtractingArea(area, holes) = g[1..n]
  BY FoldIs
<1>2. n \in Nat /\ \A i \in 1..n : holes[i] \in Rectangles
  BY LenProperties
<1>3. SquaresOf(holes) = CutTo(n)
  BY DEF SquaresOf
<1> HIDE DEF n
<1> DEFINE Good(k) == IsArea(g[1..k]) /\ SquaresOf(g[1..k]) = SquaresOf(area) \ CutTo(k)
           N == {k \in 0..n : ~Good(k)}
<1>4. N = {}
  <2>1. SUFFICES ASSUME N # {} PROVE FALSE
    OBVIOUS
  <2>2. N \subseteq Nat
    OBVIOUS
  <2>3. PICK k \in N : \A m \in N : ~(<<m, k>> \in OpToRel(<, Nat))
    BY <2>1, <2>2, WFMin, NatLessThanWellFounded
  <2>4. k \in 0..n /\ ~Good(k)
    BY <2>3
  <2>5. k \in Nat /\ k <= n
    BY <1>2, <2>4
  <2>6. 1..k \in SUBSET (1..n)
    BY <1>2, <2>5
  <2>7. g[1..k] = RestFrom(g, area, holes, 1..k)
    BY <1>1, <2>6 DEF RestTo
  <2>8. CASE k = 0
    <3>1. 1..k = {}
      BY <2>8
    <3>2. g[1..k] = area
      BY <2>7, <3>1 DEF RestFrom
    <3>3. CutTo(k) = {}
      BY <3>1
    <3> HIDE DEF CutTo
    <3>4. QED
      BY <2>4, <3>2, <3>3
  <2>9. CASE k # 0
    <3>1. k - 1 \in Nat /\ k - 1 \in 0..n /\ k - 1 < k /\ k \in 1..k /\ k \in 1..n /\ 1..k # {}
      <4>1. n \in Nat /\ k \in Nat /\ k <= n /\ k # 0
        BY <1>2, <2>5, <2>9
      <4>2. k - 1 \in Nat /\ k - 1 < k
        BY <4>1
      <4>3. k - 1 \in 0..n /\ k \in 1..n
        BY <4>1
      <4>4. k \in 1..k
        BY <4>1
      <4>5. QED
        BY <4>2, <4>3, <4>4
    <3>2. k - 1 \notin N
      BY <2>3, <2>5, <3>1 DEF OpToRel
    <3>3. Good(k - 1)
      BY <3>1, <3>2
    <3>4. Max(1..k) = k
      <4>1. 1..k \in SUBSET (1..k)
        OBVIOUS
      <4>2. Max(1..k) \in 1..k /\ \A i \in 1..k : i <= Max(1..k)
        BY <2>5, <3>1, <4>1, LastIndex
      <4>3. QED
        BY <2>5, <3>1, <4>2
    <3>5. (1..k) \ {k} = 1..(k - 1)
      BY <2>5, <2>9
    <3>6. g[1..k] = CutOut(g[1..(k - 1)], holes[k])
      BY <2>7, <3>1, <3>4, <3>5 DEF RestFrom
    <3>7. holes[k] \in Rectangles
      BY <1>2, <3>1
    <3>8. /\ IsArea(g[1..k])
          /\ SquaresOf(g[1..k]) = (SquaresOf(area) \ CutTo(k - 1)) \ Squares(holes[k])
      BY <3>3, <3>6, <3>7, CutOutIs
    <3>9. \A i : i \in 1..k <=> i \in 1..(k - 1) \/ i = k
      BY <2>5, <2>9
    <3>10. CutTo(k) = CutTo(k - 1) \cup Squares(holes[k])
      BY <3>9
    <3> HIDE DEF CutTo
    <3>11. QED
      BY <2>4, <3>8, <3>10
  <2>10. QED
    BY <2>8, <2>9
<1>5. Good(n)
  <2>1. n \in 0..n
    BY <1>2
  <2>2. n \notin N
    BY <1>4
  <2>3. QED
    BY <2>1, <2>2
<1>6. QED
  BY <1>1, <1>3, <1>5

(* The bench's question about areas.                                       *)
LEMMA RestIs ==
  ASSUME rect \in Rectangles, other \in Seq(Rectangles), rest = AreaBySubtractingArea(<<rect>>, other)
  PROVE  RestIsDifference
<1>1. IsArea(<<rect>>) /\ SquaresOf(<<rect>>) = Squares(rect)
  BY SmallAreas
<1>2. IsArea(rest) /\ SquaresOf(rest) = Squares(rect) \ SquaresOf(other)
  BY <1>1, AreaBySubtractingAreaIs
<1>3. QED
  BY <1>2 DEF RestIsDifference, IsArea, SquaresOf

-----------------------------------------------------------------------------
(* The theorems.                                                           *)

\* What has been asked, and the answers.
Answered ==
  /\ rect \in Rectangles /\ overspill \in Nat /\ overspill >= Unit /\ other \in Seq(Rectangles)
  /\ found = TilesFromRect(rect, overspill) /\ rest = AreaBySubtractingArea(<<rect>>, other)

(* Nothing cut out leaves all.                                             *)
LEMMA NothingCutOut ==
  ASSUME NEW area
  PROVE  AreaBySubtractingArea(area, <<>>) = area
<1>1. <<>> \in Seq(Rectangles) /\ Len(<<>>) = 0 /\ 1..0 = {}
  OBVIOUS
<1>2. PICK g : RestTo(g, area, <<>>, 0) /\ AreaBySubtractingArea(area, <<>>) = g[1..0]
  BY <1>1, FoldIs
<1>3. {} \in SUBSET (1..0)
  OBVIOUS
<1>4. g[{}] = RestFrom(g, area, <<>>, {})
  BY <1>2, <1>3 DEF RestTo
<1>5. QED
  BY <1>1, <1>2, <1>4 DEF RestFrom

(* Every question is answered as the algorithms do.                        *)
LEMMA AnsweredInvariance == QuerySpec => []Answered
<1>1. Unit \in Nat /\ Unit >= Unit
  BY TileGeometryAssumption
<1>2. <<>> \in Seq(Rectangles) /\ Rect(0, 0, 0, 0) \in Rectangles
  BY DEF Rect, Rectangles
<1>3. QueryInit => Answered
  BY <1>1, <1>2, NothingCutOut DEF QueryInit, NothingAsked, Answered
<1>4. Answered /\ [QueryNext]_queryVars => Answered'
  <2>1. SUFFICES ASSUME Answered, [QueryNext]_queryVars PROVE Answered'
    OBVIOUS
  <2>2. ASSUME NEW r \in Questions, NEW o \in Overspills, AskTiles(r, o) PROVE Answered'
    BY <1>2, <2>2, NothingCutOut, AreaQueriesAssumption DEF AskTiles, Answered
  <2>3. ASSUME NEW r \in Questions, NEW holes \in Holes, AskRest(r, holes) PROVE Answered'
    BY <1>1, <2>3, AreaQueriesAssumption DEF AskRest, Answered
  <2>4. CASE UNCHANGED queryVars
    BY <2>1, <2>4 DEF queryVars, Answered
  <2>5. QED
    BY <2>1, <2>2, <2>3, <2>4 DEF QueryNext
<1>5. QED
  BY <1>3, <1>4, PTL DEF QuerySpec

(* The tiles of a rectangle are the largest that fit, each once, and cover *)
(* all of it: for worlds of any depth, any rectangle and any outset that   *)
(* is not smaller than the finest tile.                                    *)
THEOREM SpecTilesCover == QuerySpec => []TilesCover
<1>1. Answered => TilesCover
  BY FoundCovers DEF Answered
<1>2. QED
  BY <1>1, AnsweredInvariance, PTL

(* What is left of a rectangle, whatever is cut out of it, is exactly the  *)
(* difference, and no part of it is there twice.                           *)
THEOREM SpecRestIsDifference == QuerySpec => []RestIsDifference
<1>1. Answered => RestIsDifference
  BY RestIs DEF Answered
<1>2. QED
  BY <1>1, AnsweredInvariance, PTL

-----------------------------------------------------------------------------
(* More on tiles and their cells.                                          *)

(* Every tile has cells.                                                   *)
LEMMA TilesHaveCells ==
  ASSUME NEW t \in Tiles
  PROVE  Cells[t] # {} /\ Cells[t] \subseteq TilesOfZoom(MaxZoom)
<1>1. Cells[t] \subseteq TilesOfZoom(MaxZoom)
  BY DEF Cells
<1>2. West(t) \in Int /\ South(t) \in Int /\ IsIn(West(t), South(t), t)
  BY TileIs DEF IsIn
<1>3. IsIn(West(t), South(t), World)
  <2>1. Below(t, World) /\ World \in Tiles
    BY WorldIsAll
  <2>2. \A u \in Tiles : West(u) \in Int /\ East(u) \in Int /\ South(u) \in Int /\ North(u) \in Int
    BY TileIs
  <2>3. QED
    BY <1>2, <2>1, <2>2 DEF Below, IsIn
<1> DEFINE c == [x |-> West(t), y |-> South(t), zoom |-> MaxZoom]
<1>4. c \in TilesOfZoom(MaxZoom) /\ c.x = West(t) /\ c.y = South(t)
  BY <1>2, <1>3, CellIs
<1>5. c \in Cells[t]
  BY <1>2, <1>4, CellsAre
<1>6. QED
  BY <1>1, <1>5

(* Two tiles with a cell in common lie one in the other.                   *)
LEMMA CellsCompare ==
  ASSUME NEW s \in Tiles, NEW t \in Tiles, Cells[s] \cap Cells[t] # {}
  PROVE  Below(s, t) \/ Below(t, s)
<1>1. s.zoom \in Int /\ t.zoom \in Int
  BY TileIs
<1>2. t.zoom <= s.zoom \/ s.zoom <= t.zoom
  BY <1>1
<1>3. CASE t.zoom <= s.zoom
  BY <1>3, CellsBelow
<1>4. CASE s.zoom <= t.zoom
  BY <1>4, CellsBelow
<1>5. QED
  BY <1>2, <1>3, <1>4

(* One tile lies in another one exactly where its cells do.                *)
LEMMA CellsOrder ==
  ASSUME NEW s \in Tiles, NEW t \in Tiles
  PROVE  Cells[s] \subseteq Cells[t] <=> Below(s, t)
<1>1. s.zoom \in Int /\ t.zoom \in Int /\ t.zoom \in 0..MaxZoom /\ MaxZoom \in Nat
  BY TileIs
<1>2. CASE t.zoom <= s.zoom
  BY <1>2, CellsBelow
<1>3. CASE s.zoom < t.zoom
  <2>1. ~Below(s, t)
    BY <1>1, <1>3 DEF Below
  <2>2. ASSUME Cells[s] \subseteq Cells[t] PROVE FALSE
    <3>1. Below(t, s)
      <4>1. Cells[s] # {}
        BY TilesHaveCells
      <4>2. Below(s, t) \/ Below(t, s)
        BY <2>2, <4>1, CellsCompare
      <4>3. QED
        BY <2>1, <4>2
    <3>2. s.zoom < MaxZoom
      BY <1>1, <1>3
    <3>3. PICK i \in 1..4 : Below(t, Quarter(s, i))
      BY <1>3, <3>1, <3>2, QuartersPart
    <3>4. PICK j \in 1..4 : j # i
      <4>1. 1 \in 1..4 /\ 2 \in 1..4 /\ 1 # 2
        OBVIOUS
      <4>2. QED
        BY <4>1
    <3>5. Quarter(s, i) \in Tiles /\ Quarter(s, j) \in Tiles /\ Below(Quarter(s, j), s)
      BY <3>2, QuarterIs
    <3>6. PICK c \in Cells[Quarter(s, j)] : c \in TilesOfZoom(MaxZoom)
      BY <3>5, TilesHaveCells
    <3>7. c \in Tiles /\ Below(c, Quarter(s, j))
      BY <3>5, <3>6, CellIs, CellsAre
    <3>8. Below(c, s)
      BY <3>5, <3>7, BelowIsOrder
    <3>9. c \in Cells[t]
      BY <2>2, <3>6, <3>8, CellsAre
    <3>10. Below(c, Quarter(s, i))
      BY <3>3, <3>5, <3>6, <3>7, <3>9, CellsAre, BelowIsOrder
    <3>11. QED
      BY <3>2, <3>4, <3>7, <3>10, QuartersApart
  <2>3. QED
    BY <2>1, <2>2
<1>4. QED
  BY <1>1, <1>2, <1>3

(* The cells of a tile are those of its quarters.                          *)
LEMMA CellsOfQuarters ==
  ASSUME NEW t \in Tiles, t.zoom < MaxZoom
  PROVE  Cells[t] = UNION {Cells[Quarter(t, i)] : i \in 1..4}
<1>1. \A i \in 1..4 : Quarter(t, i) \in Tiles /\ Below(Quarter(t, i), t)
  BY QuarterIs
<1>2. \A i \in 1..4 : Cells[Quarter(t, i)] \subseteq Cells[t]
  BY <1>1, CellsOrder
<1>3. ASSUME NEW c \in Cells[t] PROVE \E i \in 1..4 : c \in Cells[Quarter(t, i)]
  <2>1. c \in TilesOfZoom(MaxZoom) /\ c \in Tiles /\ c.zoom = MaxZoom
    BY TilesHaveCells, CellIs
  <2>2. Below(c, t)
    BY <2>1, CellsAre
  <2>3. PICK i \in 1..4 : Below(c, Quarter(t, i))
    BY <2>1, <2>2, QuartersPart
  <2>4. QED
    BY <1>1, <2>1, <2>3, CellsAre
<1>4. QED
  BY <1>2, <1>3

(* A tile is at most as fine as one that lies in it, and no other tile     *)
(* lies both ways.                                                         *)
LEMMA BelowIsFiner ==
  ASSUME NEW s \in Tiles, NEW t \in Tiles, Below(s, t)
  PROVE  t.zoom <= s.zoom /\ (Below(t, s) => s = t) /\ (s # t => t.zoom < s.zoom)
<1>1. s.zoom \in Int /\ t.zoom \in Int
  BY TileIs
<1>2. t.zoom <= s.zoom
  BY DEF Below
<1>3. s # t => s.zoom # t.zoom
  BY BelowIsOrder
<1>4. Below(t, s) => s.zoom = t.zoom
  BY <1>1, <1>2 DEF Below
<1>5. QED
  BY <1>1, <1>2, <1>3, <1>4

-----------------------------------------------------------------------------
(* The way down the tree.                                                  *)

(* Where a column lies among columns k times as wide.                      *)
LEMMA ColumnOf ==
  ASSUME NEW a \in Int, NEW b \in Int, NEW k \in Nat \ {0}, NEW w \in Nat \ {0},
         b * (k * w) <= a * w, (a + 1) * w <= (b + 1) * (k * w)
  PROVE  a \div k = b
<1>1. PICK m \in Int : m = b * k
  OBVIOUS
<1>2. b * (k * w) = m * w /\ (b + 1) * (k * w) = (m + k) * w /\ (b + 1) * k = m + k
  BY <1>1
<1>3. m <= a
  <2>1. ASSUME a < m PROVE FALSE
    <3>1. PICK d \in Nat : m = a + 1 + d
      BY <2>1
    <3>2. m * w = a * w + w + d * w /\ d * w \in Nat /\ a * w \in Int
      BY <3>1
    <3>3. QED
      BY <1>2, <3>2
  <2>2. QED
    BY <2>1
<1>4. a < m + k
  <2>1. ASSUME m + k <= a PROVE FALSE
    <3>1. PICK d \in Nat : a = m + k + d
      BY <2>1
    <3>2. (a + 1) * w = (m + k) * w + d * w + w /\ d * w \in Nat /\ (m + k) * w \in Int
      BY <3>1
    <3>3. QED
      BY <1>2, <3>2
  <2>2. QED
    BY <2>1
<1>5. QED
  BY <1>1, <1>2, <1>3, <1>4, QuotientIs

(* indexForChild: finds the quarter that the tile lies in.                 *)
LEMMA IndexIs ==
  ASSUME NEW t \in Tiles, NEW tile \in Tiles, Below(tile, t), t.zoom < tile.zoom
  PROVE  /\ IndexForChild(t, tile) \in 1..4
         /\ Below(tile, Quarter(t, IndexForChild(t, tile)))
<1>1. /\ MaxZoom \in Nat /\ t.zoom \in 0..MaxZoom /\ tile.zoom \in 0..MaxZoom /\ t.zoom < MaxZoom
  BY TileIs
<1>2. PICK i \in 1..4 : Below(tile, Quarter(t, i))
  BY <1>1, QuartersPart
<1> DEFINE q == Quarter(t, i)
           shift == tile.zoom - t.zoom - 1
<1>3. q \in Tiles /\ q.zoom = t.zoom + 1
  BY <1>1, QuarterIs
<1>4. q.x = t.x * 2 + ((i - 1) % 2) /\ q.y = t.y * 2 + ((i - 1) \div 2)
  BY DEF Quarter
<1> HIDE DEF q
<1>5. shift \in 0..MaxZoom /\ MaxZoom - tile.zoom \in 0..MaxZoom /\ shift + (MaxZoom - tile.zoom) = MaxZoom - q.zoom
      /\ shift + (MaxZoom - tile.zoom) <= MaxZoom
  BY <1>1, <1>3
<1>6. PICK k \in Nat \ {0} : k = 2^shift
  BY <1>5, PowerAssumption
<1>7. PICK w \in Nat \ {0} : w = Side(tile)
  BY TileIs
<1>8. Side(q) = k * w
  BY <1>5, <1>6, <1>7, PowerAssumption DEF Side
<1>9. t.x \in Int /\ t.y \in Int /\ tile.x \in Int /\ tile.y \in Int /\ q.x \in Int /\ q.y \in Int
  <2>1. ASSUME NEW u \in Tiles PROVE u.x \in Int /\ u.y \in Int
    <3>1. MaxZoom \in Nat /\ u.zoom \in 0..MaxZoom
      BY TileIs
    <3>2. 2^u.zoom \in Nat
      BY <3>1, PowerAssumption
    <3>3. QED
      BY <3>2, TileIs
  <2>2. QED
    BY <1>3, <2>1
<1>10. Below(tile, q)
  BY <1>2 DEF q
<1>11. /\ q.x * (k * w) <= tile.x * w /\ (tile.x + 1) * w <= (q.x + 1) * (k * w)
       /\ q.y * (k * w) <= tile.y * w /\ (tile.y + 1) * w <= (q.y + 1) * (k * w)
  BY <1>7, <1>8, <1>10 DEF Below, West, East, South, North
<1>12. tile.x \div k = q.x /\ tile.y \div k = q.y
  BY <1>9, <1>11, ColumnOf
<1>13. PICK a \in 0..1, b \in 0..1 : a = (i - 1) % 2 /\ b = (i - 1) \div 2 /\ b * 2 + a + 1 = i
  OBVIOUS
<1>14. (t.x * 2 + a) % 2 = a /\ (t.y * 2 + b) % 2 = b
  BY <1>9
<1>15. IndexForChild(t, tile) = i
  BY <1>4, <1>6, <1>12, <1>13, <1>14 DEF IndexForChild
<1>16. QED
  BY <1>2, <1>15

\* A step of the way down.
PathFrom(g, tile, z) == IF z = 0 THEN World ELSE Quarter(g[z - 1], IndexForChild(g[z - 1], tile))

\* g is the way down to zoom n.
PathTo(g, tile, n) == \A z \in 0..n : g[z] = PathFrom(g, tile, z)

(* The recursion of the way down.                                          *)
LEMMA PathExists ==
  ASSUME NEW tile \in Tiles
  PROVE  PathTo(Path(tile), tile, tile.zoom)
<1>1. tile.zoom \in Nat
  <2>1. MaxZoom \in Nat /\ tile.zoom \in 0..MaxZoom
    BY TileIs
  <2>2. QED
    BY <2>1
<1> DEFINE n == tile.zoom
           N == {k \in Nat : ~ \E g : PathTo(g, tile, k)}
<1> HIDE DEF n
<1>2. N = {}
  <2>1. SUFFICES ASSUME N # {} PROVE FALSE
    OBVIOUS
  <2>2. N \subseteq Nat
    OBVIOUS
  <2>3. PICK k \in N : \A m \in N : ~(<<m, k>> \in OpToRel(<, Nat))
    BY <2>1, <2>2, WFMin, NatLessThanWellFounded
  <2>4. k \in Nat /\ ~ \E g : PathTo(g, tile, k)
    BY <2>3
  <2>5. CASE k = 0
    <3> DEFINE g == [z \in 0..0 |-> World]
    <3>1. \A z \in 0..0 : z = 0 /\ g[z] = World
      OBVIOUS
    <3> HIDE DEF g
    <3>2. PathTo(g, tile, 0)
      BY <3>1 DEF PathTo, PathFrom
    <3>3. QED
      BY <2>4, <2>5, <3>2
  <2>6. CASE k # 0
    <3>1. k - 1 \in Nat /\ k - 1 < k
      BY <2>4, <2>6
    <3>2. k - 1 \notin N
      BY <2>3, <2>4, <3>1 DEF OpToRel
    <3>3. PICK g : PathTo(g, tile, k - 1)
      BY <3>1, <3>2
    <3> DEFINE f == [z \in 0..k |-> PathFrom(g, tile, z)]
    <3>4. \A z \in 0..k : f[z] = PathFrom(g, tile, z)
      OBVIOUS
    <3> HIDE DEF f
    <3>5. ASSUME NEW z \in 0..(k - 1) PROVE f[z] = g[z]
      <4>1. z \in 0..k
        BY <2>4
      <4>2. QED
        BY <3>3, <3>4, <4>1 DEF PathTo
    <3>6. ASSUME NEW z \in 0..k PROVE f[z] = PathFrom(f, tile, z)
      <4>1. CASE z = 0
        BY <3>4, <4>1 DEF PathFrom
      <4>2. CASE z # 0
        <5>1. z - 1 \in 0..(k - 1)
          BY <2>4, <4>2
        <5>2. f[z - 1] = g[z - 1]
          BY <3>5, <5>1
        <5>3. QED
          BY <3>4, <5>2 DEF PathFrom
      <4>3. QED
        BY <4>1, <4>2
    <3>7. PathTo(f, tile, k)
      BY <3>6 DEF PathTo
    <3>8. QED
      BY <2>4, <3>7
  <2>7. QED
    BY <2>5, <2>6
<1>3. PICK g : PathTo(g, tile, n)
  <2>1. n \in Nat /\ n \notin N
    BY <1>1, <1>2 DEF n
  <2>2. QED
    BY <2>1
<1> DEFINE f == [z \in 0..n |-> g[z]]
<1>4. f = [z \in 0..n |-> g[z]] /\ \A z \in 0..n : f[z] = g[z]
  OBVIOUS
<1> HIDE DEF f
<1>5. ASSUME NEW z \in 0..n PROVE g[z] = PathFrom(f, tile, z)
  <2>1. g[z] = PathFrom(g, tile, z)
    BY <1>3 DEF PathTo
  <2>2. CASE z = 0
    BY <2>1, <2>2 DEF PathFrom
  <2>3. CASE z # 0
    <3>1. z - 1 \in 0..n
      BY <1>1, <2>3 DEF n
    <3>2. f[z - 1] = g[z - 1]
      BY <1>4, <3>1
    <3>3. QED
      BY <2>1, <3>2 DEF PathFrom
  <2>4. QED
    BY <2>2, <2>3
<1>6. f = [z \in 0..n |-> PathFrom(f, tile, z)]
  BY <1>4, <1>5
<1> DEFINE at == CHOOSE h : h = [z \in 0..n |-> PathFrom(h, tile, z)]
<1>7. at = [z \in 0..n |-> PathFrom(at, tile, z)]
  BY <1>6
<1>8. Path(tile) = at
  BY DEF Path, PathFrom, n
<1> HIDE DEF at
<1>9. \A z \in 0..n : at[z] = PathFrom(at, tile, z)
  BY <1>7
<1>10. QED
  BY <1>8, <1>9 DEF PathTo, n

\* at is the way from the world down to a tile.
WayTo(at, tile) ==
  /\ \A z \in 0..tile.zoom : at[z] \in Tiles /\ at[z].zoom = z /\ Below(tile, at[z])
  /\ \A z \in 0..tile.zoom : z > 0 => \E i \in 1..4 : at[z] = Quarter(at[z - 1], i)
  /\ at[0] = World /\ at[tile.zoom] = tile

(* The way down passes the tiles that the tile lies in.                    *)
LEMMA PathIs ==
  ASSUME NEW tile \in Tiles
  PROVE  WayTo(Path(tile), tile)
<1>1. MaxZoom \in Nat /\ tile.zoom \in 0..MaxZoom
  BY TileIs
<1> DEFINE at == Path(tile)
           n == tile.zoom
<1>2. \A z \in 0..n : at[z] = PathFrom(at, tile, z)
  BY PathExists DEF PathTo
<1> HIDE DEF at, n
<1> DEFINE Good(z) == at[z] \in Tiles /\ at[z].zoom = z /\ Below(tile, at[z])
<1>3. n \in Nat /\ n <= MaxZoom
  BY <1>1 DEF n
<1>4. at[0] = World
  BY <1>2, <1>3 DEF PathFrom
<1>5. ASSUME NEW z \in 0..n, z > 0, Good(z - 1)
      PROVE  Good(z) /\ \E i \in 1..4 : at[z] = Quarter(at[z - 1], i)
  <2>1. at[z - 1].zoom < tile.zoom /\ at[z - 1].zoom < MaxZoom /\ at[z - 1].zoom + 1 = z
    <3>1. z - 1 < n /\ z - 1 < MaxZoom /\ (z - 1) + 1 = z
      BY <1>1, <1>3, <1>5
    <3>2. at[z - 1].zoom = z - 1
      BY <1>5
    <3>3. QED
      BY <3>1, <3>2 DEF n
  <2>2. at[z] = Quarter(at[z - 1], IndexForChild(at[z - 1], tile))
    BY <1>2, <1>5 DEF PathFrom
  <2>3. PICK i \in 1..4 : i = IndexForChild(at[z - 1], tile) /\ Below(tile, Quarter(at[z - 1], i))
    BY <1>5, <2>1, IndexIs
  <2>4. at[z] \in Tiles /\ at[z].zoom = z
    BY <1>5, <2>1, <2>2, <2>3, QuarterIs
  <2>5. QED
    BY <2>2, <2>3, <2>4
<1> DEFINE N == {z \in 0..n : ~Good(z)}
<1>6. N = {}
  <2>1. SUFFICES ASSUME N # {} PROVE FALSE
    OBVIOUS
  <2>2. N \subseteq Nat
    OBVIOUS
  <2>3. PICK k \in N : \A m \in N : ~(<<m, k>> \in OpToRel(<, Nat))
    BY <2>1, <2>2, WFMin, NatLessThanWellFounded
  <2>4. k \in 0..n /\ ~Good(k)
    BY <2>3
  <2>5. k # 0
    <3>1. World \in Tiles /\ World.zoom = 0 /\ Below(tile, World)
      BY WorldIsAll DEF World
    <3>2. QED
      BY <1>4, <2>4, <3>1
  <2>6. k - 1 \in 0..n /\ k - 1 \in Nat /\ k - 1 < k /\ k > 0 /\ k \in Nat
    BY <1>3, <2>4, <2>5
  <2>7. k - 1 \notin N
    BY <2>3, <2>6 DEF OpToRel
  <2>8. Good(k - 1)
    BY <2>6, <2>7
  <2>9. QED
    BY <1>5, <2>4, <2>6, <2>8
<1>7. ASSUME NEW z \in 0..n PROVE Good(z)
  BY <1>6
<1> HIDE DEF N
<1>8. ASSUME NEW z \in 0..n, z > 0 PROVE \E i \in 1..4 : at[z] = Quarter(at[z - 1], i)
  <2>1. z - 1 \in 0..n
    BY <1>3, <1>8
  <2>2. QED
    BY <1>5, <1>7, <1>8, <2>1
<1>9. at[n] = tile
  <2>1. n \in 0..n
    BY <1>3
  <2>2. Good(n)
    BY <1>7, <2>1
  <2>3. QED
    BY <2>2, BelowIsFiner, <1>1 DEF n
<1>10. QED
  BY <1>4, <1>7, <1>8, <1>9 DEF WayTo, n, at

-----------------------------------------------------------------------------
(* Trees.                                                                  *)

\* A node that is no leaf has its quarters and is not included; a leaf has
\* nothing below it.
IsTree(tree) ==
  /\ DOMAIN tree \subseteq Tiles /\ World \in DOMAIN tree
  /\ \A t \in DOMAIN tree : tree[t] \in [leaf : BOOLEAN, included : BOOLEAN]
  /\ \A t \in DOMAIN tree : ~tree[t].leaf =>
       t.zoom < MaxZoom /\ ~tree[t].included /\ \A i \in 1..4 : Quarter(t, i) \in DOMAIN tree
  /\ \A s, t \in DOMAIN tree : tree[t].leaf /\ Below(s, t) => s = t

\* A node that is no leaf is needed as one: not all quarters are included,
\* and not all of them are untouched.
IsNeeded(tree, t) ==
  ~tree[t].leaf => /\ \E i \in 1..4 : ~tree[Quarter(t, i)].included
                   /\ \E i \in 1..4 : tree[Quarter(t, i)] # NewNode

IsReduced(tree) == IsTree(tree) /\ \A t \in DOMAIN tree : IsNeeded(tree, t)

\* The tree of the parts that a node takes the place of.
IsIncludedAt(p, tree, t) ==
  /\ IsTree(p) /\ CoveredBy(p) = CoveredBy(tree) \cup Cells[t]
  /\ t \in DOMAIN p /\ p[t] = [leaf |-> TRUE, included |-> TRUE]
  /\ \A s : s \in DOMAIN p <=> s \in DOMAIN tree /\ (s = t \/ ~Below(s, t))
  /\ \A s \in DOMAIN p : s # t => p[s] = tree[s]

(* A tree in which a node has taken the place of all that was below it.    *)
LEMMA IncludedIs ==
  ASSUME NEW tree, IsTree(tree), NEW t \in DOMAIN tree
  PROVE  IsIncludedAt(Included(tree, t), tree, t)
<1> DEFINE p == Included(tree, t)
           done == [leaf |-> TRUE, included |-> TRUE]
<1>1. DOMAIN tree \subseteq Tiles /\ t \in Tiles /\ World \in DOMAIN tree
  BY DEF IsTree
<1>2. ASSUME NEW s PROVE s \in DOMAIN p <=> s \in DOMAIN tree /\ (s = t \/ ~Below(s, t))
  BY <1>1, CellsOrder DEF Included
<1>3. p[t] = done /\ \A s \in DOMAIN p : s # t => p[s] = tree[s]
  BY DEF Included
<1>4. t \in DOMAIN p /\ DOMAIN p \subseteq DOMAIN tree
  BY <1>2
<1> HIDE DEF p
<1>5. done \in [leaf : BOOLEAN, included : BOOLEAN] /\ done.leaf /\ done.included
  OBVIOUS
<1>6. \A s \in DOMAIN p : p[s] \in [leaf : BOOLEAN, included : BOOLEAN]
  BY <1>3, <1>4, <1>5 DEF IsTree
<1>7. World \in DOMAIN p
  <2>1. Below(t, World) /\ World \in Tiles
    BY <1>1, WorldIsAll
  <2>2. Below(World, t) => World = t
    BY <1>1, <2>1, BelowIsFiner
  <2>3. QED
    BY <1>1, <1>2, <2>2
<1>8. ASSUME NEW u \in DOMAIN p, ~p[u].leaf
      PROVE  u.zoom < MaxZoom /\ ~p[u].included /\ \A i \in 1..4 : Quarter(u, i) \in DOMAIN p
  <2>1. u # t /\ p[u] = tree[u] /\ u \in DOMAIN tree /\ u \in Tiles /\ ~Below(u, t)
    BY <1>1, <1>2, <1>3, <1>5, <1>8
  <2>2. u.zoom < MaxZoom /\ ~p[u].included /\ \A i \in 1..4 : Quarter(u, i) \in DOMAIN tree
    BY <1>8, <2>1 DEF IsTree
  <2>3. ASSUME NEW i \in 1..4, Quarter(u, i) # t, Below(Quarter(u, i), t) PROVE FALSE
    <3>1. Quarter(u, i) \in Tiles /\ Below(Quarter(u, i), u) /\ Quarter(u, i).zoom = u.zoom + 1
      BY <2>1, <2>2, QuarterIs
    <3>2. u.zoom \in Int /\ t.zoom \in Int
      BY <1>1, <2>1, TileIs
    <3>3. t.zoom < u.zoom + 1
      BY <1>1, <2>3, <3>1, BelowIsFiner
    <3>4. Below(u, t)
      BY <1>1, <2>1, <2>3, <3>1, <3>2, <3>3, BelowIsOrder
    <3>5. QED
      BY <2>1, <3>4
  <2>4. QED
    BY <1>2, <2>2, <2>3
<1>9. ASSUME NEW s \in DOMAIN p, NEW u \in DOMAIN p, p[u].leaf, Below(s, u) PROVE s = u
  <2>1. CASE u = t
    BY <1>2, <1>9, <2>1
  <2>2. CASE u # t
    BY <1>3, <1>4, <1>9, <2>2 DEF IsTree
  <2>3. QED
    BY <2>1, <2>2
<1>10. IsTree(p)
  BY <1>1, <1>4, <1>6, <1>7, <1>8, <1>9 DEF IsTree
<1>11. CoveredBy(p) = CoveredBy(tree) \cup Cells[t]
  <2>1. ASSUME NEW c \in CoveredBy(p) PROVE c \in CoveredBy(tree) \cup Cells[t]
    <3>1. PICK s \in DOMAIN p : p[s].included /\ c \in Cells[s]
      BY DEF CoveredBy
    <3>2. CASE s = t
      BY <3>1, <3>2
    <3>3. CASE s # t
      BY <1>3, <1>4, <3>1, <3>3 DEF CoveredBy
    <3>4. QED
      BY <3>2, <3>3
  <2>2. ASSUME NEW c \in CoveredBy(tree) PROVE c \in CoveredBy(p) \cup Cells[t]
    <3>1. PICK s \in DOMAIN tree : tree[s].included /\ c \in Cells[s]
      BY DEF CoveredBy
    <3>2. CASE Below(s, t)
      BY <1>1, <3>1, <3>2, CellsOrder
    <3>3. CASE ~Below(s, t)
      <4>1. s \in DOMAIN p /\ s # t
        BY <1>1, <1>2, <3>3, BelowIsOrder
      <4>2. QED
        BY <1>3, <3>1, <4>1 DEF CoveredBy
    <3>4. QED
      BY <3>2, <3>3
  <2>3. ASSUME NEW c \in Cells[t] PROVE c \in CoveredBy(p)
    BY <1>3, <1>4, <1>5 DEF CoveredBy
  <2>4. QED
    BY <2>1, <2>2, <2>3
<1>12. IsIncludedAt(p, tree, t)
  BY <1>2, <1>3, <1>4, <1>10, <1>11 DEF IsIncludedAt
<1>13. QED
  BY <1>12 DEF p

\* d is where the way to a tile ends in a tree.
EndsAt(tree, at, tile, d) ==
  /\ d \in 0..tile.zoom /\ \A z \in 0..d : at[z] \in DOMAIN tree
  /\ \A z \in 0..(d - 1) : ~tree[at[z]].leaf
  /\ d = tile.zoom \/ tree[at[d]].leaf

(* How deep a call gets.                                                   *)
LEMMA DepthIs ==
  ASSUME NEW tree, IsTree(tree), NEW tile \in Tiles
  PROVE  EndsAt(tree, Path(tile), tile, Depth(tree, tile))
<1> DEFINE at == Path(tile)
           d == Depth(tree, tile)
           n == tile.zoom
           Ends(z) == z = tile.zoom \/ tree[at[z]].included \/ tree[at[z]].leaf
<1>1. n \in Nat
  <2>1. MaxZoom \in Nat /\ tile.zoom \in 0..MaxZoom
    BY TileIs
  <2>2. QED
    BY <2>1
<1>2. Ends(n)
  OBVIOUS
<1>3. d = CHOOSE z \in 0..n : Ends(z) /\ \A y \in 0..(z - 1) : ~Ends(y)
  BY DEF Depth
<1>4. WayTo(at, tile)
  BY PathIs
<1> DEFINE E == {z \in 0..n : Ends(z)}
<1>5. n \in E /\ E \subseteq Nat
  BY <1>1, <1>2
<1>6. \A z \in E : z \in 0..n /\ Ends(z)
  OBVIOUS
<1>7. \A z \in 0..n : z \notin E => ~Ends(z)
  OBVIOUS
<1> HIDE DEF E, Ends, d
<1>8. PICK k \in E : \A m \in E : ~(<<m, k>> \in OpToRel(<, Nat))
  BY <1>5, WFMin, NatLessThanWellFounded
<1>9. ASSUME NEW y \in 0..(k - 1) PROVE ~Ends(y)
  <2>1. k \in 0..n
    BY <1>6
  <2>2. y \in Nat /\ k \in Nat /\ y < k /\ y \in 0..n
    BY <1>1, <2>1
  <2>3. y \notin E
    BY <1>8, <2>2 DEF OpToRel
  <2>4. QED
    BY <1>7, <2>2, <2>3
<1>10. d \in 0..n /\ Ends(d) /\ \A y \in 0..(d - 1) : ~Ends(y)
  BY <1>3, <1>6, <1>9
<1>11. \A z \in 0..(d - 1) : ~tree[at[z]].leaf
  BY <1>10 DEF Ends
<1> DEFINE N == {z \in 0..d : at[z] \notin DOMAIN tree}
<1>12. N = {}
  <2>1. SUFFICES ASSUME N # {} PROVE FALSE
    OBVIOUS
  <2>2. N \subseteq Nat
    OBVIOUS
  <2>3. PICK z \in N : \A m \in N : ~(<<m, z>> \in OpToRel(<, Nat))
    BY <2>1, <2>2, WFMin, NatLessThanWellFounded
  <2>4. z \in 0..d /\ at[z] \notin DOMAIN tree
    BY <2>3
  <2>5. z # 0
    BY <1>4, <2>4 DEF WayTo, IsTree
  <2>6. z - 1 \in 0..d /\ z - 1 \in 0..(d - 1) /\ z - 1 \in Nat /\ z - 1 < z /\ z > 0 /\ z \in 0..n /\ z \in Nat
    <3>1. d \in Nat /\ d <= n /\ z \in Nat /\ z <= d /\ z # 0
      BY <1>1, <1>10, <2>4, <2>5
    <3>2. z - 1 \in Nat /\ z - 1 < z /\ z > 0
      BY <3>1
    <3>3. z - 1 \in 0..d /\ z - 1 \in 0..(d - 1) /\ z \in 0..n
      BY <1>1, <3>1
    <3>4. QED
      BY <3>1, <3>2, <3>3
  <2>7. z - 1 \notin N
    BY <2>3, <2>6 DEF OpToRel
  <2>8. at[z - 1] \in DOMAIN tree /\ ~tree[at[z - 1]].leaf
    BY <1>11, <2>6, <2>7
  <2>9. PICK i \in 1..4 : at[z] = Quarter(at[z - 1], i)
    BY <1>4, <2>6 DEF WayTo
  <2>10. QED
    BY <2>4, <2>8, <2>9 DEF IsTree
<1>13. \A z \in 0..d : at[z] \in DOMAIN tree
  BY <1>12
<1>14. d = tile.zoom \/ tree[at[d]].leaf
  <2>1. d \in 0..d
    BY <1>1, <1>10
  <2>2. at[d] \in DOMAIN tree
    BY <1>13, <2>1
  <2>3. tree[at[d]].included => tree[at[d]].leaf
    BY <2>2 DEF IsTree
  <2>4. QED
    BY <1>10, <2>3 DEF Ends
<1>15. EndsAt(tree, at, tile, d)
  BY <1>10, <1>11, <1>13, <1>14 DEF EndsAt
<1>16. QED
  BY <1>15 DEF d

\* The part of the way to a tile that has no quarters yet.
NewOnWay(at, tile, d) == {at[y] : y \in d..(tile.zoom - 1)}

\* o is the tree with nodes all the way to a tile; nothing else has changed.
IsOpenTo(o, tree, at, tile) ==
  /\ IsTree(o) /\ CoveredBy(o) = CoveredBy(tree)
  /\ \A z \in 0..tile.zoom : at[z] \in DOMAIN o
  /\ \A z \in 0..(tile.zoom - 1) : ~o[at[z]].leaf
  /\ \A t \in DOMAIN o : ~o[t].leaf /\ (\A z \in 0..(tile.zoom - 1) : t # at[z]) =>
       /\ t \in DOMAIN tree /\ ~tree[t].leaf
       /\ \A i \in 1..4 : Quarter(t, i) \in DOMAIN tree /\ o[Quarter(t, i)] = tree[Quarter(t, i)]

(* The tiles of the way to a tile lie one in the other.                    *)
LEMMA WayNests ==
  ASSUME NEW tile \in Tiles, NEW at, WayTo(at, tile), NEW y \in 0..tile.zoom, NEW z \in 0..tile.zoom, z <= y
  PROVE  Below(at[y], at[z])
<1>1. /\ at[y] \in Tiles /\ at[y].zoom = y /\ Below(tile, at[y])
      /\ at[z] \in Tiles /\ at[z].zoom = z /\ Below(tile, at[z])
  BY DEF WayTo
<1>2. QED
  BY <1>1, BelowIsOrder

(* Where the way has no quarters yet.                                      *)
LEMMA NewIs ==
  ASSUME NEW tree, IsTree(tree), NEW tile \in Tiles, NEW at, WayTo(at, tile), NEW d, EndsAt(tree, at, tile, d)
  PROVE  \A y \in d..(tile.zoom - 1) :
           /\ y \in Nat /\ y \in 0..tile.zoom /\ y + 1 \in 0..tile.zoom /\ y \in 0..(tile.zoom - 1)
           /\ at[y] \in Tiles /\ at[y].zoom = y /\ y < MaxZoom
           /\ at[d] \in DOMAIN tree /\ tree[at[d]].leaf /\ Below(at[y], at[d])
           /\ at[y] \in DOMAIN tree => y = d
           /\ \A i \in 1..4 : /\ Quarter(at[y], i) \in Tiles /\ Quarter(at[y], i).zoom = y + 1
                              /\ Below(Quarter(at[y], i), at[y]) /\ Quarter(at[y], i) \notin DOMAIN tree
<1>1. MaxZoom \in Nat /\ tile.zoom \in 0..MaxZoom
  BY TileIs
<1>2. d \in 0..tile.zoom /\ \A z \in 0..d : at[z] \in DOMAIN tree
  BY DEF EndsAt
<1>3. TAKE y \in d..(tile.zoom - 1)
<1>4. d \in Nat /\ d <= y /\ y \in Nat /\ y < tile.zoom /\ tile.zoom \in Nat /\ tile.zoom <= MaxZoom
  BY <1>1, <1>2
<1>5. y \in 0..tile.zoom /\ y + 1 \in 0..tile.zoom /\ y \in 0..(tile.zoom - 1) /\ y < MaxZoom /\ d # tile.zoom /\ d \in 0..d
  BY <1>1, <1>4
<1>6. at[y] \in Tiles /\ at[y].zoom = y /\ at[d] \in Tiles /\ at[d].zoom = d
  BY <1>2, <1>5 DEF WayTo
<1>7. at[d] \in DOMAIN tree /\ tree[at[d]].leaf
  BY <1>2, <1>5 DEF EndsAt
<1>8. Below(at[y], at[d])
  BY <1>2, <1>4, <1>5, WayNests
<1>9. at[y] \in DOMAIN tree => y = d
  BY <1>6, <1>7, <1>8 DEF IsTree
<1>10. ASSUME NEW i \in 1..4
       PROVE  /\ Quarter(at[y], i) \in Tiles /\ Quarter(at[y], i).zoom = y + 1
              /\ Below(Quarter(at[y], i), at[y]) /\ Quarter(at[y], i) \notin DOMAIN tree
  <2>1. Quarter(at[y], i) \in Tiles /\ Quarter(at[y], i).zoom = y + 1 /\ Below(Quarter(at[y], i), at[y])
    BY <1>5, <1>6, QuarterIs
  <2>2. Below(Quarter(at[y], i), at[d])
    BY <1>6, <1>8, <2>1, BelowIsOrder
  <2>3. y + 1 # d
    BY <1>4
  <2>4. Quarter(at[y], i) # at[d]
    BY <1>6, <2>1, <2>3
  <2>5. QED
    BY <1>7, <2>1, <2>2, <2>4 DEF IsTree
<1>11. QED
  BY <1>4, <1>5, <1>6, <1>7, <1>8, <1>9, <1>10

(* The nodes after leaves have got quarters.                               *)
LEMMA ExpandedNodes ==
  ASSUME NEW tree, IsTree(tree), NEW leaves
  PROVE  LET o == Expanded(tree, leaves) IN
         /\ \A s : s \in DOMAIN o <=> s \in DOMAIN tree \/ \E t \in leaves, i \in 1..4 : s = Quarter(t, i)
         /\ \A s \in DOMAIN o : /\ o[s] \in [leaf : BOOLEAN, included : BOOLEAN]
                                /\ o[s].leaf <=> s \notin leaves /\ (s \in DOMAIN tree => tree[s].leaf)
                                /\ o[s].included <=> s \in DOMAIN tree /\ tree[s].included
                                /\ s \in DOMAIN tree /\ s \notin leaves => o[s] = tree[s]
<1> DEFINE o == Expanded(tree, leaves)
<1>1. ASSUME NEW s PROVE s \in DOMAIN o <=> s \in DOMAIN tree \/ \E t \in leaves, i \in 1..4 : s = Quarter(t, i)
  BY DEF Expanded
<1>2. ASSUME NEW s \in DOMAIN o
      PROVE  /\ o[s] \in [leaf : BOOLEAN, included : BOOLEAN]
             /\ o[s].leaf <=> s \notin leaves /\ (s \in DOMAIN tree => tree[s].leaf)
             /\ o[s].included <=> s \in DOMAIN tree /\ tree[s].included
             /\ s \in DOMAIN tree /\ s \notin leaves => o[s] = tree[s]
  <2>1. o[s] = [leaf |-> s \notin leaves /\ (s \in DOMAIN tree => tree[s].leaf),
                included |-> s \in DOMAIN tree /\ tree[s].included]
    BY DEF Expanded
  <2> HIDE DEF o
  <2>2. s \in DOMAIN tree => tree[s] \in [leaf : BOOLEAN, included : BOOLEAN]
    BY DEF IsTree
  <2> DEFINE a == s \notin leaves /\ (s \in DOMAIN tree => tree[s].leaf)
             b == s \in DOMAIN tree /\ tree[s].included
  <2>3. a \in BOOLEAN /\ b \in BOOLEAN
    OBVIOUS
  <2>4. o[s] = [leaf |-> a, included |-> b]
    BY <2>1
  <2>5. ASSUME s \in DOMAIN tree, s \notin leaves PROVE a = tree[s].leaf /\ b = tree[s].included
    <3>1. tree[s].leaf \in BOOLEAN /\ tree[s].included \in BOOLEAN
      BY <2>2, <2>5
    <3>2. a <=> tree[s].leaf
      BY <2>5
    <3>3. b <=> tree[s].included
      BY <2>5
    <3>4. QED
      BY <2>3, <3>1, <3>2, <3>3
  <2>6. (a <=> s \notin leaves /\ (s \in DOMAIN tree => tree[s].leaf)) /\ (b <=> s \in DOMAIN tree /\ tree[s].included)
    OBVIOUS
  <2> HIDE DEF a, b
  <2>7. o[s] \in [leaf : BOOLEAN, included : BOOLEAN] /\ o[s].leaf = a /\ o[s].included = b
    BY <2>3, <2>4
  <2>8. s \in DOMAIN tree /\ s \notin leaves => o[s] = tree[s]
    BY <2>2, <2>5, <2>7
  <2>9. (o[s].leaf <=> a) /\ (o[s].included <=> b)
    BY <2>7
  <2>10. QED
    BY <2>6, <2>7, <2>8, <2>9
<1>3. QED
  BY <1>1, <1>2

(* A tree in which the way to a tile has got all its nodes.                *)
LEMMA ExpandedIs ==
  ASSUME NEW tree, IsTree(tree), NEW tile \in Tiles, NEW at, WayTo(at, tile), NEW d, EndsAt(tree, at, tile, d),
         ~tree[at[d]].included
  PROVE  IsOpenTo(Expanded(tree, NewOnWay(at, tile, d)), tree, at, tile)
<1> DEFINE L == NewOnWay(at, tile, d)
           o == Expanded(tree, L)
           n == tile.zoom
<1>1. DOMAIN tree \subseteq Tiles /\ World \in DOMAIN tree
  BY DEF IsTree
<1>2. ASSUME NEW s \in L PROVE \E y \in d..(n - 1) : s = at[y]
  BY DEF NewOnWay
<1>3. ASSUME NEW y \in d..(n - 1) PROVE at[y] \in L
  BY DEF NewOnWay
<1>4. \A s : s \in DOMAIN o <=> s \in DOMAIN tree \/ \E t \in L, i \in 1..4 : s = Quarter(t, i)
  BY ExpandedNodes
<1>5. \A s \in DOMAIN o : /\ o[s] \in [leaf : BOOLEAN, included : BOOLEAN]
                          /\ o[s].leaf <=> s \notin L /\ (s \in DOMAIN tree => tree[s].leaf)
                          /\ o[s].included <=> s \in DOMAIN tree /\ tree[s].included
                          /\ s \in DOMAIN tree /\ s \notin L => o[s] = tree[s]
  BY ExpandedNodes
<1> HIDE DEF L, o
<1>6. \A y \in d..(n - 1) :
           /\ y \in Nat /\ y \in 0..n /\ y + 1 \in 0..n /\ y \in 0..(n - 1)
           /\ at[y] \in Tiles /\ at[y].zoom = y /\ y < MaxZoom
           /\ at[d] \in DOMAIN tree /\ tree[at[d]].leaf /\ Below(at[y], at[d])
           /\ at[y] \in DOMAIN tree => y = d
           /\ \A i \in 1..4 : /\ Quarter(at[y], i) \in Tiles /\ Quarter(at[y], i).zoom = y + 1
                              /\ Below(Quarter(at[y], i), at[y]) /\ Quarter(at[y], i) \notin DOMAIN tree
  BY NewIs
<1>7. n \in Nat /\ d \in Nat /\ d <= n
  <2>1. MaxZoom \in Nat /\ tile.zoom \in 0..MaxZoom
    BY TileIs
  <2>2. d \in 0..tile.zoom
    BY DEF EndsAt
  <2>3. QED
    BY <2>1, <2>2
<1> HIDE DEF n
<1>8. ASSUME NEW s \in DOMAIN o, s \notin DOMAIN tree
      PROVE  \E y \in d..(n - 1), i \in 1..4 : s = Quarter(at[y], i)
  BY <1>2, <1>4, <1>8
<1>9. DOMAIN o \subseteq Tiles
  BY <1>1, <1>6, <1>8
<1>10. ASSUME NEW z \in 0..n PROVE at[z] \in DOMAIN o
  <2>1. CASE z <= d
    <3>1. z \in 0..d
      BY <1>7, <2>1
    <3>2. QED
      BY <1>4, <3>1 DEF EndsAt
  <2>2. CASE d < z
    <3>1. z > 0 /\ z - 1 \in d..(n - 1)
      BY <1>7, <2>2
    <3>2. PICK i \in 1..4 : at[z] = Quarter(at[z - 1], i)
      BY <3>1 DEF WayTo, n
    <3>3. QED
      BY <1>3, <1>4, <3>1, <3>2
  <2>3. QED
    BY <1>7, <2>1, <2>2
<1>11. ASSUME NEW z \in 0..(n - 1) PROVE ~o[at[z]].leaf
  <2>1. at[z] \in DOMAIN o
    BY <1>7, <1>10
  <2>2. CASE z < d
    <3>1. z \in 0..d /\ z \in 0..(d - 1)
      BY <1>7, <2>2
    <3>2. at[z] \in DOMAIN tree /\ ~tree[at[z]].leaf
      BY <3>1 DEF EndsAt
    <3>3. QED
      BY <1>5, <2>1, <3>2
  <2>3. CASE d <= z
    <3>1. z \in d..(n - 1)
      BY <1>7, <2>3
    <3>2. QED
      BY <1>3, <1>5, <2>1, <3>1
  <2>4. QED
    BY <1>7, <2>2, <2>3
<1>12. ASSUME NEW t \in DOMAIN o, ~o[t].leaf
       PROVE  t.zoom < MaxZoom /\ ~o[t].included /\ \A i \in 1..4 : Quarter(t, i) \in DOMAIN o
  <2>1. CASE t \in L
    <3>1. PICK y \in d..(n - 1) : t = at[y]
      BY <1>2, <2>1
    <3>2. ~o[t].included
      BY <1>5, <1>6, <3>1
    <3>3. QED
      BY <1>4, <1>6, <2>1, <3>1, <3>2
  <2>2. CASE t \notin L
    <3>1. t \in DOMAIN tree /\ ~tree[t].leaf
      BY <1>5, <1>12, <2>2
    <3>2. QED
      BY <1>4, <1>5, <3>1 DEF IsTree
  <2>3. QED
    BY <2>1, <2>2
<1>13. ASSUME NEW s \in DOMAIN o, NEW t \in DOMAIN o, o[t].leaf, Below(s, t) PROVE s = t
  <2>1. s \in Tiles /\ t \in Tiles /\ t \notin L /\ (t \in DOMAIN tree => tree[t].leaf)
    BY <1>5, <1>9, <1>13
  <2>2. CASE s \in DOMAIN tree /\ t \in DOMAIN tree
    BY <1>13, <2>1, <2>2 DEF IsTree
  <2>3. CASE s \notin DOMAIN tree /\ t \in DOMAIN tree
    <3>1. PICK y \in d..(n - 1), i \in 1..4 : s = Quarter(at[y], i)
      BY <1>8, <2>3
    <3>2. Below(s, at[d]) /\ at[d] \in Tiles /\ at[d] \in DOMAIN tree /\ tree[at[d]].leaf
      BY <1>1, <1>6, <2>1, <3>1, BelowIsOrder
    <3>3. Below(at[d], t) \/ Below(t, at[d])
      <4>1. at[d].zoom \in Int /\ t.zoom \in Int
        BY <2>1, <3>2, TileIs
      <4>2. at[d].zoom <= t.zoom \/ t.zoom <= at[d].zoom
        BY <4>1
      <4>3. QED
        BY <1>13, <2>1, <3>2, <4>2, BelowIsOrder
    <3>4. at[d] = t
      BY <2>1, <2>3, <3>2, <3>3 DEF IsTree
    <3>5. d \in d..(n - 1)
      BY <1>7, <3>1
    <3>6. QED
      BY <1>3, <2>1, <3>4, <3>5
  <2>4. CASE s \in DOMAIN tree /\ t \notin DOMAIN tree
    <3>1. PICK y \in d..(n - 1), i \in 1..4 : t = Quarter(at[y], i)
      BY <1>8, <2>4
    <3>2. Below(s, at[d]) /\ at[d] \in Tiles /\ at[d] \in DOMAIN tree /\ tree[at[d]].leaf /\ Below(t, at[d])
      BY <1>1, <1>6, <1>13, <2>1, <3>1, BelowIsOrder
    <3>3. s = at[d]
      BY <2>4, <3>2 DEF IsTree
    <3>4. t = at[d]
      BY <1>13, <2>1, <3>2, <3>3, BelowIsFiner
    <3>5. QED
      BY <2>4, <3>2, <3>4
  <2>5. CASE s \notin DOMAIN tree /\ t \notin DOMAIN tree
    <3>1. PICK y \in d..(n - 1), i \in 1..4 : t = Quarter(at[y], i)
      BY <1>8, <2>5
    <3>2. PICK w \in d..(n - 1), j \in 1..4 : s = Quarter(at[w], j)
      BY <1>8, <2>5
    <3>3. y \in Nat /\ w \in Nat /\ t.zoom = y + 1 /\ s.zoom = w + 1 /\ y <= w
      <4>1. y \in Nat /\ w \in Nat /\ t.zoom = y + 1 /\ s.zoom = w + 1
        BY <1>6, <3>1, <3>2
      <4>2. y + 1 <= w + 1
        BY <1>13, <2>1, <4>1, BelowIsFiner
      <4>3. QED
        BY <4>1, <4>2
    <3>4. CASE y = w
      BY <1>13, <2>1, <3>3, <3>4, BelowIsOrder
    <3>5. CASE y < w
      <4>1. y + 1 \in d..(n - 1) /\ y + 1 <= w /\ y + 1 \in 0..n /\ w \in 0..n
        BY <1>6, <1>7, <3>3, <3>5
      <4>2. Below(at[w], at[y + 1])
        BY <4>1, WayNests DEF n
      <4>3. Below(s, at[w]) /\ at[w] \in Tiles /\ at[y + 1] \in Tiles /\ at[y + 1].zoom = y + 1
        BY <1>6, <3>2, <4>1
      <4>4. Below(s, at[y + 1])
        BY <2>1, <4>2, <4>3, BelowIsOrder
      <4>5. t.zoom <= at[y + 1].zoom
        BY <3>3, <4>3
      <4>6. Below(at[y + 1], t)
        BY <1>13, <2>1, <4>3, <4>4, <4>5, BelowIsOrder
      <4>7. at[y + 1] = t
        BY <2>1, <3>3, <4>3, <4>6, BelowIsOrder
      <4>8. QED
        BY <1>3, <2>1, <4>1, <4>7
    <3>6. QED
      BY <3>3, <3>4, <3>5
  <2>6. QED
    BY <2>2, <2>3, <2>4, <2>5
<1>14. World \in DOMAIN o
  BY <1>1, <1>4
<1>15. IsTree(o)
  BY <1>5, <1>9, <1>12, <1>13, <1>14 DEF IsTree
<1>16. CoveredBy(o) = CoveredBy(tree)
  BY <1>4, <1>5 DEF CoveredBy
<1>17. ASSUME NEW t \in DOMAIN o, ~o[t].leaf, \A z \in 0..(n - 1) : t # at[z]
       PROVE  /\ t \in DOMAIN tree /\ ~tree[t].leaf
              /\ \A i \in 1..4 : Quarter(t, i) \in DOMAIN tree /\ o[Quarter(t, i)] = tree[Quarter(t, i)]
  <2>1. t \notin L
    BY <1>2, <1>6, <1>17
  <2>2. t \in DOMAIN tree /\ ~tree[t].leaf
    BY <1>5, <1>17, <2>1
  <2>3. t \in Tiles /\ t.zoom < MaxZoom
    BY <1>1, <2>2 DEF IsTree
  <2>4. ASSUME NEW i \in 1..4 PROVE Quarter(t, i) \in DOMAIN tree /\ o[Quarter(t, i)] = tree[Quarter(t, i)]
    <3>1. Quarter(t, i) \in DOMAIN tree
      BY <2>2 DEF IsTree
    <3>2. ASSUME Quarter(t, i) \in L PROVE FALSE
      <4>1. PICK y \in d..(n - 1) : Quarter(t, i) = at[y]
        BY <1>2, <3>2
      <4>2. y \in Nat /\ y \in 0..n /\ at[y] \in Tiles /\ at[y].zoom = y
        BY <1>6, <4>1
      <4>3. Quarter(t, i).zoom = t.zoom + 1 /\ Below(Quarter(t, i), t) /\ t.zoom \in Nat
        <5>1. MaxZoom \in Nat /\ t.zoom \in 0..MaxZoom
          BY <2>3, TileIs
        <5>2. QED
          BY <2>3, <5>1, QuarterIs
      <4>4. y - 1 = t.zoom /\ y - 1 \in 0..n /\ y - 1 \in 0..(n - 1) /\ y - 1 <= y
        BY <1>7, <4>1, <4>2, <4>3
      <4>5. at[y - 1] \in Tiles /\ at[y - 1].zoom = t.zoom /\ Below(at[y], at[y - 1])
        BY <4>2, <4>4, WayNests DEF WayTo, n
      <4>6. Below(at[y], t)
        BY <4>1, <4>3
      <4>7. t.zoom <= at[y - 1].zoom
        BY <4>3, <4>5
      <4>8. at[y - 1] = t
        BY <2>3, <4>2, <4>5, <4>6, <4>7, BelowIsOrder
      <4>9. QED
        BY <1>17, <4>4, <4>8
    <3>3. QED
      BY <1>4, <1>5, <3>1, <3>2
  <2>5. QED
    BY <2>2, <2>4
<1>18. IsOpenTo(o, tree, at, tile)
  BY <1>10, <1>11, <1>15, <1>16, <1>17 DEF IsOpenTo, n
<1>19. QED
  BY <1>18 DEF o, L

-----------------------------------------------------------------------------
(* The way back up: addTile:.                                              *)

\* A step of the way back up.
UpFrom(g, at, base, n, z) == IF z < n THEN Folded(g[z + 1], at[z]) ELSE base

\* g is the way back up to k zooms above n.
UpTo(g, at, base, n, k) == \A z \in 0..n : z >= n - k => g[z] = UpFrom(g, at, base, n, z)

(* The recursion of the way back up.                                       *)
LEMMA UpExists ==
  ASSUME NEW at, NEW base, NEW n \in Nat
  PROVE  LET up == CHOOSE h : h = [z \in 0..n |-> UpFrom(h, at, base, n, z)]
         IN \A z \in 0..n : up[z] = UpFrom(up, at, base, n, z)
<1> DEFINE N == {k \in Nat : k <= n /\ ~ \E g : UpTo(g, at, base, n, k)}
<1>1. N = {}
  <2>1. SUFFICES ASSUME N # {} PROVE FALSE
    OBVIOUS
  <2>2. N \subseteq Nat
    OBVIOUS
  <2>3. PICK k \in N : \A m \in N : ~(<<m, k>> \in OpToRel(<, Nat))
    BY <2>1, <2>2, WFMin, NatLessThanWellFounded
  <2>4. k \in Nat /\ k <= n /\ ~ \E g : UpTo(g, at, base, n, k)
    BY <2>3
  <2>5. CASE k = 0
    <3> DEFINE g == [z \in 0..n |-> base]
    <3>1. \A z \in 0..n : g[z] = base
      OBVIOUS
    <3> HIDE DEF g
    <3>2. \A z \in 0..n : z >= n - 0 => ~(z < n)
      OBVIOUS
    <3>3. UpTo(g, at, base, n, 0)
      BY <3>1, <3>2 DEF UpTo, UpFrom
    <3>4. QED
      BY <2>4, <2>5, <3>3
  <2>6. CASE k # 0
    <3>1. k - 1 \in Nat /\ k - 1 < k /\ k - 1 <= n
      BY <2>4, <2>6
    <3>2. k - 1 \notin N
      BY <2>3, <2>4, <3>1 DEF OpToRel
    <3>3. PICK g : UpTo(g, at, base, n, k - 1)
      BY <3>1, <3>2
    <3> DEFINE f == [z \in 0..n |-> UpFrom(g, at, base, n, z)]
    <3>4. \A z \in 0..n : f[z] = UpFrom(g, at, base, n, z)
      OBVIOUS
    <3> HIDE DEF f
    <3>5. ASSUME NEW z \in 0..n, z >= n - (k - 1) PROVE f[z] = g[z]
      BY <3>3, <3>4, <3>5 DEF UpTo
    <3>6. ASSUME NEW z \in 0..n, z >= n - k PROVE f[z] = UpFrom(f, at, base, n, z)
      <4>1. CASE ~(z < n)
        BY <3>4, <4>1 DEF UpFrom
      <4>2. CASE z < n
        <5>1. z + 1 \in 0..n /\ z + 1 >= n - (k - 1)
          BY <2>4, <3>6, <4>2
        <5>2. f[z + 1] = g[z + 1]
          BY <3>5, <5>1
        <5>3. QED
          BY <3>4, <5>2 DEF UpFrom
      <4>3. QED
        BY <4>1, <4>2
    <3>7. UpTo(f, at, base, n, k)
      BY <3>6 DEF UpTo
    <3>8. QED
      BY <2>4, <3>7
  <2>7. QED
    BY <2>5, <2>6
<1>2. n \notin N
  BY <1>1
<1>3. PICK g : UpTo(g, at, base, n, n)
  BY <1>2
<1> HIDE DEF N
<1>4. \A z \in 0..n : g[z] = UpFrom(g, at, base, n, z)
  <2>1. \A z \in 0..n : z >= n - n
    OBVIOUS
  <2>2. QED
    BY <1>3, <2>1 DEF UpTo
<1> DEFINE f == [z \in 0..n |-> g[z]]
<1>5. f = [z \in 0..n |-> g[z]] /\ \A z \in 0..n : f[z] = g[z]
  OBVIOUS
<1> HIDE DEF f
<1>6. ASSUME NEW z \in 0..n PROVE g[z] = UpFrom(f, at, base, n, z)
  <2>1. CASE ~(z < n)
    BY <1>4, <2>1 DEF UpFrom
  <2>2. CASE z < n
    <3>1. z + 1 \in 0..n
      BY <2>2
    <3>2. f[z + 1] = g[z + 1]
      BY <1>5, <3>1
    <3>3. QED
      BY <1>4, <3>2 DEF UpFrom
  <2>3. QED
    BY <2>1, <2>2
<1>7. f = [z \in 0..n |-> UpFrom(f, at, base, n, z)]
  BY <1>5, <1>6
<1> DEFINE up == CHOOSE h : h = [z \in 0..n |-> UpFrom(h, at, base, n, z)]
<1>8. up = [z \in 0..n |-> UpFrom(up, at, base, n, z)]
  BY <1>7
<1> HIDE DEF up
<1>9. \A z \in 0..n : up[z] = UpFrom(up, at, base, n, z)
  BY <1>8
<1>10. QED
  BY <1>9 DEF up

(* A set that holds n and with each number the one below it.               *)
LEMMA DownToZero ==
  ASSUME NEW n \in Nat, NEW S, n \in S, \A z \in 0..(n - 1) : z + 1 \in S => z \in S
  PROVE  0 \in S
<1> DEFINE N == {k \in Nat : k <= n /\ n - k \notin S}
<1>1. N = {}
  <2>1. SUFFICES ASSUME N # {} PROVE FALSE
    OBVIOUS
  <2>2. N \subseteq Nat
    OBVIOUS
  <2>3. PICK k \in N : \A m \in N : ~(<<m, k>> \in OpToRel(<, Nat))
    BY <2>1, <2>2, WFMin, NatLessThanWellFounded
  <2>4. k \in Nat /\ k <= n /\ n - k \notin S
    BY <2>3
  <2>5. n - 0 = n
    OBVIOUS
  <2>6. k # 0
    BY <2>4, <2>5
  <2>7. k - 1 \in Nat /\ k - 1 < k /\ k - 1 <= n /\ n - k \in 0..(n - 1) /\ (n - k) + 1 = n - (k - 1)
    BY <2>4, <2>6
  <2>8. k - 1 \notin N
    BY <2>3, <2>4, <2>7 DEF OpToRel
  <2>9. (n - k) + 1 \in S
    BY <2>7, <2>8
  <2>10. QED
    BY <2>4, <2>7, <2>9
<1>2. n \notin N /\ n - n = 0
  BY <1>1
<1>3. QED
  BY <1>2

(* The way to a tile passes the tile whose quarter it passes.              *)
LEMMA ParentOnWay ==
  ASSUME NEW tile \in Tiles, NEW at, WayTo(at, tile), NEW y \in 0..tile.zoom,
         NEW t \in Tiles, t.zoom < MaxZoom, NEW i \in 1..4, Quarter(t, i) = at[y]
  PROVE  y - 1 \in 0..(y - 1) /\ at[y - 1] = t
<1>1. MaxZoom \in Nat /\ tile.zoom \in 0..MaxZoom /\ t.zoom \in 0..MaxZoom
  BY TileIs
<1>2. at[y] \in Tiles /\ at[y].zoom = y /\ at[y].zoom = t.zoom + 1 /\ Below(at[y], t)
  BY QuarterIs DEF WayTo
<1>3. y - 1 = t.zoom /\ y - 1 \in 0..tile.zoom /\ y - 1 \in 0..(y - 1) /\ y - 1 <= y
  BY <1>1, <1>2
<1>4. at[y - 1] \in Tiles /\ at[y - 1].zoom = t.zoom /\ Below(at[y], at[y - 1])
  BY <1>3, WayNests DEF WayTo
<1>5. t.zoom <= at[y - 1].zoom
  BY <1>1, <1>4
<1>6. at[y - 1] = t
  BY <1>2, <1>4, <1>5, BelowIsOrder
<1>7. QED
  BY <1>3, <1>6

\* What the way back up keeps: the tile is in the tree and, but for the
\* nodes still to be passed, no node is there in vain.
IsKept(p, tree, at, tile, z) ==
  /\ IsTree(p) /\ CoveredBy(p) = CoveredBy(tree) \cup Cells[tile]
  /\ \A y \in 0..z : at[y] \in DOMAIN p
  /\ \A y \in 0..(z - 1) : ~p[at[y]].leaf
  /\ p[at[z]] # NewNode
  /\ \A t \in DOMAIN p : (\A y \in 0..(z - 1) : t # at[y]) => IsNeeded(p, t)

(* A node of the way that becomes an included leaf.                        *)
LEMMA KeptByIncluding ==
  ASSUME NEW tree, NEW p, IsTree(p), NEW tile \in Tiles, NEW at, WayTo(at, tile), NEW z \in 0..tile.zoom,
         CoveredBy(p) \cup Cells[at[z]] = CoveredBy(tree) \cup Cells[tile],
         \A y \in 0..z : at[y] \in DOMAIN p,
         \A y \in 0..(z - 1) : ~p[at[y]].leaf,
         \A t \in DOMAIN p : (\A y \in 0..z : t # at[y]) => IsNeeded(p, t)
  PROVE  IsKept(Included(p, at[z]), tree, at, tile, z)
<1> DEFINE q == Included(p, at[z])
           u == at[z]
           done == [leaf |-> TRUE, included |-> TRUE]
<1>1. MaxZoom \in Nat /\ tile.zoom \in 0..MaxZoom
  BY TileIs
<1>2. z \in Nat /\ z <= tile.zoom /\ tile.zoom \in Nat
  BY <1>1
<1>3. \A y \in 0..z : y \in 0..tile.zoom /\ at[y] \in Tiles /\ at[y].zoom = y /\ at[y] \in DOMAIN p
  BY <1>2 DEF WayTo
<1>4. z \in 0..z /\ u \in DOMAIN p
  BY <1>2
<1>5. IsIncludedAt(q, p, u)
  BY <1>4, IncludedIs
<1> HIDE DEF q
<1>6. /\ IsTree(q) /\ CoveredBy(q) = CoveredBy(p) \cup Cells[u]
      /\ u \in DOMAIN q /\ q[u] = done
      /\ \A s : s \in DOMAIN q <=> s \in DOMAIN p /\ (s = u \/ ~Below(s, u))
      /\ \A s \in DOMAIN q : s # u => q[s] = p[s]
  BY <1>5 DEF IsIncludedAt
<1>7. ASSUME NEW y \in 0..(z - 1) PROVE at[y] # u /\ at[y] \in DOMAIN q /\ ~q[at[y]].leaf
  <2>1. y \in 0..z /\ y < z /\ y \in Nat
    BY <1>2
  <2>2. at[y].zoom = y /\ u.zoom = z /\ at[y] \in Tiles /\ u \in Tiles /\ at[y] \in DOMAIN p
    BY <1>3, <1>4, <2>1
  <2>3. ~(u.zoom <= at[y].zoom) /\ at[y].zoom # u.zoom
    BY <1>2, <2>1, <2>2
  <2>4. ~Below(at[y], u)
    BY <2>3 DEF Below
  <2>5. at[y] # u /\ at[y] \in DOMAIN q
    BY <1>6, <2>2, <2>3, <2>4
  <2>6. QED
    BY <1>6, <2>5
<1>8. \A y \in 0..z : at[y] \in DOMAIN q
  <2>1. TAKE y \in 0..z
  <2>2. y = z \/ y \in 0..(z - 1)
    BY <1>2
  <2>3. QED
    BY <1>6, <1>7, <2>2
<1>9. done.leaf /\ done.included /\ done # NewNode
  BY DEF NewNode
<1>10. ASSUME NEW t \in DOMAIN q, \A y \in 0..(z - 1) : t # at[y] PROVE IsNeeded(q, t)
  <2>1. SUFFICES ASSUME ~q[t].leaf
                 PROVE  /\ \E i \in 1..4 : ~q[Quarter(t, i)].included
                        /\ \E i \in 1..4 : q[Quarter(t, i)] # NewNode
    BY DEF IsNeeded
  <2>2. t # u
    BY <1>6, <1>9, <2>1
  <2>3. t \in DOMAIN p /\ ~p[t].leaf
    BY <1>6, <2>1, <2>2
  <2>4. \A y \in 0..z : t # at[y]
    <3>1. TAKE y \in 0..z
    <3>2. y = z \/ y \in 0..(z - 1)
      BY <1>2
    <3>3. QED
      BY <1>10, <2>2, <3>2
  <2>5. /\ \E i \in 1..4 : ~p[Quarter(t, i)].included
        /\ \E i \in 1..4 : p[Quarter(t, i)] # NewNode
    BY <2>3, <2>4 DEF IsNeeded
  <2>6. t \in Tiles /\ t.zoom < MaxZoom /\ \A i \in 1..4 : Quarter(t, i) \in DOMAIN q
    BY <1>6, <2>1 DEF IsTree
  <2>7. ASSUME NEW i \in 1..4 PROVE q[Quarter(t, i)] = p[Quarter(t, i)]
    <3>1. Quarter(t, i) # u
      BY <1>10, <2>6, ParentOnWay
    <3>2. QED
      BY <1>6, <2>6, <3>1
  <2>8. QED
    BY <2>5, <2>7
<1>11. CoveredBy(q) = CoveredBy(tree) \cup Cells[tile]
  BY <1>6
<1>12. q[at[z]] # NewNode
  BY <1>6, <1>9
<1>13. IsKept(q, tree, at, tile, z)
  BY <1>6, <1>7, <1>8, <1>10, <1>11, <1>12 DEF IsKept
<1>14. QED
  BY <1>13 DEF q

(* One step of the way back up.                                            *)
LEMMA KeptByFolding ==
  ASSUME NEW tree, NEW p, NEW tile \in Tiles, NEW at, WayTo(at, tile), NEW z \in 0..(tile.zoom - 1),
         IsKept(p, tree, at, tile, z + 1)
  PROVE  IsKept(Folded(p, at[z]), tree, at, tile, z)
<1> DEFINE u == at[z]
<1>1. MaxZoom \in Nat /\ tile.zoom \in 0..MaxZoom
  BY TileIs
<1>2. /\ z \in Nat /\ z \in 0..tile.zoom /\ z + 1 \in 0..tile.zoom /\ z + 1 > 0 /\ (z + 1) - 1 = z
      /\ z \in 0..z /\ z \in 0..(z + 1) /\ z + 1 \in 0..(z + 1)
  BY <1>1
<1>3. /\ IsTree(p) /\ CoveredBy(p) = CoveredBy(tree) \cup Cells[tile]
      /\ \A y \in 0..(z + 1) : at[y] \in DOMAIN p
      /\ \A y \in 0..z : ~p[at[y]].leaf
      /\ p[at[z + 1]] # NewNode
      /\ \A t \in DOMAIN p : (\A y \in 0..z : t # at[y]) => IsNeeded(p, t)
  BY <1>2 DEF IsKept
<1>4. u \in DOMAIN p /\ ~p[u].leaf /\ u \in Tiles
  BY <1>2, <1>3 DEF WayTo
<1>5. u.zoom < MaxZoom /\ \A i \in 1..4 : Quarter(u, i) \in DOMAIN p
  BY <1>3, <1>4 DEF IsTree
<1>6. \A y \in 0..z : at[y] \in DOMAIN p
  <2>1. \A y \in 0..z : y \in 0..(z + 1)
    BY <1>2
  <2>2. QED
    BY <1>3, <2>1
<1>7. \A y \in 0..(z - 1) : ~p[at[y]].leaf
  <2>1. \A y \in 0..(z - 1) : y \in 0..z
    BY <1>2
  <2>2. QED
    BY <1>3, <2>1
<1>8. CASE \A i \in 1..4 : p[Quarter(u, i)].included
  <2>1. Cells[u] \subseteq CoveredBy(p)
    <3>1. \A i \in 1..4 : Cells[Quarter(u, i)] \subseteq CoveredBy(p)
      BY <1>5, <1>8 DEF CoveredBy
    <3>2. QED
      BY <1>4, <1>5, <3>1, CellsOfQuarters
  <2>2. CoveredBy(p) \cup Cells[u] = CoveredBy(tree) \cup Cells[tile]
    BY <1>3, <2>1
  <2>3. IsKept(Included(p, u), tree, at, tile, z)
    BY <1>2, <1>3, <1>6, <1>7, <2>2, KeptByIncluding
  <2>4. Folded(p, u) = Included(p, u)
    BY <1>8 DEF Folded
  <2>5. QED
    BY <2>3, <2>4
<1>9. CASE ~ \A i \in 1..4 : p[Quarter(u, i)].included
  <2>1. Folded(p, u) = p
    BY <1>9 DEF Folded
  <2>2. PICK i \in 1..4 : at[z + 1] = Quarter(u, i)
    BY <1>2 DEF WayTo
  <2>3. IsNeeded(p, u)
    BY <1>3, <1>9, <2>2 DEF IsNeeded
  <2>4. ASSUME NEW t \in DOMAIN p, \A y \in 0..(z - 1) : t # at[y] PROVE IsNeeded(p, t)
    <3>1. CASE t = u
      BY <2>3, <3>1
    <3>2. CASE t # u
      <4>1. \A y \in 0..z : y = z \/ y \in 0..(z - 1)
        BY <1>2
      <4>2. QED
        BY <1>3, <2>4, <3>2, <4>1
    <3>3. QED
      BY <3>1, <3>2
  <2>5. NewNode.leaf
    BY DEF NewNode
  <2>6. p[u] # NewNode
    BY <1>4, <2>5
  <2>7. IsKept(p, tree, at, tile, z)
    BY <1>3, <1>6, <1>7, <2>4, <2>6 DEF IsKept
  <2>8. QED
    BY <2>1, <2>7
<1>10. QED
  BY <1>8, <1>9

(* addTile: leaves a reduced tree, to which the cells of the tile are      *)
(* added and no other.                                                     *)
LEMMA AddIs ==
  ASSUME NEW tree, IsReduced(tree), NEW tile \in Tiles
  PROVE  IsReduced(AddTile(tree, tile)) /\ CoveredBy(AddTile(tree, tile)) = CoveredBy(tree) \cup Cells[tile]
<1> DEFINE at == Path(tile)
           d == Depth(tree, tile)
           done == tree[at[d]].leaf /\ tree[at[d]].included
           n == IF done THEN d ELSE tile.zoom
           base == IF done THEN tree ELSE Included(Expanded(tree, {at[y] : y \in d..(tile.zoom - 1)}), tile)
           up == CHOOSE h : h = [z \in 0..n |-> UpFrom(h, at, base, n, z)]
<1>1. AddTile(tree, tile) = up[0]
  BY DEF AddTile, UpFrom
<1>2. IsTree(tree) /\ \A t \in DOMAIN tree : IsNeeded(tree, t)
  BY DEF IsReduced
<1>3. WayTo(at, tile) /\ EndsAt(tree, at, tile, d)
  BY <1>2, PathIs, DepthIs
<1>4. base = IF done THEN tree ELSE Included(Expanded(tree, NewOnWay(at, tile, d)), tile)
  BY DEF NewOnWay
<1>5. n = IF done THEN d ELSE tile.zoom
  OBVIOUS
<1> DEFINE m == n
           b == base
<1>6. up = CHOOSE h : h = [z \in 0..m |-> UpFrom(h, at, b, m, z)]
  OBVIOUS
<1> HIDE DEF at, d, up, n, base, m, b
<1>7. tile.zoom \in Nat /\ d \in 0..tile.zoom /\ d \in Nat /\ d \in 0..d
  <2>1. MaxZoom \in Nat /\ tile.zoom \in 0..MaxZoom
    BY TileIs
  <2>2. d \in 0..tile.zoom
    BY <1>3 DEF EndsAt
  <2>3. QED
    BY <2>1, <2>2
<1>8. n \in Nat
  BY <1>5, <1>7
<1>9. \A z \in 0..n : up[z] = UpFrom(up, at, base, n, z)
  <2>1. m \in Nat
    BY <1>8 DEF m
  <2>2. \A z \in 0..m : up[z] = UpFrom(up, at, b, m, z)
    BY <1>6, <2>1, UpExists
  <2>3. QED
    BY <2>2 DEF m, b
<1>10. up[n] = base
  <2>1. n \in 0..n /\ ~(n < n)
    BY <1>8
  <2>2. QED
    BY <1>9, <2>1 DEF UpFrom
<1>11. \A z \in 0..(n - 1) : up[z] = Folded(up[z + 1], at[z])
  <2>1. \A z \in 0..(n - 1) : z \in 0..n /\ z < n
    BY <1>8
  <2>2. QED
    BY <1>9, <2>1 DEF UpFrom
<1>12. CASE done
  <2> DEFINE S == {z \in 0..n : up[z] = tree}
  <2>1. n \in S
    <3>1. n \in 0..n
      BY <1>8
    <3>2. QED
      BY <1>4, <1>10, <1>12, <3>1
  <2>2. ASSUME NEW z \in 0..(n - 1), z + 1 \in S PROVE z \in S
    <3>1. n = d /\ z \in 0..n /\ z \in 0..d
      BY <1>5, <1>7, <1>12
    <3>2. at[z] \in DOMAIN tree /\ ~tree[at[z]].leaf
      BY <1>3, <3>1 DEF EndsAt
    <3>3. \E i \in 1..4 : ~tree[Quarter(at[z], i)].included
      BY <1>2, <3>2 DEF IsNeeded
    <3>4. Folded(tree, at[z]) = tree
      BY <3>3 DEF Folded
    <3>5. QED
      BY <1>11, <2>2, <3>1, <3>4
  <2> HIDE DEF S
  <2>3. 0 \in S
    BY <1>8, <2>1, <2>2, DownToZero
  <2>4. up[0] = tree
    BY <2>3 DEF S
  <2>5. at[d] \in DOMAIN tree /\ at[d] \in Tiles /\ Below(tile, at[d])
    BY <1>3, <1>7 DEF EndsAt, WayTo
  <2>6. Cells[tile] \subseteq Cells[at[d]] /\ Cells[at[d]] \subseteq CoveredBy(tree)
    BY <1>12, <2>5, CellsOrder DEF CoveredBy
  <2>7. QED
    BY <1>1, <2>4, <2>6
<1>13. CASE ~done
  <2>1. n = tile.zoom /\ base = Included(Expanded(tree, NewOnWay(at, tile, d)), tile) /\ at[n] = tile
    BY <1>3, <1>4, <1>5, <1>13 DEF WayTo
  <2>2. ~tree[at[d]].included
    BY <1>2, <1>3, <1>7, <1>13 DEF EndsAt, IsTree
  <2> DEFINE o == Expanded(tree, NewOnWay(at, tile, d))
             S == {z \in 0..n : IsKept(up[z], tree, at, tile, z)}
  <2>3. IsOpenTo(o, tree, at, tile)
    BY <1>2, <1>3, <2>2, ExpandedIs
  <2> HIDE DEF o
  <2>4. ASSUME NEW t \in DOMAIN o, \A y \in 0..n : t # at[y] PROVE IsNeeded(o, t)
    <3>1. CASE o[t].leaf
      BY <3>1 DEF IsNeeded
    <3>2. CASE ~o[t].leaf
      <4>1. \A y \in 0..(tile.zoom - 1) : y \in 0..n
        BY <1>7, <2>1
      <4>2. /\ t \in DOMAIN tree /\ ~tree[t].leaf
            /\ \A i \in 1..4 : Quarter(t, i) \in DOMAIN tree /\ o[Quarter(t, i)] = tree[Quarter(t, i)]
        BY <2>3, <2>4, <3>2, <4>1 DEF IsOpenTo
      <4>3. QED
        BY <1>2, <4>2 DEF IsNeeded
    <3>3. QED
      BY <3>1, <3>2
  <2>5. IsTree(o) /\ CoveredBy(o) \cup Cells[at[n]] = CoveredBy(tree) \cup Cells[tile]
    BY <2>1, <2>3 DEF IsOpenTo
  <2>6. (\A y \in 0..n : at[y] \in DOMAIN o) /\ (\A y \in 0..(n - 1) : ~o[at[y]].leaf)
    BY <2>1, <2>3 DEF IsOpenTo
  <2>7. n \in 0..tile.zoom /\ n \in 0..n
    BY <1>7, <2>1
  <2>8. IsKept(Included(o, at[n]), tree, at, tile, n)
    BY <1>3, <2>4, <2>5, <2>6, <2>7, KeptByIncluding
  <2>9. n \in S
    BY <1>10, <2>1, <2>7, <2>8 DEF o
  <2>10. ASSUME NEW z \in 0..(n - 1), z + 1 \in S PROVE z \in S
    <3>1. z \in 0..(tile.zoom - 1) /\ z \in 0..n
      BY <1>8, <2>1
    <3>2. IsKept(up[z + 1], tree, at, tile, z + 1)
      BY <2>10
    <3>3. IsKept(Folded(up[z + 1], at[z]), tree, at, tile, z)
      BY <1>3, <3>1, <3>2, KeptByFolding
    <3>4. QED
      BY <1>11, <3>1, <3>3
  <2>11. S = {z \in 0..n : IsKept(up[z], tree, at, tile, z)}
    OBVIOUS
  <2> HIDE DEF S
  <2>12. 0 \in S
    BY <1>8, <2>9, <2>10, DownToZero
  <2>13. IsKept(up[0], tree, at, tile, 0)
    BY <2>11, <2>12
  <2>14. \A y \in 0..(0 - 1) : FALSE
    OBVIOUS
  <2>15. IsReduced(up[0]) /\ CoveredBy(up[0]) = CoveredBy(tree) \cup Cells[tile]
    BY <2>13, <2>14 DEF IsKept, IsReduced
  <2>16. QED
    BY <1>1, <2>15
<1>14. QED
  BY <1>12, <1>13

-----------------------------------------------------------------------------
(* What the tree answers.                                                  *)

(* Among any nodes of a tree there is a finest one.                        *)
LEMMA FinestNode ==
  ASSUME NEW tree, IsTree(tree), NEW S \in SUBSET DOMAIN tree, S # {}
  PROVE  \E t \in S : \A s \in S : s.zoom <= t.zoom
<1>1. MaxZoom \in Nat /\ \A t \in S : t \in Tiles /\ t.zoom \in 0..MaxZoom
  BY TileGeometryAssumption, TileIs DEF IsTree
<1> DEFINE N == {MaxZoom - t.zoom : t \in S}
<1>2. N \subseteq Nat /\ N # {}
  BY <1>1
<1>3. PICK n \in N : \A m \in N : ~(<<m, n>> \in OpToRel(<, Nat))
  BY <1>2, WFMin, NatLessThanWellFounded
<1>4. PICK t \in S : n = MaxZoom - t.zoom
  BY <1>3
<1>5. ASSUME NEW s \in S PROVE s.zoom <= t.zoom
  <2>1. MaxZoom - s.zoom \in N /\ MaxZoom - s.zoom \in Nat /\ n \in Nat
    BY <1>1, <1>4
  <2>2. ~(MaxZoom - s.zoom < n)
    BY <1>3, <2>1 DEF OpToRel
  <2>3. QED
    BY <1>1, <1>4, <2>2
<1>6. QED
  BY <1>5

\* What is still open in a tile.
Open(tree, t) == {u \in DOMAIN tree : Below(u, t) /\ tree[u].leaf /\ ~tree[u].included}

(* A node that has been touched has an included one below it.              *)
LEMMA Touched ==
  ASSUME NEW tree, IsReduced(tree), NEW t \in DOMAIN tree, tree[t] # NewNode
  PROVE  \E v \in DOMAIN tree : tree[v].included /\ Below(v, t)
<1>1. IsTree(tree) /\ \A u \in DOMAIN tree : u \in Tiles /\ IsNeeded(tree, u)
  BY DEF IsReduced, IsTree
<1> DEFINE S == {u \in DOMAIN tree : tree[u] # NewNode /\ ~ \E v \in DOMAIN tree : tree[v].included /\ Below(v, u)}
<1>2. SUFFICES ASSUME S # {} PROVE FALSE
  OBVIOUS
<1>3. PICK u \in S : \A s \in S : s.zoom <= u.zoom
  <2>1. S \in SUBSET DOMAIN tree
    OBVIOUS
  <2> HIDE DEF S
  <2>2. QED
    BY <1>1, <1>2, <2>1, FinestNode
<1>4. u \in DOMAIN tree /\ u \in Tiles /\ tree[u] # NewNode /\ Below(u, u)
  BY <1>1, <1>3, BelowIsOrder
<1>5. ~tree[u].included
  BY <1>3, <1>4
<1>6. CASE tree[u].leaf
  <2>1. tree[u] \in [leaf : BOOLEAN, included : BOOLEAN]
    BY <1>1, <1>4 DEF IsTree
  <2>2. PICK a \in BOOLEAN, b \in BOOLEAN : tree[u] = [leaf |-> a, included |-> b]
    BY <2>1
  <2>3. a = TRUE /\ b = FALSE
    BY <1>5, <1>6, <2>2
  <2>4. QED
    BY <1>4, <2>2, <2>3 DEF NewNode
<1>7. CASE ~tree[u].leaf
  <2>1. PICK i \in 1..4 : tree[Quarter(u, i)] # NewNode
    BY <1>1, <1>4, <1>7 DEF IsNeeded
  <2>2. u.zoom < MaxZoom /\ Quarter(u, i) \in DOMAIN tree
    BY <1>1, <1>4, <1>7 DEF IsTree
  <2>3. Quarter(u, i) \in Tiles /\ Quarter(u, i).zoom = u.zoom + 1 /\ Below(Quarter(u, i), u) /\ u.zoom \in Int
    BY <1>4, <2>2, QuarterIs, TileIs
  <2>4. ~(Quarter(u, i).zoom <= u.zoom)
    BY <2>3
  <2>5. Quarter(u, i) \notin S
    BY <1>3, <2>4
  <2>6. PICK v \in DOMAIN tree : tree[v].included /\ Below(v, Quarter(u, i))
    BY <2>1, <2>2, <2>5
  <2>7. Below(v, u)
    BY <1>1, <1>4, <2>3, <2>6, BelowIsOrder
  <2>8. QED
    BY <1>3, <2>6, <2>7
<1>8. QED
  BY <1>6, <1>7

(* Something is open in a node that is not included.                       *)
LEMMA SomethingOpen ==
  ASSUME NEW tree, IsReduced(tree), NEW t \in DOMAIN tree, ~tree[t].included
  PROVE  Open(tree, t) # {}
<1>1. IsTree(tree) /\ \A u \in DOMAIN tree : u \in Tiles /\ IsNeeded(tree, u)
  BY DEF IsReduced, IsTree
<1> DEFINE S == {u \in DOMAIN tree : ~tree[u].included /\ Open(tree, u) = {}}
<1>2. SUFFICES ASSUME S # {} PROVE FALSE
  OBVIOUS
<1>3. PICK u \in S : \A s \in S : s.zoom <= u.zoom
  <2>1. S \in SUBSET DOMAIN tree
    OBVIOUS
  <2> HIDE DEF S
  <2>2. QED
    BY <1>1, <1>2, <2>1, FinestNode
<1>4. u \in DOMAIN tree /\ u \in Tiles /\ ~tree[u].included /\ Below(u, u)
  BY <1>1, <1>3, BelowIsOrder
<1>5. CASE tree[u].leaf
  BY <1>3, <1>4, <1>5 DEF Open
<1>6. CASE ~tree[u].leaf
  <2>1. PICK i \in 1..4 : ~tree[Quarter(u, i)].included
    BY <1>1, <1>4, <1>6 DEF IsNeeded
  <2>2. u.zoom < MaxZoom /\ Quarter(u, i) \in DOMAIN tree
    BY <1>1, <1>4, <1>6 DEF IsTree
  <2>3. Quarter(u, i) \in Tiles /\ Quarter(u, i).zoom = u.zoom + 1 /\ Below(Quarter(u, i), u) /\ u.zoom \in Int
    BY <1>4, <2>2, QuarterIs, TileIs
  <2>4. ~(Quarter(u, i).zoom <= u.zoom)
    BY <2>3
  <2>5. Quarter(u, i) \notin S
    BY <1>3, <2>4
  <2>6. PICK v : v \in Open(tree, Quarter(u, i))
    BY <2>1, <2>2, <2>5
  <2>7. v \in DOMAIN tree /\ tree[v].leaf /\ ~tree[v].included /\ Below(v, Quarter(u, i))
    BY <2>6 DEF Open
  <2>8. Below(v, u)
    BY <1>1, <1>4, <2>3, <2>7, BelowIsOrder
  <2>9. v \in Open(tree, u)
    BY <2>7, <2>8 DEF Open
  <2>10. QED
    BY <1>3, <2>9
<1>7. QED
  BY <1>5, <1>6

(* An open leaf is covered nowhere.                                        *)
LEMMA OpenApart ==
  ASSUME NEW tree, IsTree(tree), NEW u \in DOMAIN tree, tree[u].leaf, ~tree[u].included
  PROVE  Cells[u] \cap CoveredBy(tree) = {}
<1>1. SUFFICES ASSUME NEW c \in Cells[u], c \in CoveredBy(tree) PROVE FALSE
  OBVIOUS
<1>2. PICK v \in DOMAIN tree : tree[v].included /\ c \in Cells[v]
  BY <1>1 DEF CoveredBy
<1>3. u \in Tiles /\ v \in Tiles /\ tree[v].leaf
  BY <1>2 DEF IsTree
<1>4. Cells[u] \cap Cells[v] # {}
  BY <1>1, <1>2
<1>5. Below(u, v) \/ Below(v, u)
  BY <1>3, <1>4, CellsCompare
<1>6. u = v
  BY <1>2, <1>3, <1>5 DEF IsTree
<1>7. QED
  BY <1>2, <1>6

(* What lies above a node is a node, and no leaf.                          *)
LEMMA AboveANode ==
  ASSUME NEW tree, IsTree(tree), NEW u \in DOMAIN tree, NEW s \in Tiles, Below(u, s), s # u
  PROVE  s \in DOMAIN tree /\ ~tree[s].leaf
<1> DEFINE at == Path(u)
           d == Depth(tree, u)
<1>1. u \in Tiles
  BY DEF IsTree
<1>2. WayTo(at, u) /\ EndsAt(tree, at, u, d)
  BY <1>1, PathIs, DepthIs
<1> HIDE DEF at, d
<1>3. MaxZoom \in Nat /\ u.zoom \in 0..MaxZoom /\ s.zoom \in 0..MaxZoom /\ s.zoom < u.zoom
  BY <1>1, TileIs, BelowIsFiner
<1>4. d \in 0..u.zoom /\ d \in Nat
  BY <1>2, <1>3 DEF EndsAt
<1>5. d = u.zoom
  <2>1. SUFFICES ASSUME d # u.zoom PROVE FALSE
    OBVIOUS
  <2>2. d \in 0..d
    BY <1>4
  <2>3. tree[at[d]].leaf /\ at[d] \in DOMAIN tree
    BY <1>2, <2>1, <2>2 DEF EndsAt
  <2>4. at[d] \in Tiles /\ at[d].zoom = d /\ Below(u, at[d])
    BY <1>2, <1>4 DEF WayTo
  <2>5. u = at[d]
    BY <2>3, <2>4 DEF IsTree
  <2>6. QED
    BY <2>1, <2>4, <2>5
<1> DEFINE z == s.zoom
<1>6. z \in 0..d /\ z \in 0..(d - 1) /\ z \in 0..u.zoom
  BY <1>3, <1>5
<1>7. at[z] \in DOMAIN tree /\ ~tree[at[z]].leaf /\ at[z] \in Tiles /\ at[z].zoom = z /\ Below(u, at[z])
  BY <1>2, <1>6 DEF EndsAt, WayTo
<1>8. s.zoom <= at[z].zoom
  BY <1>3, <1>7
<1>9. at[z] = s
  BY <1>1, <1>7, <1>8, BelowIsOrder
<1>10. QED
  BY <1>7, <1>9

(* The fewest tiles that complete a node that is no leaf are its open      *)
(* leaves.                                                                 *)
LEMMA MaximalIs ==
  ASSUME NEW tree, IsReduced(tree), NEW t \in DOMAIN tree, ~tree[t].leaf
  PROVE  Maximal(Cells[t] \ CoveredBy(tree)) = Open(tree, t)
<1> DEFINE R == Cells[t] \ CoveredBy(tree)
<1>1. IsTree(tree) /\ t \in Tiles /\ \A u \in DOMAIN tree : u \in Tiles
  BY DEF IsReduced, IsTree
<1>2. \A s : s \in Inside(R) <=> s \in Tiles /\ Cells[s] \subseteq R
  BY DEF Inside
<1>3. \A s : s \in Maximal(R) <=>
        s \in Inside(R) /\ ~ \E r \in Inside(R) : r.zoom < s.zoom /\ Cells[s] \subseteq Cells[r]
  BY DEF Maximal
<1>4. ASSUME NEW s \in Inside(R) PROVE s \in Tiles /\ Below(s, t) /\ Cells[s] \cap CoveredBy(tree) = {}
  BY <1>1, <1>2, CellsOrder
<1>5. ASSUME NEW u \in Open(tree, t) PROVE u \in Inside(R)
  <2>1. u \in DOMAIN tree /\ u \in Tiles /\ Below(u, t) /\ tree[u].leaf /\ ~tree[u].included
    BY <1>1 DEF Open
  <2>2. Cells[u] \subseteq Cells[t] /\ Cells[u] \cap CoveredBy(tree) = {}
    BY <1>1, <2>1, CellsOrder, OpenApart
  <2>3. QED
    BY <1>2, <2>1, <2>2
<1> HIDE DEF R
\* No node but a leaf is free of included nodes.
<1>6. ASSUME NEW s \in Inside(R), s \in DOMAIN tree PROVE tree[s].leaf
  <2>1. SUFFICES ASSUME ~tree[s].leaf PROVE FALSE
    OBVIOUS
  <2>2. tree[s] # NewNode
    BY <2>1 DEF NewNode
  <2>3. PICK v \in DOMAIN tree : tree[v].included /\ Below(v, s)
    BY <1>6, <2>2, Touched
  <2>4. Cells[v] # {} /\ Cells[v] \subseteq Cells[s] /\ Cells[v] \subseteq CoveredBy(tree)
    BY <1>1, <1>4, <2>3, TilesHaveCells, CellsOrder DEF CoveredBy
  <2>5. QED
    BY <1>4, <2>4
<1>7. ASSUME NEW u \in Open(tree, t) PROVE u \in Maximal(R)
  <2>1. u \in DOMAIN tree /\ u \in Tiles
    BY <1>1 DEF Open
  <2>2. ASSUME NEW s \in Inside(R), s.zoom < u.zoom, Cells[u] \subseteq Cells[s] PROVE FALSE
    <3>1. s \in Tiles /\ Below(u, s)
      BY <1>4, <2>1, <2>2, CellsOrder
    <3>2. s.zoom \in Int
      BY <3>1, TileIs
    <3>3. s # u
      BY <2>2, <3>2
    <3>4. s \in DOMAIN tree /\ ~tree[s].leaf
      BY <1>1, <2>1, <3>1, <3>3, AboveANode
    <3>5. QED
      BY <1>6, <3>4
  <2>3. QED
    BY <1>3, <1>5, <2>2
<1>8. ASSUME NEW s \in Maximal(R) PROVE s \in Open(tree, t)
  <2> DEFINE at == Path(s)
             d == Depth(tree, s)
             e == at[d]
  <2>1. s \in Inside(R) /\ s \in Tiles /\ Below(s, t) /\ Cells[s] \cap CoveredBy(tree) = {}
    BY <1>3, <1>4
  <2>2. WayTo(at, s) /\ EndsAt(tree, at, s, d)
    BY <1>1, <2>1, PathIs, DepthIs
  <2> HIDE DEF at, d
  <2>3. d \in 0..s.zoom /\ d \in 0..d
    <3>1. MaxZoom \in Nat /\ s.zoom \in 0..MaxZoom
      BY <2>1, TileIs
    <3>2. d \in 0..s.zoom
      BY <2>2 DEF EndsAt
    <3>3. QED
      BY <3>1, <3>2
  <2>4. e \in DOMAIN tree /\ e \in Tiles /\ Below(s, e) /\ (d = s.zoom => e = s) /\ (d = s.zoom \/ tree[e].leaf)
    BY <2>2, <2>3 DEF EndsAt, WayTo
  <2> HIDE DEF e
  <2>5. tree[e].leaf
    BY <1>6, <2>1, <2>4
  <2>6. ~tree[e].included
    <3>1. SUFFICES ASSUME tree[e].included PROVE FALSE
      OBVIOUS
    <3>2. Cells[s] \subseteq Cells[e] /\ Cells[e] \subseteq CoveredBy(tree) /\ Cells[s] # {}
      BY <2>1, <2>4, <3>1, CellsOrder, TilesHaveCells DEF CoveredBy
    <3>3. QED
      BY <2>1, <3>2
  <2>7. Below(e, t)
    <3>1. e.zoom \in Int /\ t.zoom \in Int
      BY <1>1, <2>4, TileIs
    <3>2. t.zoom <= e.zoom \/ e.zoom <= t.zoom
      BY <3>1
    <3>3. Below(e, t) \/ Below(t, e)
      BY <1>1, <2>1, <2>4, <3>2, BelowIsOrder
    <3>4. Below(t, e) => t = e
      BY <1>1, <2>4, <2>5 DEF IsTree
    <3>5. QED
      BY <2>5, <3>3, <3>4
  <2>8. e \in Open(tree, t)
    BY <2>4, <2>5, <2>6, <2>7 DEF Open
  <2>9. e \in Inside(R)
    BY <1>5, <2>8
  <2>10. e = s
    <3>1. SUFFICES ASSUME e # s PROVE FALSE
      OBVIOUS
    <3>2. e.zoom < s.zoom /\ Cells[s] \subseteq Cells[e]
      BY <2>1, <2>4, <3>1, BelowIsFiner, CellsOrder
    <3>3. QED
      BY <1>3, <2>9, <3>2
  <2>11. QED
    BY <2>8, <2>10
<1>9. Maximal(R) = Open(tree, t)
  BY <1>7, <1>8
<1>10. QED
  BY <1>9 DEF R

(* Nothing completes nothing, and a tile completes itself.                 *)
LEMMA MaximalOfOne ==
  /\ Maximal({}) = {}
  /\ \A t \in Tiles : Maximal(Cells[t]) = {t}
<1>1. Inside({}) = {}
  BY TilesHaveCells DEF Inside
<1>2. Maximal({}) = {}
  BY <1>1 DEF Maximal
<1>3. ASSUME NEW t \in Tiles PROVE Maximal(Cells[t]) = {t}
  <2>1. \A s : s \in Inside(Cells[t]) <=> s \in Tiles /\ Below(s, t)
    BY CellsOrder DEF Inside
  <2>2. \A s : s \in Maximal(Cells[t]) <=>
          s \in Inside(Cells[t]) /\ ~ \E r \in Inside(Cells[t]) : r.zoom < s.zoom /\ Cells[s] \subseteq Cells[r]
    BY DEF Maximal
  <2>3. t \in Inside(Cells[t])
    BY <2>1, BelowIsOrder
  <2>4. t \in Maximal(Cells[t])
    <3>1. ASSUME NEW r \in Inside(Cells[t]), r.zoom < t.zoom PROVE FALSE
      <4>1. r \in Tiles /\ t.zoom <= r.zoom
        BY <2>1, BelowIsFiner
      <4>2. r.zoom \in Int /\ t.zoom \in Int
        BY <4>1, TileIs
      <4>3. QED
        BY <3>1, <4>1, <4>2
    <3>2. QED
      BY <2>2, <2>3, <3>1
  <2>5. ASSUME NEW s \in Maximal(Cells[t]) PROVE s = t
    <3>1. s \in Tiles /\ Below(s, t) /\ ~(t.zoom < s.zoom /\ Cells[s] \subseteq Cells[t])
      BY <2>1, <2>2, <2>3
    <3>2. Cells[s] \subseteq Cells[t]
      BY <3>1, CellsOrder
    <3>3. QED
      BY <3>1, <3>2, BelowIsFiner
  <2>6. QED
    BY <2>4, <2>5
<1>4. QED
  BY <1>2, <1>3

-----------------------------------------------------------------------------
(* The recursion of notIncludedSubtiles.                                   *)

\* The answer of a node, from those of its quarters.
SubtilesFrom(g, tree, t) ==
  IF tree[t].included THEN <<>>
  ELSE IF tree[t].leaf THEN <<t>>
  ELSE g[Quarter(t, 1)] \o g[Quarter(t, 2)] \o g[Quarter(t, 3)] \o g[Quarter(t, 4)]

\* g answers for the nodes of the n + 1 finest zooms.
SubtilesTo(g, tree, n) == \A t \in DOMAIN tree : t.zoom >= MaxZoom - n => g[t] = SubtilesFrom(g, tree, t)

(* There are answers for all nodes, and that of a tile is one of them.     *)
LEMMA SubtilesExist ==
  ASSUME NEW tree, IsTree(tree)
  PROVE  \E f : /\ \A t \in DOMAIN tree : f[t] = SubtilesFrom(f, tree, t)
                /\ \A t : NotIncludedSubtiles(tree, t) = f[t]
<1>1. MaxZoom \in Nat /\ \A t \in DOMAIN tree : t \in Tiles /\ t.zoom \in 0..MaxZoom
  BY TileGeometryAssumption, TileIs DEF IsTree
<1>2. ASSUME NEW t \in DOMAIN tree, ~tree[t].leaf, NEW i \in 1..4
      PROVE  t.zoom < MaxZoom /\ Quarter(t, i) \in DOMAIN tree /\ Quarter(t, i).zoom = t.zoom + 1
  <2>1. t.zoom < MaxZoom /\ Quarter(t, i) \in DOMAIN tree
    BY <1>2 DEF IsTree
  <2>2. QED
    BY <1>1, <2>1, QuarterIs
<1> DEFINE N == {n \in Nat : n <= MaxZoom /\ ~ \E g : SubtilesTo(g, tree, n)}
<1>3. N = {}
  <2>1. SUFFICES ASSUME N # {} PROVE FALSE
    OBVIOUS
  <2>2. N \subseteq Nat
    OBVIOUS
  <2>3. PICK n \in N : \A m \in N : ~(<<m, n>> \in OpToRel(<, Nat))
    BY <2>1, <2>2, WFMin, NatLessThanWellFounded
  <2>4. n \in Nat /\ n <= MaxZoom /\ ~ \E g : SubtilesTo(g, tree, n)
    BY <2>3
  <2>5. CASE n = 0
    <3> DEFINE g == [t \in DOMAIN tree |-> SubtilesFrom(<<>>, tree, t)]
    <3>1. \A t \in DOMAIN tree : g[t] = SubtilesFrom(<<>>, tree, t)
      OBVIOUS
    <3> HIDE DEF g
    <3>2. ASSUME NEW t \in DOMAIN tree, t.zoom >= MaxZoom - n PROVE g[t] = SubtilesFrom(g, tree, t)
      <4>1. ~(t.zoom < MaxZoom)
        BY <1>1, <2>5, <3>2
      <4>2. 1 \in 1..4
        OBVIOUS
      <4>3. tree[t].leaf
        BY <1>2, <4>1, <4>2
      <4>4. QED
        BY <3>1, <4>3 DEF SubtilesFrom
    <3>3. SubtilesTo(g, tree, n)
      BY <3>2 DEF SubtilesTo
    <3>4. QED
      BY <2>4, <3>3
  <2>6. CASE n # 0
    <3>1. n - 1 \in Nat /\ n - 1 <= MaxZoom /\ n - 1 < n
      BY <1>1, <2>4, <2>6
    <3>2. n - 1 \notin N
      BY <2>3, <2>4, <3>1 DEF OpToRel
    <3>3. PICK g : SubtilesTo(g, tree, n - 1)
      BY <3>1, <3>2
    <3> DEFINE f == [t \in DOMAIN tree |-> SubtilesFrom(g, tree, t)]
    <3>4. \A t \in DOMAIN tree : f[t] = SubtilesFrom(g, tree, t)
      OBVIOUS
    <3> HIDE DEF f
    <3>5. ASSUME NEW t \in DOMAIN tree, t.zoom >= MaxZoom - (n - 1) PROVE f[t] = g[t]
      BY <3>3, <3>4, <3>5 DEF SubtilesTo
    <3>6. ASSUME NEW t \in DOMAIN tree, t.zoom >= MaxZoom - n PROVE f[t] = SubtilesFrom(f, tree, t)
      <4>1. CASE tree[t].leaf
        BY <3>4, <4>1 DEF SubtilesFrom
      <4>2. CASE ~tree[t].leaf
        <5>1. ASSUME NEW i \in 1..4 PROVE f[Quarter(t, i)] = g[Quarter(t, i)]
          <6>1. Quarter(t, i) \in DOMAIN tree /\ Quarter(t, i).zoom = t.zoom + 1
            BY <1>2, <4>2
          <6>2. Quarter(t, i).zoom >= MaxZoom - (n - 1)
            BY <1>1, <2>4, <3>6, <6>1
          <6>3. QED
            BY <3>5, <6>1, <6>2
        <5>2. QED
          BY <3>4, <5>1 DEF SubtilesFrom
      <4>3. QED
        BY <4>1, <4>2
    <3>7. SubtilesTo(f, tree, n)
      BY <3>6 DEF SubtilesTo
    <3>8. QED
      BY <2>4, <3>7
  <2>7. QED
    BY <2>5, <2>6
<1>4. MaxZoom \notin N
  BY <1>3
<1>5. PICK g : SubtilesTo(g, tree, MaxZoom)
  BY <1>1, <1>4
<1> HIDE DEF N
<1>6. \A t \in DOMAIN tree : g[t] = SubtilesFrom(g, tree, t)
  BY <1>1, <1>5 DEF SubtilesTo
<1> DEFINE f == [t \in DOMAIN tree |-> g[t]]
<1>7. f = [t \in DOMAIN tree |-> g[t]] /\ \A t \in DOMAIN tree : f[t] = g[t]
  OBVIOUS
<1> HIDE DEF f
<1>8. ASSUME NEW t \in DOMAIN tree PROVE g[t] = SubtilesFrom(f, tree, t)
  <2>1. CASE tree[t].leaf
    BY <1>6, <2>1 DEF SubtilesFrom
  <2>2. CASE ~tree[t].leaf
    <3>1. \A i \in 1..4 : f[Quarter(t, i)] = g[Quarter(t, i)]
      BY <1>2, <1>7, <2>2
    <3>2. QED
      BY <1>6, <3>1 DEF SubtilesFrom
  <2>3. QED
    BY <2>1, <2>2
<1>9. f = [t \in DOMAIN tree |-> SubtilesFrom(f, tree, t)]
  BY <1>7, <1>8
<1> DEFINE answer == CHOOSE h : h = [t \in DOMAIN tree |-> SubtilesFrom(h, tree, t)]
<1>10. answer = [t \in DOMAIN tree |-> SubtilesFrom(answer, tree, t)]
  BY <1>9
<1>11. \A t : NotIncludedSubtiles(tree, t) = answer[t]
  BY DEF NotIncludedSubtiles, SubtilesFrom
<1> HIDE DEF answer
<1>12. \A t \in DOMAIN tree : answer[t] = SubtilesFrom(answer, tree, t)
  BY <1>10
<1>13. QED
  BY <1>11, <1>12

\* The open leaves in a tile, each once.
IsRest(p, tree, t) == p \in Seq(Tiles) /\ IsInjective(p) /\ ToSet(p) = Open(tree, t)

\* A sequence of the elements of a set, each once.
IsListOf(p, S, elements) == p \in Seq(S) /\ IsInjective(p) /\ ToSet(p) = elements

(* Four sequences that have nothing in common, one after the other.        *)
LEMMA ConcatOfFour ==
  ASSUME NEW S, NEW L, NEW p, \A i \in 1..4 : p[i] \in Seq(S) /\ IsInjective(p[i]) /\ ToSet(p[i]) = L[i],
         \A i, j \in 1..4 : i # j => L[i] \cap L[j] = {}
  PROVE  IsListOf(p[1] \o p[2] \o p[3] \o p[4], S, L[1] \cup L[2] \cup L[3] \cup L[4])
<1>1. 1 \in 1..4 /\ 2 \in 1..4 /\ 3 \in 1..4 /\ 4 \in 1..4
  OBVIOUS
<1> DEFINE a == p[1] \o p[2]
           b == a \o p[3]
           c == b \o p[4]
<1>2. a \in Seq(S) /\ IsInjective(a) /\ ToSet(a) = L[1] \cup L[2]
  <2>1. ToSet(p[1]) \cap ToSet(p[2]) = {}
    BY <1>1
  <2>2. QED
    BY <1>1, <2>1, ConcatOfApart
<1> HIDE DEF a
<1>3. b \in Seq(S) /\ IsInjective(b) /\ ToSet(b) = L[1] \cup L[2] \cup L[3]
  <2>1. ToSet(a) \cap ToSet(p[3]) = {}
    BY <1>1, <1>2
  <2>2. QED
    BY <1>1, <1>2, <2>1, ConcatOfApart
<1> HIDE DEF b
<1>4. c \in Seq(S) /\ IsInjective(c) /\ ToSet(c) = L[1] \cup L[2] \cup L[3] \cup L[4]
  <2>1. ToSet(b) \cap ToSet(p[4]) = {}
    BY <1>1, <1>3
  <2>2. QED
    BY <1>1, <1>3, <2>1, ConcatOfApart
<1> HIDE DEF c
<1>5. QED
  BY <1>4 DEF a, b, c, IsListOf

(* The answer of a node that is no leaf.                                   *)
LEMMA RestOfQuarters ==
  ASSUME NEW tree, IsTree(tree), NEW t \in DOMAIN tree, ~tree[t].leaf, NEW g,
         \A i \in 1..4 : IsRest(g[Quarter(t, i)], tree, Quarter(t, i))
  PROVE  IsRest(g[Quarter(t, 1)] \o g[Quarter(t, 2)] \o g[Quarter(t, 3)] \o g[Quarter(t, 4)], tree, t)
<1>1. t \in Tiles /\ t.zoom < MaxZoom /\ \A u \in DOMAIN tree : u \in Tiles
  BY DEF IsTree
<1>2. \A i \in 1..4 : Quarter(t, i) \in Tiles /\ Below(Quarter(t, i), t)
  BY <1>1, QuarterIs
<1> DEFINE p == [i \in 1..4 |-> g[Quarter(t, i)]]
           L == [i \in 1..4 |-> Open(tree, Quarter(t, i))]
<1>3. \A i \in 1..4 : p[i] = g[Quarter(t, i)] /\ L[i] = Open(tree, Quarter(t, i))
  OBVIOUS
<1> HIDE DEF p, L
<1>4. \A i \in 1..4 : p[i] \in Seq(Tiles) /\ IsInjective(p[i]) /\ ToSet(p[i]) = L[i]
  BY <1>3 DEF IsRest
<1>5. ASSUME NEW i \in 1..4, NEW j \in 1..4, i # j, NEW u \in L[i], u \in L[j] PROVE FALSE
  <2>1. u \in Tiles /\ Below(u, Quarter(t, i)) /\ Below(u, Quarter(t, j))
    BY <1>1, <1>3, <1>5 DEF Open
  <2>2. QED
    BY <1>1, <1>5, <2>1, QuartersApart
<1>6. \A i, j \in 1..4 : i # j => L[i] \cap L[j] = {}
  BY <1>5
<1>7. ASSUME NEW u \in Open(tree, t) PROVE \E i \in 1..4 : u \in L[i]
  <2>1. u \in DOMAIN tree /\ u \in Tiles /\ Below(u, t) /\ tree[u].leaf /\ ~tree[u].included /\ u # t
    BY <1>1 DEF Open
  <2>2. t.zoom < u.zoom
    BY <1>1, <2>1, BelowIsFiner
  <2>3. PICK i \in 1..4 : Below(u, Quarter(t, i))
    BY <1>1, <2>1, <2>2, QuartersPart
  <2>4. QED
    BY <1>3, <2>1, <2>3 DEF Open
<1>8. ASSUME NEW i \in 1..4, NEW u \in L[i] PROVE u \in Open(tree, t)
  <2>1. u \in DOMAIN tree /\ u \in Tiles /\ Below(u, Quarter(t, i)) /\ tree[u].leaf /\ ~tree[u].included
    BY <1>1, <1>3 DEF Open
  <2>2. Below(u, t)
    BY <1>1, <1>2, <2>1, BelowIsOrder
  <2>3. QED
    BY <2>1, <2>2 DEF Open
<1>9. L[1] \cup L[2] \cup L[3] \cup L[4] = Open(tree, t)
  <2>1. \A i : i \in 1..4 <=> i = 1 \/ i = 2 \/ i = 3 \/ i = 4
    OBVIOUS
  <2>2. QED
    BY <1>7, <1>8, <2>1
<1> DEFINE q == p[1] \o p[2] \o p[3] \o p[4]
<1>10. q \in Seq(Tiles) /\ IsInjective(q) /\ ToSet(q) = Open(tree, t)
  <2>1. IsListOf(q, Tiles, L[1] \cup L[2] \cup L[3] \cup L[4])
    BY <1>4, <1>6, ConcatOfFour
  <2> HIDE DEF q
  <2>2. QED
    BY <1>9, <2>1 DEF IsListOf
<1>11. q = g[Quarter(t, 1)] \o g[Quarter(t, 2)] \o g[Quarter(t, 3)] \o g[Quarter(t, 4)]
  <2>1. 1 \in 1..4 /\ 2 \in 1..4 /\ 3 \in 1..4 /\ 4 \in 1..4
    OBVIOUS
  <2>2. QED
    BY <1>3, <2>1
<1> HIDE DEF q
<1>12. QED
  BY <1>10, <1>11 DEF IsRest

(* notIncludedSubtiles answers the open leaves, each once.                 *)
LEMMA SubtilesAre ==
  ASSUME NEW tree, IsTree(tree), NEW t \in DOMAIN tree
  PROVE  IsRest(NotIncludedSubtiles(tree, t), tree, t)
<1>1. PICK f : /\ \A u \in DOMAIN tree : f[u] = SubtilesFrom(f, tree, u)
               /\ \A u : NotIncludedSubtiles(tree, u) = f[u]
  BY SubtilesExist
<1>2. \A u \in DOMAIN tree : u \in Tiles
  BY DEF IsTree
<1> DEFINE S == {u \in DOMAIN tree : ~IsRest(f[u], tree, u)}
<1>3. S = {}
  <2>1. SUFFICES ASSUME S # {} PROVE FALSE
    OBVIOUS
  <2>2. PICK u \in S : \A s \in S : s.zoom <= u.zoom
    <3>1. S \in SUBSET DOMAIN tree
      OBVIOUS
    <3> HIDE DEF S
    <3>2. QED
      BY <2>1, <3>1, FinestNode
  <2>3. u \in DOMAIN tree /\ u \in Tiles /\ ~IsRest(f[u], tree, u) /\ f[u] = SubtilesFrom(f, tree, u)
    BY <1>1, <1>2, <2>2
  <2>4. Below(u, u) /\ \A v \in Open(tree, u) : tree[u].leaf => v = u
    BY <1>2, <2>3, BelowIsOrder DEF Open, IsTree
  <2>5. CASE tree[u].included
    <3>1. tree[u].leaf
      BY <2>3, <2>5 DEF IsTree
    <3>2. Open(tree, u) = {}
      BY <2>4, <2>5, <3>1 DEF Open
    <3>3. f[u] = <<>>
      BY <2>3, <2>5 DEF SubtilesFrom
    <3>4. <<>> \in Seq(Tiles) /\ IsInjective(<<>>) /\ ToSet(<<>>) = {}
      BY DEF IsInjective, ToSet
    <3>5. QED
      BY <2>3, <3>2, <3>3, <3>4 DEF IsRest
  <2>6. CASE ~tree[u].included /\ tree[u].leaf
    <3>1. Open(tree, u) = {u}
      <4>1. u \in Open(tree, u)
        BY <2>3, <2>4, <2>6 DEF Open
      <4>2. QED
        BY <2>4, <2>6, <4>1
    <3>2. f[u] = <<u>>
      BY <2>3, <2>6 DEF SubtilesFrom
    <3>3. <<u>> \in Seq(Tiles) /\ IsInjective(<<u>>) /\ ToSet(<<u>>) = {u}
      BY <2>3 DEF IsInjective, ToSet
    <3>4. QED
      BY <2>3, <3>1, <3>2, <3>3 DEF IsRest
  <2>7. CASE ~tree[u].included /\ ~tree[u].leaf
    <3>1. ASSUME NEW i \in 1..4 PROVE IsRest(f[Quarter(u, i)], tree, Quarter(u, i))
      <4>1. u.zoom < MaxZoom /\ Quarter(u, i) \in DOMAIN tree
        BY <2>3, <2>7 DEF IsTree
      <4>2. Quarter(u, i).zoom = u.zoom + 1 /\ u.zoom \in Int
        BY <2>3, <4>1, QuarterIs, TileIs
      <4>3. ~(Quarter(u, i).zoom <= u.zoom)
        BY <4>2
      <4>4. Quarter(u, i) \notin S
        BY <2>2, <4>3
      <4>5. QED
        BY <4>1, <4>4
    <3>2. f[u] = f[Quarter(u, 1)] \o f[Quarter(u, 2)] \o f[Quarter(u, 3)] \o f[Quarter(u, 4)]
      BY <2>3, <2>7 DEF SubtilesFrom
    <3>3. QED
      BY <2>3, <2>7, <3>1, <3>2, RestOfQuarters
  <2>8. QED
    BY <2>5, <2>6, <2>7
<1>4. QED
  BY <1>1, <1>3

(* What a call for a tile answers.                                         *)
LEMMA AnswersAre ==
  ASSUME NEW tree, IsReduced(tree), NEW t \in Tiles
  PROVE  LET answer == NotIncludedSubtilesOfTile(tree, t) IN
         /\ ContainsTile(tree, t) <=> Cells[t] \subseteq CoveredBy(tree)
         /\ ToSet(answer) = Maximal(Cells[t] \ CoveredBy(tree))
         /\ answer \in Seq(Tiles) /\ IsInjective(answer)
<1> DEFINE answer == NotIncludedSubtilesOfTile(tree, t)
           at == Path(t)
           d == Depth(tree, t)
           e == at[d]
<1>1. IsTree(tree)
  BY DEF IsReduced
<1>2. WayTo(at, t) /\ EndsAt(tree, at, t, d)
  BY <1>1, PathIs, DepthIs
<1>3. ContainsTile(tree, t) = tree[e].included
  BY DEF ContainsTile
<1>4. answer = IF tree[e].included THEN <<>>
             ELSE IF tree[e].leaf THEN <<t>>
             ELSE NotIncludedSubtiles(tree, e)
  BY DEF NotIncludedSubtilesOfTile
<1> HIDE DEF answer, at, d
<1>5. d \in 0..t.zoom /\ d \in 0..d
  <2>1. MaxZoom \in Nat /\ t.zoom \in 0..MaxZoom
    BY TileIs
  <2>2. d \in 0..t.zoom
    BY <1>2 DEF EndsAt
  <2>3. QED
    BY <2>1, <2>2
<1>6. e \in DOMAIN tree /\ e \in Tiles /\ Below(t, e) /\ (d = t.zoom => e = t) /\ (d = t.zoom \/ tree[e].leaf)
  BY <1>2, <1>5 DEF EndsAt, WayTo
<1> HIDE DEF e
<1>7. Cells[t] \subseteq Cells[e] /\ Cells[t] # {}
  BY <1>6, CellsOrder, TilesHaveCells
<1>8. CASE tree[e].included
  <2>1. Cells[t] \subseteq CoveredBy(tree)
    BY <1>6, <1>7, <1>8 DEF CoveredBy
  <2>2. Maximal(Cells[t] \ CoveredBy(tree)) = {}
    <3>1. Cells[t] \ CoveredBy(tree) = {}
      BY <2>1
    <3>2. QED
      BY <3>1, MaximalOfOne
  <2>3. <<>> \in Seq(Tiles) /\ IsInjective(<<>>) /\ ToSet(<<>>) = {}
    BY DEF IsInjective, ToSet
  <2>4. answer = <<>>
    BY <1>4, <1>8
  <2>5. QED
    BY <1>3, <1>8, <2>1, <2>2, <2>3, <2>4 DEF answer
<1>9. CASE ~tree[e].included /\ tree[e].leaf
  <2>1. Cells[e] \cap CoveredBy(tree) = {}
    BY <1>1, <1>6, <1>9, OpenApart
  <2>2. Cells[t] \ CoveredBy(tree) = Cells[t]
    BY <1>7, <2>1
  <2>3. ~(Cells[t] \subseteq CoveredBy(tree))
    BY <1>7, <2>1
  <2>4. <<t>> \in Seq(Tiles) /\ IsInjective(<<t>>) /\ ToSet(<<t>>) = {t}
    BY DEF IsInjective, ToSet
  <2>5. answer = <<t>>
    BY <1>4, <1>9
  <2>6. Maximal(Cells[t] \ CoveredBy(tree)) = {t}
    BY <2>2, MaximalOfOne
  <2>7. QED
    BY <1>3, <1>9, <2>3, <2>4, <2>5, <2>6 DEF answer
<1>10. CASE ~tree[e].included /\ ~tree[e].leaf
  <2>1. e = t /\ t \in DOMAIN tree
    BY <1>6, <1>10
  <2>2. answer = NotIncludedSubtiles(tree, t)
    BY <1>4, <1>10, <2>1
  <2>3. IsRest(answer, tree, t)
    BY <1>1, <2>1, <2>2, SubtilesAre
  <2>4. ToSet(answer) = Maximal(Cells[t] \ CoveredBy(tree)) /\ answer \in Seq(Tiles) /\ IsInjective(answer)
    BY <1>10, <2>1, <2>3, MaximalIs DEF IsRest
  <2>5. ~(Cells[t] \subseteq CoveredBy(tree))
    <3>1. PICK u : u \in Open(tree, t)
      BY <1>10, <2>1, SomethingOpen
    <3>2. u \in DOMAIN tree /\ u \in Tiles /\ Below(u, t) /\ tree[u].leaf /\ ~tree[u].included
      BY <1>1, <3>1 DEF Open, IsTree
    <3>3. Cells[u] # {} /\ Cells[u] \subseteq Cells[t] /\ Cells[u] \cap CoveredBy(tree) = {}
      BY <1>1, <3>2, CellsOrder, TilesHaveCells, OpenApart
    <3>4. QED
      BY <3>3
  <2>6. QED
    BY <1>3, <1>10, <2>4, <2>5 DEF answer
<1>11. QED
  BY <1>8, <1>9, <1>10

-----------------------------------------------------------------------------
(* The tile array.                                                         *)

(* The tiles of TileCover are those of the tile array.                     *)
LEMMA CoverIsOfTheSameTiles ==
  /\ Cover!Tiles = Tiles /\ Cover!Cells = Cells
  /\ \A S : Cover!Maximal(S) = Maximal(S)
<1>1. Cover!Tiles = Tiles /\ \A z : Cover!TilesOfZoom(z) = TilesOfZoom(z)
  BY DEF Cover!Tiles, Tiles, Cover!TilesOfZoom, TilesOfZoom
<1>2. Cover!Cells = Cells
  BY <1>1 DEF Cover!Cells, Cells
<1>3. QED
  BY <1>1, <1>2 DEF Cover!Maximal, Maximal, Cover!Inside, Inside

(* The tree of a new array.                                                *)
LEMMA NewTree ==
  IsReduced(TreeWithTile(World)) /\ CoveredBy(TreeWithTile(World)) = {}
<1> DEFINE p == TreeWithTile(World)
<1>1. DOMAIN p = {World} /\ p[World] = NewNode
  BY DEF TreeWithTile
<1> HIDE DEF p
<1>2. NewNode \in [leaf : BOOLEAN, included : BOOLEAN] /\ NewNode.leaf /\ ~NewNode.included
  BY DEF NewNode
<1>3. World \in Tiles
  BY WorldIsAll
<1>4. \A t \in DOMAIN p : p[t].leaf /\ ~p[t].included /\ p[t] \in [leaf : BOOLEAN, included : BOOLEAN] /\ t = World
  BY <1>1, <1>2
<1>5. IsTree(p)
  BY <1>1, <1>3, <1>4 DEF IsTree
<1>6. CoveredBy(p) = {}
  BY <1>4 DEF CoveredBy
<1>7. \A t \in DOMAIN p : IsNeeded(p, t)
  BY <1>4 DEF IsNeeded
<1>8. QED
  BY <1>5, <1>6, <1>7 DEF IsReduced, p

(* The tree stays reduced.                                                 *)
LEMMA ReducedInvariance == ArraySpec => []IsReduced(tileTree)
<1>1. ArrayInit => IsReduced(tileTree)
  BY NewTree DEF ArrayInit
<1>2. IsReduced(tileTree) /\ [ArrayNext]_tileTree => IsReduced(tileTree)'
  <2> SUFFICES ASSUME IsReduced(tileTree), [ArrayNext]_tileTree PROVE IsReduced(tileTree')
    OBVIOUS
  <2>1. CASE UNCHANGED tileTree
    BY <2>1
  <2>2. CASE ArrayNext
    <3>1. PICK t \in AddedTiles : tileTree' = AddTile(tileTree, t)
      BY <2>2 DEF ArrayNext, Add
    <3>2. QED
      BY <3>1, AddIs, TileArrayAssumption
  <2>3. QED
    BY <2>1, <2>2
<1>3. QED
  BY <1>1, <1>2, PTL DEF ArraySpec

(* However many tiles are added, of whatever zooms and in whatever order:  *)
(* addTile: leaves no node in the tree that is not needed.                 *)
THEOREM SpecTreeIsReduced == ArraySpec => []TreeIsReduced
<1>1. IsReduced(tileTree) => TreeIsReduced
  <2> SUFFICES ASSUME IsReduced(tileTree) PROVE TreeIsReduced
    OBVIOUS
  <2>1. IsTree(tileTree) /\ \A t \in DOMAIN tileTree : t \in Tiles /\ IsNeeded(tileTree, t)
    BY DEF IsReduced, IsTree
  <2>2. ASSUME NEW t \in DOMAIN tileTree, tileTree[t].leaf, NEW s \in DOMAIN tileTree, Cells[s] \subseteq Cells[t]
        PROVE  s = t
    <3>1. Below(s, t)
      BY <2>1, <2>2, CellsOrder
    <3>2. QED
      BY <2>1, <2>2, <3>1 DEF IsTree
  <2>3. ASSUME NEW t \in DOMAIN tileTree, ~tileTree[t].leaf
        PROVE  /\ ~tileTree[t].included
               /\ \A i \in 1..4 : Quarter(t, i) \in DOMAIN tileTree
               /\ \E i \in 1..4 : ~tileTree[Quarter(t, i)].included
               /\ \E i \in 1..4 : tileTree[Quarter(t, i)] # NewNode
    BY <2>1, <2>3 DEF IsTree, IsNeeded
  <2>4. QED
    BY <2>2, <2>3 DEF TreeIsReduced
<1>2. QED
  BY <1>1, ReducedInvariance, PTL

(* containsTile: and notIncludedSubtilesOfTile: answer for every tile what *)
(* the set of cells added so far would answer.                             *)
THEOREM SpecAnswersAsTheSet == ArraySpec => []AnswersAsTheSet
<1>1. IsReduced(tileTree) => AnswersAsTheSet
  <2> SUFFICES ASSUME IsReduced(tileTree), NEW t \in Tiles
               PROVE  LET answer == NotIncludedSubtilesOfTile(tileTree, t) IN
                      /\ ContainsTile(tileTree, t) <=> Cover!Contains(CoveredBy(tileTree), t)
                      /\ ToSet(answer) = Cover!NotIncluded(CoveredBy(tileTree), t)
                      /\ Len(answer) = Cardinality(ToSet(answer))
    BY DEF AnswersAsTheSet
  <2> DEFINE answer == NotIncludedSubtilesOfTile(tileTree, t)
             covered == CoveredBy(tileTree)
  <2>1. /\ ContainsTile(tileTree, t) <=> Cells[t] \subseteq covered
        /\ ToSet(answer) = Maximal(Cells[t] \ covered)
        /\ answer \in Seq(Tiles) /\ IsInjective(answer)
    BY AnswersAre
  <2> HIDE DEF answer, covered
  <2>2. Cover!Contains(covered, t) <=> Cells[t] \subseteq covered
    BY CoverIsOfTheSameTiles DEF Cover!Contains
  <2>3. Cover!NotIncluded(covered, t) = Maximal(Cells[t] \ covered)
    BY CoverIsOfTheSameTiles DEF Cover!NotIncluded
  <2>4. Len(answer) = Cardinality(ToSet(answer))
    BY <2>1, LengthOfInjective
  <2>5. QED
    BY <2>1, <2>2, <2>3, <2>4 DEF answer, covered
<1>2. QED
  BY <1>1, ReducedInvariance, PTL

(* The quad tree implements the set of cells: addTile: adds those of its   *)
(* tile and no other, whatever it expands and folds on the way.            *)
THEOREM SpecArrayImplementsCover == ArraySpec => ImplementsCover
<1>1. ArrayInit => Cover!CoverInit
  BY NewTree DEF ArrayInit, Cover!CoverInit
<1>2. ASSUME IsReduced(tileTree), NEW t \in AddedTiles, Add(t) PROVE Cover!CoverAdd(t)
  <2>1. tileTree' = AddTile(tileTree, t)
    BY <1>2 DEF Add
  <2>2. CoveredBy(tileTree') = CoveredBy(tileTree) \cup Cells[t]
    BY <1>2, <2>1, AddIs, TileArrayAssumption
  <2>3. CoveredBy(tileTree)' = CoveredBy(tileTree')
    BY DEF CoveredBy
  <2>4. CoveredBy(tileTree)' = Cover!AddTo(CoveredBy(tileTree), t)
    BY <2>2, <2>3, CoverIsOfTheSameTiles DEF Cover!AddTo
  <2>5. QED
    BY <2>4 DEF Cover!CoverAdd
<1>3. IsReduced(tileTree) /\ [ArrayNext]_tileTree => [Cover!CoverNext]_(CoveredBy(tileTree))
  <2> SUFFICES ASSUME IsReduced(tileTree), [ArrayNext]_tileTree PROVE [Cover!CoverNext]_(CoveredBy(tileTree))
    OBVIOUS
  <2>1. CASE UNCHANGED tileTree
    BY <2>1 DEF CoveredBy
  <2>2. CASE ArrayNext
    <3>1. PICK t \in AddedTiles : Add(t)
      BY <2>2 DEF ArrayNext
    <3>2. Cover!CoverAdd(t) /\ t \in Cover!Tiles
      BY <1>2, <3>1, CoverIsOfTheSameTiles, TileArrayAssumption
    <3>3. Cover!CoverNext
      BY <3>2 DEF Cover!CoverNext
    <3>4. QED
      BY <3>3
  <2>3. QED
    BY <2>1, <2>2
<1>4. IsReduced(tileTree) => [\A t \in AddedTiles : Add(t) => Cover!CoverAdd(t)]_tileTree
  BY <1>2
<1>5. QED
  BY <1>1, <1>3, <1>4, ReducedInvariance, PTL DEF ArraySpec, ImplementsCover, Cover!CoverSpec

-----------------------------------------------------------------------------
(* The inductive invariant.                                                *)

\* How far a connection has come: it is queued until it has a parser; what
\* comes after its answer has ended, and after its stream has been closed.
Stage(rec) ==
  /\ rec.http = "queued" <=> rec.parser = "none"
  /\ rec.http = "ended" => rec.todo = <<>>
  /\ ~rec.open /\ rec.parser # "none" => rec.http = "ended" /\ rec.data = <<>>
  /\ rec.parser = "ended" => rec.pipe = <<>> /\ ~rec.open

\* After the first k objects of a document come those in the stream, those
\* received and not yet written, and those still to be received.
Transit(k, document, pipe, data, todo) ==
  /\ k \in Nat /\ Len(document) = k + Len(pipe) + Len(data) + Len(todo)
  /\ \A n \in 1..Len(pipe) : pipe[n] = document[k + n]
  /\ \A n \in 1..Len(data) : data[n] = document[k + Len(pipe) + n]
  /\ \A n \in 1..Len(todo) : todo[n] = document[k + Len(pipe) + Len(data) + n]

\* What has been parsed of an answer is in the contents, the rest is on its way.
Flow(rec, c, objects) ==
  rec.parser \in {"none", "parsing", "ended"} =>
    \E k \in Nat : /\ Transit(k, rec.document, rec.pipe, rec.data, rec.todo)
                   /\ \A n \in 1..k : <<c, rec.document[n]>> \in objects

Connections ==
  \A c \in Ids : /\ conns[c] \in OSPConnection /\ Len(conns[c].pipe) <= Capacity
                 /\ Stage(conns[c]) /\ Flow(conns[c], c, contents)

\* Where a connection is kept agrees with how far it has come.
Kept ==
  /\ \A c \in ToSet(connectionQueue) : conns[c].http = "queued"
  /\ \A c \in ToSet(started) : conns[c].http # "queued"
  /\ \A c \in ToSet(finishing) \cup ToSet(loaded) : conns[c].parser = "ended"
  /\ loaded \in Seq(Ids)

IInv ==
  /\ TypeOK /\ Connections /\ Kept
  /\ Cardinality(currentConnections) <= MaxSimultaneousConnections
  /\ NoTileTwice /\ NothingForgotten /\ NoIdleSlot

-----------------------------------------------------------------------------
(* Lemmas on the operators of the model.                                   *)

(* What a queue without duplicates holds when its head is taken.           *)
LEMMA TailOfInjective ==
  ASSUME NEW S, NEW s \in Seq(S), IsInjective(s), s # <<>>
  PROVE  /\ Tail(s) \in Seq(S) /\ IsInjective(Tail(s))
         /\ Head(s) \in S /\ Head(s) \in ToSet(s) /\ ToSet(Tail(s)) = ToSet(s) \ {Head(s)}
<1>1. /\ Len(s) \in Nat /\ Len(s) > 0 /\ Head(s) = s[1] /\ DOMAIN s = 1..Len(s)
      /\ Head(s) \in S /\ Tail(s) \in Seq(S) /\ Len(Tail(s)) = Len(s) - 1
      /\ DOMAIN Tail(s) = 1..(Len(s) - 1) /\ \A i \in 1..(Len(s) - 1) : Tail(s)[i] = s[i + 1]
  BY HeadTailProperties, LenProperties, EmptySeq
<1>2. \A i \in 1..Len(s) : i = 1 \/ i - 1 \in 1..(Len(s) - 1)
  BY <1>1
<1>3. IsInjective(Tail(s))
  BY <1>1 DEF IsInjective
<1>4. Head(s) \in ToSet(s)
  BY <1>1 DEF ToSet
<1>5. ASSUME NEW x \in ToSet(Tail(s)) PROVE x \in ToSet(s) \ {Head(s)}
  <2>1. PICK i \in 1..(Len(s) - 1) : x = s[i + 1]
    BY <1>1 DEF ToSet
  <2>2. i + 1 \in 1..Len(s) /\ i + 1 # 1
    BY <1>1
  <2>3. QED
    BY <1>1, <2>1, <2>2 DEF ToSet, IsInjective
<1>6. ASSUME NEW x \in ToSet(s) \ {Head(s)} PROVE x \in ToSet(Tail(s))
  <2>1. PICK i \in 1..Len(s) : x = s[i]
    BY <1>1 DEF ToSet
  <2>2. i - 1 \in 1..(Len(s) - 1) /\ Tail(s)[i - 1] = s[(i - 1) + 1] /\ (i - 1) + 1 = i
    BY <1>1, <1>2, <2>1
  <2>3. QED
    BY <1>1, <2>1, <2>2 DEF ToSet
<1>7. QED
  BY <1>1, <1>3, <1>4, <1>5, <1>6

(* ... and when something new is put at its end.                           *)
LEMMA AppendToInjective ==
  ASSUME NEW S, NEW s \in Seq(S), NEW x \in S
  PROVE  /\ Append(s, x) \in Seq(S) /\ ToSet(Append(s, x)) = ToSet(s) \cup {x}
         /\ IsInjective(s) /\ x \notin ToSet(s) => IsInjective(Append(s, x))
<1>1. /\ Append(s, x) \in Seq(S) /\ Len(s) \in Nat /\ Len(Append(s, x)) = Len(s) + 1
      /\ \A i \in 1..Len(s) : Append(s, x)[i] = s[i]
      /\ Append(s, x)[Len(s) + 1] = x
  BY AppendProperties, LenProperties
<1>2. DOMAIN s = 1..Len(s) /\ DOMAIN Append(s, x) = 1..(Len(s) + 1)
  BY <1>1, LenProperties
<1>3. \A i \in 1..(Len(s) + 1) : i \in 1..Len(s) \/ i = Len(s) + 1
  BY <1>1
<1>4. Len(s) + 1 \in 1..(Len(s) + 1) /\ \A i \in 1..Len(s) : i \in 1..(Len(s) + 1)
  BY <1>1
<1>5. ToSet(Append(s, x)) = ToSet(s) \cup {x}
  BY <1>1, <1>2, <1>3, <1>4 DEF ToSet
<1>6. ASSUME IsInjective(s), x \notin ToSet(s) PROVE IsInjective(Append(s, x))
  BY <1>1, <1>2, <1>3, <1>6 DEF IsInjective, ToSet
<1>7. QED
  BY <1>1, <1>5, <1>6

(* The smaller of two numbers.                                             *)
LEMMA MinOfTwo ==
  ASSUME NEW a \in Int, NEW b \in Int
  PROVE  Min({a, b}) \in {a, b} /\ Min({a, b}) <= a /\ Min({a, b}) <= b
<1>1. \E x \in {a, b} : \A y \in {a, b} : x <= y
  <2>1. CASE a <= b
    BY <2>1
  <2>2. CASE b <= a
    BY <2>2
  <2>3. QED
    BY <2>1, <2>2
<1>2. Min({a, b}) \in {a, b} /\ \A y \in {a, b} : Min({a, b}) <= y
  BY <1>1 DEF Min
<1>3. QED
  BY <1>2

(* The two parts of a sequence that is cut after w of its elements.         *)
LEMMA SplitIs ==
  ASSUME NEW d \in Seq(Nat), NEW w \in 0..Len(d)
  PROVE  /\ SubSeq(d, 1, w) \in Seq(Nat) /\ Len(SubSeq(d, 1, w)) = w
         /\ SubSeq(d, w + 1, Len(d)) \in Seq(Nat) /\ Len(SubSeq(d, w + 1, Len(d))) = Len(d) - w
<1>1. Len(d) \in Nat /\ w \in Nat /\ \A i \in 1..Len(d) : d[i] \in Nat
  OBVIOUS
<1>2. SubSeq(d, 1, w) \in Seq(Nat) /\ Len(SubSeq(d, 1, w)) = w
  <2>1. \A i \in 1..w : d[i] \in Nat
    BY <1>1
  <2>2. (IF 1 <= w THEN w - 1 + 1 ELSE 0) = w
    BY <1>1
  <2>3. QED
    BY <1>1, <2>1, <2>2, SubSeqProperties
<1>3. SubSeq(d, w + 1, Len(d)) \in Seq(Nat) /\ Len(SubSeq(d, w + 1, Len(d))) = Len(d) - w
  <2>1. PICK a, l : a = w + 1 /\ l = Len(d)
    OBVIOUS
  <2>2. a \in Int /\ l \in Int /\ (IF a <= l THEN l - a + 1 ELSE 0) = l - w
    BY <1>1, <2>1
  <2>3. \A i \in a..l : d[i] \in Nat
    BY <1>1, <2>1
  <2>4. SubSeq(d, a, l) \in Seq(Nat) /\ Len(SubSeq(d, a, l)) = l - w
    BY <2>2, <2>3, SubSeqProperties
  <2>5. QED
    BY <2>1, <2>4
<1>4. QED
  BY <1>2, <1>3

(* notIncludedSubtilesOfTile: the maximal tiles of a set of cells cover    *)
(* exactly that set.                                                       *)
LEMMA MaximalCovers ==
  ASSUME NEW S \in SUBSET TilesOfZoom(MaxZoom)
  PROVE  Maximal(S) \subseteq Tiles /\ CellsOf(Maximal(S)) = S
<1>1. MaxZoom \in Nat
  BY TileGeometryAssumption
<1>2. ASSUME NEW c \in S PROVE c \in Tiles /\ Cells[c] = {c}
  <2>1. c \in TilesOfZoom(MaxZoom) /\ c \in Tiles /\ c.zoom = MaxZoom
    BY <1>1 DEF Tiles, TilesOfZoom
  <2>2. 2^(MaxZoom - c.zoom) = 1
    BY <1>1, <2>1
  <2>3. Cells[c] = {d \in TilesOfZoom(MaxZoom) : d.x \div 1 = c.x /\ d.y \div 1 = c.y}
    BY <2>1, <2>2 DEF Cells
  <2>4. \A d \in TilesOfZoom(MaxZoom) : /\ d.x \div 1 = d.x /\ d.y \div 1 = d.y
                                        /\ d = [x |-> d.x, y |-> d.y, zoom |-> MaxZoom]
    BY DEF TilesOfZoom
  <2>5. QED
    BY <2>1, <2>3, <2>4
<1>3. ASSUME NEW c \in S PROVE \E t \in Maximal(S) : c \in Cells[t]
  <2> DEFINE T == {t \in Inside(S) : c \in Cells[t]}
             Z == {t.zoom : t \in T}
  <2>1. c \in T
    BY <1>2 DEF Inside
  <2>2. \A t \in T : t.zoom \in Nat
    BY <1>1 DEF Inside, Tiles, TilesOfZoom
  <2>3. Z \subseteq Nat /\ Z # {}
    BY <2>1, <2>2
  <2>4. PICK z \in Z : \A y \in Z : ~(<<y, z>> \in OpToRel(<, Nat))
    BY <2>3, WFMin, NatLessThanWellFounded
  <2>5. \A y \in Z : ~(y < z)
    BY <2>3, <2>4 DEF OpToRel
  <2>6. PICK t \in T : t.zoom = z
    BY <2>4
  <2>7. t \in Maximal(S)
    BY <2>2, <2>5, <2>6 DEF Maximal
  <2>8. QED
    BY <2>6, <2>7
<1>4. Maximal(S) \subseteq Tiles /\ \A t \in Maximal(S) : Cells[t] \subseteq S
  BY DEF Maximal, Inside
<1>5. QED
  BY <1>3, <1>4 DEF CellsOf

(* What the first w elements of a sequence are, and what is left of it.    *)
LEMMA CutSequence ==
  ASSUME NEW S, NEW s \in Seq(S), NEW w \in 0..Len(s)
  PROVE  /\ SubSeq(s, 1, w) \in Seq(S) /\ Len(SubSeq(s, 1, w)) = w
         /\ \A i \in 1..w : SubSeq(s, 1, w)[i] = s[i]
         /\ SubSeq(s, w + 1, Len(s)) \in Seq(S) /\ Len(SubSeq(s, w + 1, Len(s))) = Len(s) - w
         /\ \A i \in 1..(Len(s) - w) : SubSeq(s, w + 1, Len(s))[i] = s[w + i]
<1>1. PICK n \in Nat : n = Len(s)
  BY LenProperties
<1>2. w \in Nat /\ w <= n /\ \A i \in 1..n : s[i] \in S
  BY <1>1, ElementOfSeq
<1>3. (\A i \in 1..w : s[i] \in S) /\ (\A i \in (w + 1)..n : s[i] \in S)
  <2>1. (\A i \in 1..w : i \in 1..n) /\ (\A i \in (w + 1)..n : i \in 1..n)
    BY <1>2
  <2>2. QED
    BY <1>2, <2>1
<1> DEFINE p == SubSeq(s, 1, w)
           q == SubSeq(s, w + 1, n)
<1>4. /\ p \in Seq(S) /\ Len(p) = (IF 1 <= w THEN w - 1 + 1 ELSE 0)
      /\ \A i \in 1..(w - 1 + 1) : p[i] = s[1 + i - 1]
  BY <1>2, <1>3, SubSeqProperties
<1>5. /\ q \in Seq(S) /\ Len(q) = (IF w + 1 <= n THEN n - (w + 1) + 1 ELSE 0)
      /\ \A i \in 1..(n - (w + 1) + 1) : q[i] = s[w + 1 + i - 1]
  <2>1. w + 1 \in Int /\ n \in Int
    BY <1>2
  <2>2. QED
    BY <1>3, <2>1, SubSeqProperties
<1> HIDE DEF p, q
<1>6. Len(p) = w /\ w - 1 + 1 = w /\ Len(q) = n - w /\ n - (w + 1) + 1 = n - w
  BY <1>2, <1>4, <1>5
<1>7. \A i \in Int : 1 + i - 1 = i /\ w + 1 + i - 1 = w + i
  BY <1>2
<1>8. ASSUME NEW i \in 1..w PROVE p[i] = s[i]
  BY <1>4, <1>6, <1>7
<1>9. ASSUME NEW i \in 1..(n - w) PROVE q[i] = s[w + i]
  BY <1>5, <1>6, <1>7
<1>10. QED
  BY <1>1, <1>4, <1>5, <1>6, <1>8, <1>9 DEF p, q

(* The three ways a document moves on: what was received is written to the *)
(* stream, more is received, an object is parsed.                          *)
LEMMA WriteMovesOn ==
  ASSUME NEW document \in Seq(Nat), NEW pipe \in Seq(Nat), NEW data \in Seq(Nat), NEW todo \in Seq(Nat),
         NEW k \in Nat, Transit(k, document, pipe, data, todo), NEW w \in 0..Len(data)
  PROVE  LET pipe2 == pipe \o SubSeq(data, 1, w)
             data2 == SubSeq(data, w + 1, Len(data))
         IN /\ pipe2 \in Seq(Nat) /\ Len(pipe2) = Len(pipe) + w
            /\ data2 \in Seq(Nat) /\ Len(data2) = Len(data) - w
            /\ Transit(k, document, pipe2, data2, todo)
<1> DEFINE moved == SubSeq(data, 1, w)
           pipe2 == pipe \o moved
           data2 == SubSeq(data, w + 1, Len(data))
<1>1. Len(data) \in Nat /\ Len(pipe) \in Nat /\ Len(todo) \in Nat /\ Len(document) \in Nat /\ w \in Nat /\ w <= Len(data)
  BY LenProperties
<1>2. moved \in Seq(Nat) /\ Len(moved) = w /\ \A i \in 1..w : moved[i] = data[i]
  BY CutSequence
<1>3. /\ data2 \in Seq(Nat) /\ Len(data2) = Len(data) - w
      /\ \A i \in 1..(Len(data) - w) : data2[i] = data[w + i]
  BY CutSequence
<1> HIDE DEF moved, data2
<1>4. /\ pipe2 \in Seq(Nat) /\ Len(pipe2) = Len(pipe) + w
      /\ \A i \in 1..(Len(pipe) + w) :
           pipe2[i] = IF i <= Len(pipe) THEN pipe[i] ELSE moved[i - Len(pipe)]
  BY <1>2, ConcatProperties
<1> HIDE DEF pipe2
<1>5. /\ Len(document) = k + Len(pipe) + Len(data) + Len(todo)
      /\ \A n \in 1..Len(pipe) : pipe[n] = document[k + n]
      /\ \A n \in 1..Len(data) : data[n] = document[k + Len(pipe) + n]
      /\ \A n \in 1..Len(todo) : todo[n] = document[k + Len(pipe) + Len(data) + n]
  BY DEF Transit
<1>6. k + Len(pipe2) + Len(data2) = k + Len(pipe) + Len(data)
  BY <1>1, <1>3, <1>4
<1>7. ASSUME NEW n \in 1..Len(pipe2) PROVE pipe2[n] = document[k + n]
  <2>1. n \in 1..(Len(pipe) + w)
    BY <1>4
  <2>2. CASE n <= Len(pipe)
    <3>1. n \in 1..Len(pipe)
      BY <1>1, <2>1, <2>2
    <3>2. pipe2[n] = pipe[n]
      BY <1>4, <2>1, <2>2
    <3>3. QED
      BY <1>5, <3>1, <3>2
  <2>3. CASE ~(n <= Len(pipe))
    <3>1. /\ n - Len(pipe) \in 1..w /\ n - Len(pipe) \in 1..Len(data)
          /\ k + Len(pipe) + (n - Len(pipe)) = k + n
      BY <1>1, <2>1, <2>3
    <3>2. pipe2[n] = data[n - Len(pipe)]
      BY <1>2, <1>4, <2>1, <2>3, <3>1
    <3>3. QED
      BY <1>5, <3>1, <3>2
  <2>4. QED
    BY <2>2, <2>3
<1>8. ASSUME NEW n \in 1..Len(data2) PROVE data2[n] = document[k + Len(pipe2) + n]
  <2>1. n \in 1..(Len(data) - w)
    BY <1>3
  <2>2. Len(pipe) \in Nat /\ Len(data) \in Nat /\ Len(todo) \in Nat /\ w \in Nat /\ n \in Nat
    BY <1>1, <2>1
  <2>3. w + n \in 1..Len(data)
    BY <2>1, <2>2
  <2>4. k + Len(pipe) + (w + n) = k + Len(pipe2) + n
    <3>1. Len(pipe2) = Len(pipe) + w
      BY <1>4
    <3>2. QED
      BY <2>2, <3>1
  <2>5. QED
    BY <1>3, <1>5, <2>1, <2>3, <2>4
<1>9. Transit(k, document, pipe2, data2, todo)
  BY <1>1, <1>3, <1>4, <1>5, <1>6, <1>7, <1>8 DEF Transit
<1>10. QED
  BY <1>3, <1>4, <1>9 DEF pipe2, data2, moved

(* Data that are received wait behind those received before.               *)
LEMMA ReceiptMovesOn ==
  ASSUME NEW document \in Seq(Nat), NEW pipe \in Seq(Nat), NEW data \in Seq(Nat), NEW todo \in Seq(Nat),
         NEW k \in Nat, Transit(k, document, pipe, data, todo), NEW w \in 1..Len(todo)
  PROVE  LET data2 == data \o SubSeq(todo, 1, w)
             todo2 == SubSeq(todo, w + 1, Len(todo))
         IN /\ data2 \in Seq(Nat) /\ todo2 \in Seq(Nat)
            /\ Transit(k, document, pipe, data2, todo2)
<1> DEFINE moved == SubSeq(todo, 1, w)
           data2 == data \o moved
           todo2 == SubSeq(todo, w + 1, Len(todo))
<1>1. Len(data) \in Nat /\ Len(pipe) \in Nat /\ Len(todo) \in Nat /\ Len(document) \in Nat /\ w \in Nat /\ w <= Len(todo) /\ w \in 0..Len(todo)
  BY LenProperties
<1>2. moved \in Seq(Nat) /\ Len(moved) = w /\ \A i \in 1..w : moved[i] = todo[i]
  BY <1>1, CutSequence
<1>3. /\ todo2 \in Seq(Nat) /\ Len(todo2) = Len(todo) - w
      /\ \A i \in 1..(Len(todo) - w) : todo2[i] = todo[w + i]
  BY <1>1, CutSequence
<1> HIDE DEF moved, todo2
<1>4. /\ data2 \in Seq(Nat) /\ Len(data2) = Len(data) + w
      /\ \A i \in 1..(Len(data) + w) :
           data2[i] = IF i <= Len(data) THEN data[i] ELSE moved[i - Len(data)]
  BY <1>2, ConcatProperties
<1> HIDE DEF data2
<1>5. /\ Len(document) = k + Len(pipe) + Len(data) + Len(todo)
      /\ \A n \in 1..Len(pipe) : pipe[n] = document[k + n]
      /\ \A n \in 1..Len(data) : data[n] = document[k + Len(pipe) + n]
      /\ \A n \in 1..Len(todo) : todo[n] = document[k + Len(pipe) + Len(data) + n]
  BY DEF Transit
<1>6. ASSUME NEW n \in 1..Len(data2) PROVE data2[n] = document[k + Len(pipe) + n]
  <2>1. n \in 1..(Len(data) + w)
    BY <1>4
  <2>2. CASE n <= Len(data)
    <3>1. n \in 1..Len(data)
      BY <1>1, <2>1, <2>2
    <3>2. data2[n] = data[n]
      BY <1>4, <2>1, <2>2
    <3>3. QED
      BY <1>5, <3>1, <3>2
  <2>3. CASE ~(n <= Len(data))
    <3>1. /\ n - Len(data) \in 1..w /\ n - Len(data) \in 1..Len(todo)
          /\ k + Len(pipe) + Len(data) + (n - Len(data)) = k + Len(pipe) + n
      BY <1>1, <2>1, <2>3
    <3>2. data2[n] = todo[n - Len(data)]
      BY <1>2, <1>4, <2>1, <2>3, <3>1
    <3>3. QED
      BY <1>5, <3>1, <3>2
  <2>4. QED
    BY <2>2, <2>3
<1>7. ASSUME NEW n \in 1..Len(todo2) PROVE todo2[n] = document[k + Len(pipe) + Len(data2) + n]
  <2>1. n \in 1..(Len(todo) - w)
    BY <1>3
  <2>2. Len(pipe) \in Nat /\ Len(data) \in Nat /\ Len(todo) \in Nat /\ w \in Nat /\ n \in Nat
    BY <1>1, <2>1
  <2>3. w + n \in 1..Len(todo)
    BY <2>1, <2>2
  <2>4. k + Len(pipe) + Len(data) + (w + n) = k + Len(pipe) + Len(data2) + n
    <3>1. Len(data2) = Len(data) + w
      BY <1>4
    <3>2. QED
      BY <2>2, <3>1
  <2>5. QED
    BY <1>3, <1>5, <2>1, <2>3, <2>4
<1>8. Transit(k, document, pipe, data2, todo2)
  BY <1>1, <1>3, <1>4, <1>5, <1>6, <1>7 DEF Transit
<1>9. QED
  BY <1>3, <1>4, <1>8 DEF data2, todo2, moved

(* The parser takes the next chunk of the document out of the pipe.        *)
LEMMA ParsingMovesOn ==
  ASSUME NEW document \in Seq(Nat), NEW pipe \in Seq(Nat), NEW data \in Seq(Nat), NEW todo \in Seq(Nat),
         NEW k \in Nat, Transit(k, document, pipe, data, todo), pipe # <<>>
  PROVE  /\ Tail(pipe) \in Seq(Nat) /\ Len(Tail(pipe)) = Len(pipe) - 1
         /\ Head(pipe) \in Nat /\ document[k + 1] = Head(pipe)
         /\ Transit(k + 1, document, Tail(pipe), data, todo)
<1>1. Len(data) \in Nat /\ Len(pipe) \in Nat /\ Len(todo) \in Nat /\ Len(document) \in Nat /\ Len(pipe) > 0
  BY LenProperties, EmptySeq
<1>2. /\ Tail(pipe) \in Seq(Nat) /\ Len(Tail(pipe)) = Len(pipe) - 1 /\ Head(pipe) = pipe[1] /\ Head(pipe) \in Nat
      /\ \A i \in 1..(Len(pipe) - 1) : Tail(pipe)[i] = pipe[i + 1]
  BY HeadTailProperties
<1>3. /\ Len(document) = k + Len(pipe) + Len(data) + Len(todo)
      /\ \A n \in 1..Len(pipe) : pipe[n] = document[k + n]
      /\ \A n \in 1..Len(data) : data[n] = document[k + Len(pipe) + n]
      /\ \A n \in 1..Len(todo) : todo[n] = document[k + Len(pipe) + Len(data) + n]
  BY DEF Transit
<1>4. document[k + 1] = Head(pipe)
  BY <1>1, <1>2, <1>3
<1> DEFINE tail == Tail(pipe)
<1> HIDE DEF tail
<1>5. /\ Len(tail) = Len(pipe) - 1 /\ \A i \in 1..(Len(pipe) - 1) : tail[i] = pipe[i + 1]
  BY <1>2 DEF tail
<1>6. (k + 1) + Len(tail) = k + Len(pipe) /\ Len(tail) \in Nat
  BY <1>1, <1>5
<1>7. ASSUME NEW n \in 1..Len(tail) PROVE tail[n] = document[(k + 1) + n]
  <2>1. n \in 1..(Len(pipe) - 1) /\ n + 1 \in 1..Len(pipe) /\ k + (n + 1) = (k + 1) + n
    BY <1>1, <1>5
  <2>2. QED
    BY <1>3, <1>5, <2>1
<1>8. /\ \A n \in 1..Len(data) : data[n] = document[(k + 1) + Len(tail) + n]
      /\ \A n \in 1..Len(todo) : todo[n] = document[(k + 1) + Len(tail) + Len(data) + n]
  BY <1>3, <1>6
<1>9. k + 1 \in Nat /\ Len(document) = (k + 1) + Len(tail) + Len(data) + Len(todo)
  <2>1. Len(document) = k + Len(pipe) + Len(data) + Len(todo)
    BY <1>3
  <2>2. Len(document) = (k + 1) + Len(tail) + Len(data) + Len(todo)
    BY <1>6, <2>1
  <2>3. k + 1 \in Nat
    OBVIOUS
  <2>4. QED
    BY <2>2, <2>3
<1>10. Transit(k + 1, document, tail, data, todo)
  BY <1>7, <1>8, <1>9 DEF Transit
<1>11. QED
  BY <1>2, <1>4, <1>10 DEF tail

(* attemptToWriteToStream.                                                 *)
LEMMA WriteKeeps ==
  ASSUME NEW rec \in OSPConnection, NEW c, NEW objects, Len(rec.pipe) <= Capacity,
         Stage(rec), Flow(rec, c, objects), rec.parser # "ended"
  PROVE  LET new == AttemptToWriteToStream(rec) IN
         /\ new \in OSPConnection /\ Len(new.pipe) <= Capacity
         /\ Stage(new) /\ Flow(new, c, objects)
         /\ new.tile = rec.tile /\ new.http = rec.http /\ new.parser = rec.parser
<1> DEFINE w == Min({Len(rec.data), Capacity - Len(rec.pipe)})
           pipe == rec.pipe \o SubSeq(rec.data, 1, w)
           data == SubSeq(rec.data, w + 1, Len(rec.data))
           armed == rec.armed \/ w > 0
           new == AttemptToWriteToStream(rec)
<1>1. /\ rec.data \in Seq(Nat) /\ rec.pipe \in Seq(Nat) /\ rec.todo \in Seq(Nat) /\ rec.document \in Documents
      /\ rec.document \in Seq(Nat)
  BY MapServerAssumption DEF OSPConnection
<1>2. Len(rec.data) \in Nat /\ Len(rec.pipe) \in Nat /\ Capacity \in Nat
  BY <1>1, LenProperties, MapServerAssumption
<1>3. w \in 0..Len(rec.data) /\ Len(rec.pipe) + w <= Capacity
  <2>1. Len(rec.data) \in Int /\ Capacity - Len(rec.pipe) \in Int
    BY <1>2
  <2>2. /\ w \in {Len(rec.data), Capacity - Len(rec.pipe)}
        /\ w <= Len(rec.data) /\ w <= Capacity - Len(rec.pipe)
    BY <2>1, MinOfTwo
  <2> HIDE DEF w
  <2>3. QED
    BY <1>2, <2>2
<1>4. new = [rec EXCEPT !.pipe = pipe, !.data = data, !.armed = armed]
  BY DEF AttemptToWriteToStream
<1> HIDE DEF w
<1>5. pipe \in Seq(Nat) /\ data \in Seq(Nat) /\ Len(pipe) = Len(rec.pipe) + w /\ Len(data) = Len(rec.data) - w
  <2>1. pipe \in Seq(Nat) /\ Len(pipe) = Len(rec.pipe) + w
    <3>1. SubSeq(rec.data, 1, w) \in Seq(Nat) /\ Len(SubSeq(rec.data, 1, w)) = w
      BY <1>1, <1>3, SplitIs
    <3>2. PICK s : s = SubSeq(rec.data, 1, w)
      OBVIOUS
    <3>3. rec.pipe \o s \in Seq(Nat) /\ Len(rec.pipe \o s) = Len(rec.pipe) + w
      BY ONLY <1>1, <3>1, <3>2, ConcatProperties
    <3>4. QED
      BY <3>2, <3>3
  <2>2. data \in Seq(Nat) /\ Len(data) = Len(rec.data) - w
    BY <1>1, <1>3, SplitIs
  <2>3. QED
    BY <2>1, <2>2
<1>6. ASSUME NEW k \in Nat, Transit(k, rec.document, rec.pipe, rec.data, rec.todo)
      PROVE  Transit(k, rec.document, pipe, data, rec.todo)
  BY <1>1, <1>3, <1>6, WriteMovesOn
<1>7. armed \in BOOLEAN
  BY DEF OSPConnection
<1> HIDE DEF pipe, data, armed, new
<1>8. /\ new \in OSPConnection /\ new.pipe = pipe /\ new.data = data /\ new.todo = rec.todo
      /\ new.document = rec.document /\ new.tile = rec.tile /\ new.http = rec.http
      /\ new.parser = rec.parser /\ new.open = rec.open
  BY <1>4, <1>5, <1>7 DEF OSPConnection
<1>9. rec.data = <<>> => data = <<>>
  <2>1. SUFFICES ASSUME rec.data = <<>> PROVE data = <<>>
    OBVIOUS
  <2>2. Len(rec.data) = 0
    BY <2>1
  <2>3. w = 0
    BY <1>3, <2>2
  <2>4. Len(data) = 0
    BY <1>5, <2>2, <2>3
  <2>5. QED
    BY <1>5, <2>4, EmptySeq
<1>10. Stage(new)
  BY <1>8, <1>9 DEF Stage
<1>11. Flow(new, c, objects)
  BY <1>6, <1>8 DEF Flow
<1>12. Len(new.pipe) <= Capacity
  BY <1>3, <1>5, <1>8
<1>13. QED
  BY <1>8, <1>10, <1>11, <1>12 DEF new

-----------------------------------------------------------------------------
(* Each action keeps the invariant.                                        *)

(* What a sequence holds is of its type, and of any wider one.             *)
LEMMA SeqElements ==
  ASSUME NEW S, NEW s \in Seq(S), NEW T, S \subseteq T
  PROVE  /\ ToSet(s) \subseteq S /\ s \in Seq(T) /\ Len(s) \in Nat
         /\ \A i \in 1..Len(s) : s[i] \in S /\ s[i] \in ToSet(s)
<1>1. DOMAIN s = 1..Len(s) /\ Len(s) \in Nat /\ \A i \in 1..Len(s) : s[i] \in S
  BY LenProperties, ElementOfSeq
<1>2. ToSet(s) \subseteq S
  BY <1>1 DEF ToSet
<1>3. s \in Seq(T)
  BY <1>1
<1>4. QED
  BY <1>1, <1>2, <1>3 DEF ToSet

(* The tiles of the connections made do not change.                        *)
LEMMA TilesOfConnections ==
  ASSUME TypeOK, \A c \in Ids : conns'[c].tile = conns[c].tile, started' = started,
         NEW ids, ids \subseteq Ids
  PROVE  /\ {conns'[c].tile : c \in ids} = {conns[c].tile : c \in ids}
         /\ NoTileTwice => NoTileTwice'
<1>1. {conns'[c].tile : c \in ids} = {conns[c].tile : c \in ids}
  OBVIOUS
<1>2. ASSUME NoTileTwice PROVE NoTileTwice'
  <2>1. Len(started) \in Nat /\ \A i \in 1..Len(started) : started[i] \in Ids
    BY SeqElements DEF TypeOK
  <2>2. ASSUME NEW i \in 1..Len(started)
        PROVE  ~ Cells[conns'[started'[i]].tile] \subseteq CellsOf({conns'[started'[j]].tile : j \in 1..(i - 1)})
    <3>1. \A j \in 1..(i - 1) : j \in 1..Len(started)
      BY <2>1
    <3>2. \A j \in 1..(i - 1) : conns'[started'[j]].tile = conns[started[j]].tile
      BY <2>1, <3>1
    <3>3. {conns'[started'[j]].tile : j \in 1..(i - 1)} = {conns[started[j]].tile : j \in 1..(i - 1)}
      BY <3>2
    <3>4. conns'[started'[i]].tile = conns[started[i]].tile
      BY <2>1
    <3>5. ~ Cells[conns[started[i]].tile] \subseteq CellsOf({conns[started[j]].tile : j \in 1..(i - 1)})
      BY <1>2 DEF NoTileTwice
    <3>6. QED
      BY <3>3, <3>4, <3>5
  <2>3. QED
    BY <2>2 DEF NoTileTwice
<1>3. QED
  BY <1>1, <1>2

(* A step of one connection.                                               *)
LEMMA ConnectionChanges ==
  ASSUME IInv, NEW c \in Ids, NEW rec \in OSPConnection, conns' = [conns EXCEPT ![c] = rec],
         Len(rec.pipe) <= Capacity, Stage(rec), Flow(rec, c, contents'),
         rec.tile = conns[c].tile, rec.http = "queued" <=> conns[c].http = "queued",
         conns[c].parser = "ended" => rec.parser = "ended",
         contents \subseteq contents', contents' \subseteq Ids \X Nat,
         finishing' = finishing \/ (finishing' = Append(finishing, c) /\ conns[c].parser # "ended" /\ rec.parser = "ended"),
         \/ UNCHANGED <<currentConnections, popping>>
         \/ /\ currentConnections' = currentConnections \ {c}
            /\ popping' = popping \cup {Main} \/ popping' = popping \cup {c},
         UNCHANGED <<connectionQueue, requestedTiles, tiles, subTiles, lock, crashed, loads,
                     asked, dropped, started, loaded>>
  PROVE  IInv'
<1>1. /\ TypeOK /\ Connections /\ Kept /\ NoTileTwice /\ NothingForgotten /\ NoIdleSlot
      /\ Cardinality(currentConnections) <= MaxSimultaneousConnections
  BY DEF IInv
<1>2. conns \in Seq(OSPConnection) /\ Len(conns) \in Nat
  BY <1>1, LenProperties DEF TypeOK
<1>3. /\ conns' \in Seq(OSPConnection) /\ Len(conns') = Len(conns)
      /\ \A i \in Ids : conns'[i] = IF i = c THEN rec ELSE conns[i]
  BY <1>2, ExceptSeq DEF Ids
<1>4. Ids' = Ids
  BY <1>3 DEF Ids
<1>5. Connections'
  <2>1. ASSUME NEW i \in Ids, i # c PROVE Flow(conns[i], i, contents')
    BY <1>1, <2>1 DEF Connections, Flow
  <2>2. QED
    BY <1>1, <1>3, <1>4, <2>1 DEF Connections
<1>6. /\ ToSet(connectionQueue) \subseteq Ids /\ ToSet(started) \subseteq Ids
      /\ ToSet(finishing) \subseteq Ids /\ ToSet(loaded) \subseteq Ids
  BY <1>1, SeqElements DEF TypeOK, Kept
<1>7. /\ finishing' \in Seq(Ids) /\ IsInjective(finishing')
      /\ \A i \in ToSet(finishing') : conns'[i].parser = "ended"
  <2>1. CASE finishing' = finishing
    BY <1>1, <1>3, <1>6, <2>1 DEF TypeOK, Kept
  <2>2. CASE finishing' = Append(finishing, c) /\ conns[c].parser # "ended" /\ rec.parser = "ended"
    <3>1. c \notin ToSet(finishing)
      BY <1>1, <2>2 DEF Kept
    <3>2. /\ Append(finishing, c) \in Seq(Ids) /\ IsInjective(Append(finishing, c))
          /\ ToSet(Append(finishing, c)) = ToSet(finishing) \cup {c}
      BY <1>1, <3>1, AppendToInjective DEF TypeOK
    <3>3. QED
      BY <1>1, <1>3, <1>6, <2>2, <3>2 DEF Kept
  <2>3. QED
    BY <2>1, <2>2
<1>8. Kept'
  BY <1>1, <1>3, <1>4, <1>6, <1>7 DEF Kept
<1>9. /\ currentConnections' \subseteq currentConnections /\ popping \subseteq popping'
      /\ popping' \subseteq {Main} \cup Ids
      /\ popping' = {} => UNCHANGED currentConnections
  BY <1>1 DEF TypeOK
<1>10. TypeOK'
  <2>1. /\ connectionQueue' \in Seq(Ids) /\ IsInjective(connectionQueue')
        /\ currentConnections' \subseteq Ids \ ToSet(connectionQueue')
        /\ started' \in Seq(Ids) /\ IsInjective(started')
    BY <1>1, <1>9 DEF TypeOK
  <2>2. /\ requestedTiles' \subseteq TilesOfZoom(MaxZoom) /\ tiles' \in Seq(Tiles) /\ subTiles' \subseteq Tiles
        /\ lock' \in {NoThread} \cup popping' /\ crashed' \in BOOLEAN /\ loads' \in 0..MaxLoads
    BY <1>1, <1>9 DEF TypeOK
  <2>3. \A i \in Ids : Len(conns'[i].pipe) <= Capacity
    BY <1>4, <1>5 DEF Connections
  <2>4. QED
    BY <1>3, <1>4, <1>7, <1>9, <2>1, <2>2, <2>3 DEF TypeOK
<1>11. \A i \in Ids : conns'[i].tile = conns[i].tile
  BY <1>3
<1>12. NoTileTwice'
  BY <1>1, <1>11, TilesOfConnections
<1>13. NothingForgotten'
  <2>1. /\ {conns'[i].tile : i \in ToSet(started)} = {conns[i].tile : i \in ToSet(started)}
        /\ {conns'[i].tile : i \in ToSet(connectionQueue)} = {conns[i].tile : i \in ToSet(connectionQueue)}
    BY <1>1, <1>6, <1>11, TilesOfConnections
  <2>2. QED
    BY <1>1, <2>1 DEF NothingForgotten
<1>14. NoIdleSlot'
  BY <1>1, <1>9 DEF NoIdleSlot
<1>15. Cardinality(currentConnections') <= MaxSimultaneousConnections
  <2>1. IsFiniteSet(Ids) /\ currentConnections \subseteq Ids
    BY <1>1, <1>2, FS_Interval DEF Ids, TypeOK
  <2>2. IsFiniteSet(currentConnections) /\ Cardinality(currentConnections) \in Nat
    BY <2>1, FS_Subset, FS_CardinalityType
  <2>3. Cardinality(currentConnections') <= Cardinality(currentConnections) /\ Cardinality(currentConnections') \in Nat
    BY <1>9, <2>2, FS_Subset, FS_CardinalityType
  <2>4. QED
    BY <1>1, <2>2, <2>3, MapServerAssumption
<1>16. QED
  BY <1>5, <1>8, <1>10, <1>12, <1>13, <1>14, <1>15 DEF IInv

(* The fields of a connection.                                             *)
LEMMA ConnectionFields ==
  ASSUME IInv, NEW c \in Ids
  PROVE  LET rec == conns[c] IN
         /\ rec \in OSPConnection /\ Len(rec.pipe) <= Capacity /\ Stage(rec) /\ Flow(rec, c, contents)
         /\ rec.tile \in Tiles /\ rec.document \in Seq(Nat)
         /\ rec.pipe \in Seq(Nat) /\ rec.data \in Seq(Nat) /\ rec.todo \in Seq(Nat)
<1>1. conns[c] \in OSPConnection /\ Len(conns[c].pipe) <= Capacity /\ Stage(conns[c]) /\ Flow(conns[c], c, contents)
  BY DEF IInv, Connections
<1>2. QED
  BY <1>1, MapServerAssumption DEF OSPConnection

(* A callback that leaves rec and then writes what it can to the stream.   *)
LEMMA UpdateKeeps ==
  ASSUME IInv, NEW c \in Ids, NEW rec \in OSPConnection, Len(rec.pipe) <= Capacity,
         Stage(rec), Flow(rec, c, contents), rec.parser = conns[c].parser, rec.parser # "ended",
         rec.tile = conns[c].tile, rec.http = "queued" <=> conns[c].http = "queued",
         conns' = [conns EXCEPT ![c] = AttemptToWriteToStream(rec)],
         UNCHANGED <<connectionQueue, currentConnections, requestedTiles, contents, tiles, subTiles,
                     popping, lock, finishing, crashed, history>>
  PROVE  IInv'
<1> DEFINE new == AttemptToWriteToStream(rec)
<1>1. /\ new \in OSPConnection /\ Len(new.pipe) <= Capacity
      /\ Stage(new) /\ Flow(new, c, contents)
      /\ new.tile = rec.tile /\ new.http = rec.http /\ new.parser = rec.parser
  BY WriteKeeps
<1>2. conns' = [conns EXCEPT ![c] = new]
  OBVIOUS
<1> HIDE DEF new
<1>3. contents' = contents /\ contents \subseteq Ids \X Nat
  BY DEF IInv, TypeOK
<1>4. QED
  BY <1>1, <1>2, <1>3, ConnectionChanges DEF history

(* connection:didReceiveData:, also when it ends the program.              *)
LEMMA DidReceiveDataInv ==
  ASSUME IInv, NEW c, DidReceiveData(c)
  PROVE  IInv'
<1>1. /\ c \in Ids /\ conns[c].http = "running" /\ conns[c].todo # <<>>
      /\ UNCHANGED <<connectionQueue, currentConnections, requestedTiles, contents, tiles, subTiles,
                     popping, lock, finishing, mapArea, history>>
  BY DEF DidReceiveData, Running
<1>2. /\ conns[c] \in OSPConnection /\ Len(conns[c].pipe) <= Capacity
      /\ Stage(conns[c]) /\ Flow(conns[c], c, contents)
      /\ conns[c].document \in Seq(Nat)
      /\ conns[c].pipe \in Seq(Nat) /\ conns[c].data \in Seq(Nat) /\ conns[c].todo \in Seq(Nat)
  BY <1>1, ConnectionFields
<1>3. CASE crashed' = TRUE /\ UNCHANGED conns
  <2>1. TypeOK'
    BY <1>1, <1>3 DEF IInv, TypeOK, Ids, history
  <2>2. Connections' /\ Kept'
    BY <1>1, <1>3 DEF IInv, Connections, Kept, Ids, history
  <2>3. NoTileTwice'
    BY <1>1, <1>3 DEF IInv, NoTileTwice, history
  <2>4. NothingForgotten'
    BY <1>1, <1>3 DEF IInv, NothingForgotten, history
  <2>5. NoIdleSlot'
    BY <1>1, <1>3 DEF IInv, NoIdleSlot, history
  <2>6. QED
    BY <1>1, <2>1, <2>2, <2>3, <2>4, <2>5 DEF IInv
<1>4. ASSUME NEW n \in 1..Len(conns[c].todo),
             conns[c].parser # "failed",
             Update(c, [conns[c] EXCEPT !.todo = SubSeq(conns[c].todo, n + 1, Len(conns[c].todo)),
                                        !.data = conns[c].data \o SubSeq(conns[c].todo, 1, n)])
      PROVE  IInv'
  <2> DEFINE data == conns[c].data \o SubSeq(conns[c].todo, 1, n)
             todo == SubSeq(conns[c].todo, n + 1, Len(conns[c].todo))
             rec == [conns[c] EXCEPT !.todo = todo, !.data = data]
  <2>1. data \in Seq(Nat) /\ todo \in Seq(Nat)
    <3>1. /\ Len(conns[c].todo) \in Nat
          /\ \A i \in 1..Len(conns[c].todo) : conns[c].todo[i] \in Nat
      BY <1>2, LenProperties, ElementOfSeq
    <3>2. /\ \A i \in 1..n : conns[c].todo[i] \in Nat
          /\ \A i \in (n + 1)..Len(conns[c].todo) : conns[c].todo[i] \in Nat
      BY <3>1
    <3>3. todo \in Seq(Nat)
      BY <3>1, <3>2, SubSeqProperties
    <3>4. SubSeq(conns[c].todo, 1, n) \in Seq(Nat)
      BY <3>1, <3>2, SubSeqProperties
    <3>5. QED
      BY <1>2, <3>3, <3>4, ConcatProperties
  <2>2. ASSUME NEW k \in Nat, Transit(k, conns[c].document, conns[c].pipe, conns[c].data, conns[c].todo)
        PROVE  Transit(k, conns[c].document, conns[c].pipe, data, todo)
    BY <1>2, <2>2, ReceiptMovesOn
  <2>3. conns' = [conns EXCEPT ![c] = AttemptToWriteToStream(rec)] /\ UNCHANGED crashed
    BY <1>4 DEF Update
  <2> HIDE DEF data, todo
  <2>4. /\ rec \in OSPConnection /\ rec.todo = todo /\ rec.data = data /\ rec.pipe = conns[c].pipe
        /\ rec.document = conns[c].document /\ rec.tile = conns[c].tile /\ rec.http = conns[c].http
        /\ rec.parser = conns[c].parser /\ rec.open = conns[c].open
    BY <1>2, <2>1 DEF OSPConnection
  <2> HIDE DEF rec
  <2>5. rec.parser # "ended" /\ Stage(rec)
    BY <1>1, <1>2, <2>4 DEF Stage
  <2>6. Flow(rec, c, contents)
    BY <1>2, <2>2, <2>4 DEF Flow
  <2>7. QED
    BY <1>1, <1>2, <2>3, <2>4, <2>5, <2>6, UpdateKeeps
<1>5. ASSUME NEW n \in 1..Len(conns[c].todo)
      PROVE  [conns[c] EXCEPT !.todo = SubSeq(conns[c].todo, n + 1, Len(conns[c].todo)),
                              !.data = conns[c].data \o SubSeq(conns[c].todo, 1, n)].parser = conns[c].parser
  BY <1>2 DEF OSPConnection
<1>6. PICK n \in 1..Len(conns[c].todo) :
        LET rec == [conns[c] EXCEPT !.todo = SubSeq(conns[c].todo, n + 1, Len(conns[c].todo)),
                                    !.data = conns[c].data \o SubSeq(conns[c].todo, 1, n)]
        IN IF rec.parser = "failed" THEN crashed' = TRUE /\ UNCHANGED conns ELSE Update(c, rec)
  BY DEF DidReceiveData
<1>7. QED
  BY <1>3, <1>4, <1>5, <1>6

(* connectionDidFinishLoading:                                             *)
LEMMA DidFinishLoadingInv ==
  ASSUME IInv, NEW c, DidFinishLoading(c)
  PROVE  IInv'
<1> DEFINE rec == [conns[c] EXCEPT !.http = "ended"]
<1>1. /\ c \in Ids /\ conns[c].http = "running" /\ conns[c].todo = <<>>
      /\ conns' = [conns EXCEPT ![c] = AttemptToWriteToStream(rec)] /\ UNCHANGED crashed
      /\ UNCHANGED <<connectionQueue, currentConnections, requestedTiles, contents, tiles, subTiles,
                     popping, lock, finishing, mapArea, history>>
  BY DEF DidFinishLoading, Running, Update
<1>2. /\ conns[c] \in OSPConnection /\ Len(conns[c].pipe) <= Capacity
      /\ Stage(conns[c]) /\ Flow(conns[c], c, contents)
  BY <1>1, ConnectionFields
<1>3. /\ rec \in OSPConnection /\ rec.todo = conns[c].todo /\ rec.data = conns[c].data
      /\ rec.pipe = conns[c].pipe /\ rec.document = conns[c].document /\ rec.tile = conns[c].tile
      /\ rec.http = "ended" /\ rec.parser = conns[c].parser /\ rec.open = conns[c].open
  BY <1>2 DEF OSPConnection
<1> HIDE DEF rec
<1>4. rec.parser # "ended" /\ Stage(rec)
  BY <1>1, <1>2, <1>3 DEF Stage
<1>5. Flow(rec, c, contents)
  BY <1>2, <1>3 DEF Flow
<1>6. QED
  BY <1>1, <1>2, <1>3, <1>4, <1>5, UpdateKeeps

(* connection:didFailWithError:                                            *)
LEMMA DidFailWithErrorInv ==
  ASSUME IInv, NEW c, DidFailWithError(c)
  PROVE  IInv'
<1> DEFINE rec == [conns[c] EXCEPT !.http = "failed",
                                   !.parser = IF conns[c].parser = "parsing" THEN "abandoned" ELSE conns[c].parser,
                                   !.armed = FALSE]
<1>1. /\ c \in Ids /\ conns[c].http = "running" /\ conns' = [conns EXCEPT ![c] = rec]
      /\ currentConnections' = currentConnections \ {c} /\ popping' = popping \cup {Main}
      /\ UNCHANGED <<connectionQueue, requestedTiles, contents, tiles, subTiles, lock, finishing,
                     mapArea, crashed, history>>
  BY DEF DidFailWithError, Running, RemoveConnection
<1>2. /\ conns[c] \in OSPConnection /\ Len(conns[c].pipe) <= Capacity
      /\ Stage(conns[c]) /\ Flow(conns[c], c, contents)
  BY <1>1, ConnectionFields
<1>3. /\ rec \in OSPConnection /\ rec.todo = conns[c].todo /\ rec.data = conns[c].data
      /\ rec.pipe = conns[c].pipe /\ rec.document = conns[c].document /\ rec.tile = conns[c].tile
      /\ rec.http = "failed" /\ rec.open = conns[c].open
      /\ rec.parser = IF conns[c].parser = "parsing" THEN "abandoned" ELSE conns[c].parser
  BY <1>2 DEF OSPConnection
<1> HIDE DEF rec
<1>4. conns[c].parser # "none" /\ conns[c].parser # "ended" /\ conns[c].open \in BOOLEAN
  BY <1>1, <1>2 DEF Stage, OSPConnection
<1>5. Stage(rec) /\ Flow(rec, c, contents)
  BY <1>1, <1>2, <1>3, <1>4 DEF Stage, Flow, OSPConnection
<1>6. contents' \subseteq Ids \X Nat
  BY <1>1 DEF IInv, TypeOK
<1>7. QED
  BY <1>1, <1>2, <1>3, <1>4, <1>5, <1>6, ConnectionChanges DEF history

(* stream:handleEvent:                                                     *)
LEMMA HasSpaceAvailableInv ==
  ASSUME IInv, NEW c, HasSpaceAvailable(c)
  PROVE  IInv'
<1> DEFINE rec == [conns[c] EXCEPT !.armed = FALSE]
           closed == [rec EXCEPT !.open = FALSE]
<1>1. /\ c \in Ids /\ conns[c].parser = "parsing"
      /\ UNCHANGED <<connectionQueue, currentConnections, requestedTiles, contents, tiles, subTiles,
                     popping, lock, finishing, mapArea, crashed, history>>
  BY DEF HasSpaceAvailable
<1>2. /\ conns[c] \in OSPConnection /\ Len(conns[c].pipe) <= Capacity
      /\ Stage(conns[c]) /\ Flow(conns[c], c, contents)
  BY <1>1, ConnectionFields
<1>3. conns' = [conns EXCEPT ![c] = IF rec.http = "ended" /\ rec.data = <<>> THEN closed
                                    ELSE AttemptToWriteToStream(rec)]
  BY DEF HasSpaceAvailable
<1>4. /\ rec \in OSPConnection /\ rec.todo = conns[c].todo /\ rec.data = conns[c].data
      /\ rec.pipe = conns[c].pipe /\ rec.document = conns[c].document /\ rec.tile = conns[c].tile
      /\ rec.http = conns[c].http /\ rec.open = conns[c].open /\ rec.parser = "parsing"
  BY <1>1, <1>2 DEF OSPConnection
<1> HIDE DEF rec
<1>5. /\ closed \in OSPConnection /\ closed.todo = rec.todo /\ closed.data = rec.data
      /\ closed.pipe = rec.pipe /\ closed.document = rec.document /\ closed.tile = rec.tile
      /\ closed.http = rec.http /\ closed.open = FALSE /\ closed.parser = "parsing"
  BY <1>4 DEF OSPConnection
<1> HIDE DEF closed
<1>6. Stage(rec) /\ Flow(rec, c, contents)
  BY <1>1, <1>2, <1>4 DEF Stage, Flow
<1>7. CASE rec.http = "ended" /\ rec.data = <<>>
  <2>1. Stage(closed) /\ Flow(closed, c, contents)
    BY <1>4, <1>5, <1>6, <1>7 DEF Stage, Flow
  <2>2. conns' = [conns EXCEPT ![c] = closed]
    BY <1>3, <1>7
  <2>3. contents' \subseteq Ids \X Nat
    BY <1>1 DEF IInv, TypeOK
  <2>4. QED
    BY <1>1, <1>2, <1>4, <1>5, <2>1, <2>2, <2>3, ConnectionChanges DEF history
<1>8. CASE ~(rec.http = "ended" /\ rec.data = <<>>)
  <2>1. conns' = [conns EXCEPT ![c] = AttemptToWriteToStream(rec)]
    BY <1>3, <1>8
  <2>2. QED
    BY <1>1, <1>2, <1>4, <1>6, <2>1, UpdateKeeps
<1>9. QED
  BY <1>7, <1>8

(* parser:didFindAPIObject: the next object of the document is in the map. *)
LEMMA DidFindAPIObjectInv ==
  ASSUME IInv, NEW c, DidFindAPIObject(c)
  PROVE  IInv'
<1> DEFINE pipe == Tail(conns[c].pipe)
           rec == [conns[c] EXCEPT !.pipe = pipe]
<1>1. /\ c \in Ids /\ conns[c].parser = "parsing" /\ conns[c].pipe # <<>>
      /\ conns' = [conns EXCEPT ![c] = rec] /\ contents' = contents \cup {<<c, Head(conns[c].pipe)>>}
      /\ UNCHANGED <<connectionQueue, currentConnections, requestedTiles, tiles, subTiles,
                     popping, lock, finishing, mapArea, crashed, history>>
  BY DEF DidFindAPIObject, Parsing
<1>2. /\ conns[c] \in OSPConnection /\ Len(conns[c].pipe) <= Capacity
      /\ Stage(conns[c]) /\ Flow(conns[c], c, contents)
      /\ conns[c].document \in Seq(Nat)
      /\ conns[c].pipe \in Seq(Nat) /\ conns[c].data \in Seq(Nat) /\ conns[c].todo \in Seq(Nat)
  BY <1>1, ConnectionFields
<1>3. PICK k \in Nat : /\ Transit(k, conns[c].document, conns[c].pipe, conns[c].data, conns[c].todo)
                       /\ \A n \in 1..k : <<c, conns[c].document[n]>> \in contents
  BY <1>1, <1>2 DEF Flow
<1>4. /\ pipe \in Seq(Nat) /\ Len(pipe) = Len(conns[c].pipe) - 1 /\ Head(conns[c].pipe) \in Nat
      /\ conns[c].document[k + 1] = Head(conns[c].pipe)
      /\ Transit(k + 1, conns[c].document, pipe, conns[c].data, conns[c].todo)
  <2> DEFINE d == conns[c].document
             p == conns[c].pipe
             a == conns[c].data
             t == conns[c].todo
  <2>1. d \in Seq(Nat) /\ p \in Seq(Nat) /\ a \in Seq(Nat) /\ t \in Seq(Nat) /\ p # <<>> /\ Transit(k, d, p, a, t)
    BY <1>1, <1>2, <1>3
  <2> HIDE DEF d, p, a, t
  <2>2. /\ Tail(p) \in Seq(Nat) /\ Len(Tail(p)) = Len(p) - 1 /\ Head(p) \in Nat
        /\ d[k + 1] = Head(p) /\ Transit(k + 1, d, Tail(p), a, t)
    BY <2>1, ParsingMovesOn
  <2>3. QED
    BY <2>2 DEF d, p, a, t
<1> HIDE DEF pipe
<1>5. /\ rec \in OSPConnection /\ rec.todo = conns[c].todo /\ rec.data = conns[c].data
      /\ rec.pipe = pipe /\ rec.document = conns[c].document /\ rec.tile = conns[c].tile
      /\ rec.http = conns[c].http /\ rec.open = conns[c].open /\ rec.parser = "parsing"
  BY <1>1, <1>2, <1>4 DEF OSPConnection
<1> HIDE DEF rec
<1>6. Stage(rec)
  BY <1>1, <1>2, <1>5 DEF Stage
<1>7. Flow(rec, c, contents')
  <2>1. \A n \in 1..(k + 1) : n \in 1..k \/ n = k + 1
    BY <1>3
  <2>2. \A n \in 1..(k + 1) : <<c, conns[c].document[n]>> \in contents'
    BY <1>1, <1>3, <1>4, <2>1
  <2>3. k + 1 \in Nat
    BY <1>3
  <2>4. QED
    BY <1>4, <1>5, <2>2, <2>3 DEF Flow
<1>8. contents \subseteq contents' /\ contents' \subseteq Ids \X Nat
  <2>1. contents \subseteq Ids \X Nat
    BY DEF IInv, TypeOK
  <2>2. <<c, Head(conns[c].pipe)>> \in Ids \X Nat
    BY <1>1, <1>4
  <2>3. QED
    BY <1>1, <2>1, <2>2
<1>9. Len(pipe) <= Capacity
  <2>1. Len(conns[c].pipe) \in Nat /\ Capacity \in Nat
    BY <1>2, LenProperties, MapServerAssumption
  <2>2. QED
    BY <1>2, <1>4, <2>1
<1>10. QED
  BY <1>1, <1>5, <1>6, <1>7, <1>8, <1>9, ConnectionChanges DEF history

(* parser:didFailWithError: and parserDidEndDocument:                      *)
LEMMA ParserStopsInv ==
  ASSUME IInv, NEW c, ParserFails(c) \/ ParserDidEndDocument(c)
  PROVE  IInv'
<1>1. PICK parser \in {"failed", "ended"} :
        /\ c \in Ids /\ conns[c].parser = "parsing"
        /\ conns' = [conns EXCEPT ![c].parser = parser]
        /\ parser = "ended" => conns[c].pipe = <<>> /\ ~conns[c].open
        /\ finishing' = finishing \/ (finishing' = Append(finishing, c) /\ parser = "ended")
        /\ \/ UNCHANGED <<currentConnections, popping>>
           \/ currentConnections' = currentConnections \ {c} /\ popping' = popping \cup {c}
        /\ UNCHANGED <<connectionQueue, requestedTiles, contents, tiles, subTiles, lock,
                       mapArea, crashed, history>>
  BY DEF ParserFails, ParserDidEndDocument, Parsing, RemoveConnection
<1> DEFINE rec == [conns[c] EXCEPT !.parser = parser]
<1>2. /\ conns[c] \in OSPConnection /\ Len(conns[c].pipe) <= Capacity
      /\ Stage(conns[c]) /\ Flow(conns[c], c, contents)
  BY <1>1, ConnectionFields
<1>3. /\ rec \in OSPConnection /\ rec.todo = conns[c].todo /\ rec.data = conns[c].data
      /\ rec.pipe = conns[c].pipe /\ rec.document = conns[c].document /\ rec.tile = conns[c].tile
      /\ rec.http = conns[c].http /\ rec.open = conns[c].open /\ rec.parser = parser
  BY <1>1, <1>2 DEF OSPConnection
<1>4. conns' = [conns EXCEPT ![c] = rec]
  BY <1>1
<1> HIDE DEF rec
<1>5. Stage(rec)
  BY <1>1, <1>2, <1>3 DEF Stage
<1>6. Flow(rec, c, contents')
  BY <1>1, <1>2, <1>3 DEF Flow
<1>7. contents' \subseteq Ids \X Nat
  BY <1>1 DEF IInv, TypeOK
<1>8. QED
  BY <1>1, <1>2, <1>3, <1>4, <1>5, <1>6, <1>7, ConnectionChanges DEF history

(* connectionDidFinishLoading: of the map server.                          *)
LEMMA ConnectionDidFinishLoadingInv ==
  ASSUME IInv, ConnectionDidFinishLoading
  PROVE  IInv'
<1> DEFINE c == Head(finishing)
<1>1. /\ finishing # <<>> /\ finishing' = Tail(finishing) /\ loaded' = Append(loaded, c)
      /\ currentConnections' = currentConnections \ {c} /\ popping' = popping \cup {Main}
      /\ UNCHANGED <<conns, connectionQueue, requestedTiles, contents, tiles, subTiles, lock,
                     mapArea, crashed, loads, asked, dropped, started>>
  BY DEF ConnectionDidFinishLoading, RemoveConnection
<1>2. TypeOK /\ Kept
  BY DEF IInv
<1>3. /\ Tail(finishing) \in Seq(Ids) /\ IsInjective(Tail(finishing))
      /\ c \in Ids /\ c \in ToSet(finishing) /\ ToSet(Tail(finishing)) \subseteq ToSet(finishing)
  BY <1>1, <1>2, TailOfInjective DEF TypeOK
<1> HIDE DEF c
<1>4. loaded' \in Seq(Ids) /\ ToSet(loaded') = ToSet(loaded) \cup {c}
  BY <1>1, <1>2, <1>3, AppendToInjective DEF Kept
<1>5. Kept'
  BY <1>1, <1>2, <1>3, <1>4 DEF Kept, Ids
<1>6. TypeOK'
  BY <1>1, <1>2, <1>3 DEF TypeOK, Ids
<1>7. Cardinality(currentConnections') <= MaxSimultaneousConnections
  <2>1. IsFiniteSet(Ids) /\ currentConnections \subseteq Ids
    <3>1. Len(conns) \in Nat
      BY <1>2, LenProperties DEF TypeOK
    <3>2. QED
      BY <1>2, <3>1, FS_Interval DEF Ids, TypeOK
  <2>2. IsFiniteSet(currentConnections) /\ Cardinality(currentConnections) \in Nat
    BY <2>1, FS_Subset, FS_CardinalityType
  <2>3. currentConnections' \subseteq currentConnections
    BY <1>1
  <2>4. Cardinality(currentConnections') <= Cardinality(currentConnections) /\ Cardinality(currentConnections') \in Nat
    BY <2>2, <2>3, FS_Subset, FS_CardinalityType
  <2>5. QED
    BY <2>2, <2>4, MapServerAssumption DEF IInv
<1>8. Connections'
  BY <1>1 DEF IInv, Connections, Ids
<1>9. NoTileTwice'
  BY <1>1 DEF IInv, NoTileTwice
<1>10. NothingForgotten'
  BY <1>1 DEF IInv, NothingForgotten
<1>11. NoIdleSlot'
  BY <1>1 DEF NoIdleSlot
<1>12. QED
  BY <1>5, <1>6, <1>7, <1>8, <1>9, <1>10, <1>11 DEF IInv

(* The tiles of TileCover are those of the map server.                     *)
LEMMA RequestedIsOfTheSameTiles ==
  /\ Requested!Tiles = Tiles /\ Requested!Cells = Cells
  /\ \A S : Requested!Maximal(S) = Maximal(S)
<1>1. Requested!Tiles = Tiles /\ \A z : Requested!TilesOfZoom(z) = TilesOfZoom(z)
  BY DEF Requested!Tiles, Tiles, Requested!TilesOfZoom, TilesOfZoom
<1>2. Requested!Cells = Cells
  BY <1>1 DEF Requested!Cells, Cells
<1>3. QED
  BY <1>1, <1>2 DEF Requested!Maximal, Maximal, Requested!Inside, Inside

(* What a list of tiles covers when its head is taken.                     *)
LEMMA TailCovers ==
  ASSUME NEW s \in Seq(Tiles), s # <<>>
  PROVE  Tail(s) \in Seq(Tiles) /\ Head(s) \in Tiles /\ CellsOf(ToSet(s)) = Cells[Head(s)] \cup CellsOf(ToSet(Tail(s)))
<1>1. /\ Len(s) \in Nat /\ Len(s) > 0 /\ Head(s) = s[1] /\ DOMAIN s = 1..Len(s)
      /\ Head(s) \in Tiles /\ Tail(s) \in Seq(Tiles) /\ DOMAIN Tail(s) = 1..(Len(s) - 1)
      /\ \A i \in 1..(Len(s) - 1) : Tail(s)[i] = s[i + 1]
  BY HeadTailProperties, LenProperties, EmptySeq
<1>2. \A i \in 1..Len(s) : i = 1 \/ (i - 1 \in 1..(Len(s) - 1) /\ (i - 1) + 1 = i)
  BY <1>1
<1>3. \A i \in 1..(Len(s) - 1) : i + 1 \in 1..Len(s)
  BY <1>1
<1>4. 1 \in 1..Len(s)
  BY <1>1
<1>5. ASSUME NEW x \in ToSet(s) PROVE x = Head(s) \/ x \in ToSet(Tail(s))
  <2>1. PICK i \in 1..Len(s) : x = s[i]
    BY <1>1 DEF ToSet
  <2>2. CASE i = 1
    BY <1>1, <2>1, <2>2
  <2>3. CASE i - 1 \in 1..(Len(s) - 1) /\ (i - 1) + 1 = i
    <3>1. Tail(s)[i - 1] = x
      BY <1>1, <2>1, <2>3
    <3>2. QED
      BY <1>1, <2>3, <3>1 DEF ToSet
  <2>4. QED
    BY <1>2, <2>2, <2>3
<1>6. Head(s) \in ToSet(s) /\ ToSet(Tail(s)) \subseteq ToSet(s)
  BY <1>1, <1>3, <1>4 DEF ToSet
<1>7. ToSet(s) = {Head(s)} \cup ToSet(Tail(s))
  BY <1>5, <1>6
<1>8. QED
  BY <1>1, <1>7 DEF CellsOf

(* The loops of loadObjectsInBounds:withOutset:, and popConnectionQueue    *)
(* when its loop ends, leave the connections alone.                        *)
LEMMA ConnectionsStay ==
  ASSUME IInv, UNCHANGED <<conns, connectionQueue, currentConnections, requestedTiles, contents, finishing,
                           crashed, dropped, started, loaded>>,
         tiles' \in Seq(Tiles), subTiles' \subseteq Tiles, popping' \subseteq popping,
         lock' \in {NoThread} \cup popping', loads' \in 0..MaxLoads,
         asked' \subseteq requestedTiles \cup dropped \cup CellsOf(ToSet(tiles')) \cup CellsOf(subTiles')
                           \cup CellsOf({conns[c].tile : c \in ToSet(connectionQueue)}),
         NoIdleSlot'
  PROVE  IInv'
<1>1. TypeOK'
  BY DEF IInv, TypeOK, Ids
<1>2. Connections'
  BY DEF IInv, Connections, Ids
<1>3. Kept'
  BY DEF IInv, Kept, Ids
<1>4. NoTileTwice'
  BY DEF IInv, NoTileTwice
<1>5. NothingForgotten'
  BY DEF IInv, NothingForgotten
<1>6. QED
  BY <1>1, <1>2, <1>3, <1>4, <1>5 DEF IInv

(* A call of loadObjectsInBounds: keeps the invariant.                     *)
LEMMA LoadObjectsInv ==
  ASSUME IInv, NEW l \in Loads, LoadObjectsInBounds(l)
  PROVE  IInv'
<1>1. /\ tiles = <<>> /\ subTiles = {} /\ loads < MaxLoads /\ loads' = loads + 1
      /\ tiles' = TilesFromRect(l.bounds, l.outset) /\ asked' = asked \cup CellsOf(ToSet(tiles'))
      /\ UNCHANGED <<conns, connectionQueue, currentConnections, requestedTiles, contents, subTiles,
                     popping, lock, finishing, crashed, dropped, started, loaded>>
  BY DEF LoadObjectsInBounds, MainIsIdle
<1>2. CellsOf(ToSet(tiles)) = {}
  <2>1. ToSet(tiles) = {}
    BY <1>1 DEF ToSet
  <2>2. QED
    BY <2>1 DEF CellsOf
<1>3. asked \subseteq requestedTiles \cup dropped \cup CellsOf(ToSet(tiles)) \cup CellsOf(subTiles)
                      \cup CellsOf({conns[c].tile : c \in ToSet(connectionQueue)})
  BY DEF IInv, NothingForgotten
<1>4. tiles' \in Seq(Tiles)
  <2>1. IsAnswer(TilesFromRect(l.bounds, l.outset), l.bounds, l.outset, World)
    BY LoadsAssumption, TilesFromRectIs
  <2>2. QED
    BY <1>1, <2>1 DEF IsAnswer
<1>5. subTiles' \subseteq Tiles /\ lock' \in {NoThread} \cup popping' /\ loads' \in 0..MaxLoads
  BY <1>1, MapServerAssumption DEF IInv, TypeOK
<1>6. NoIdleSlot'
  BY <1>1 DEF IInv, NoIdleSlot
<1>7. QED
  BY <1>1, <1>2, <1>3, <1>4, <1>5, <1>6, ConnectionsStay

(* Looking up what is still missing of a tile keeps the invariant.         *)
LEMMA NextTileInv ==
  ASSUME IInv, NextTile
  PROVE  IInv'
<1> DEFINE t == Head(tiles)
<1>1. /\ tiles # <<>> /\ subTiles = {} /\ tiles' = Tail(tiles)
      /\ subTiles' = Requested!NotIncluded(requestedTiles, t)
      /\ UNCHANGED <<conns, connectionQueue, currentConnections, requestedTiles, contents,
                     popping, lock, finishing, mapArea, crashed, history>>
  BY DEF NextTile
<1>2. TypeOK
  BY DEF IInv
<1>3. /\ Tail(tiles) \in Seq(Tiles) /\ t \in Tiles
      /\ CellsOf(ToSet(tiles)) = Cells[t] \cup CellsOf(ToSet(Tail(tiles)))
  BY <1>1, <1>2, TailCovers DEF TypeOK
<1> HIDE DEF t
<1>4. subTiles' = Maximal(Cells[t] \ requestedTiles)
  BY <1>1, RequestedIsOfTheSameTiles DEF Requested!NotIncluded
<1>5. Cells[t] \ requestedTiles \in SUBSET TilesOfZoom(MaxZoom)
  BY <1>3 DEF Cells
<1>6. subTiles' \subseteq Tiles /\ CellsOf(subTiles') = Cells[t] \ requestedTiles
  BY <1>4, <1>5, MaximalCovers
<1>7. CellsOf(subTiles) = {}
  BY <1>1 DEF CellsOf
<1>8. asked \subseteq requestedTiles \cup dropped \cup CellsOf(ToSet(tiles)) \cup CellsOf(subTiles)
                      \cup CellsOf({conns[c].tile : c \in ToSet(connectionQueue)})
  BY DEF IInv, NothingForgotten
<1>9. asked' \subseteq requestedTiles \cup dropped \cup CellsOf(ToSet(tiles')) \cup CellsOf(subTiles')
                       \cup CellsOf({conns[c].tile : c \in ToSet(connectionQueue)})
  BY <1>1, <1>3, <1>6, <1>7, <1>8 DEF history
<1>10. lock' \in {NoThread} \cup popping' /\ loads' \in 0..MaxLoads
  BY <1>1, <1>2 DEF TypeOK, history
<1>11. NoIdleSlot'
  BY <1>1 DEF IInv, NoIdleSlot
<1>12. QED
  BY <1>1, <1>3, <1>6, <1>9, <1>10, <1>11, ConnectionsStay DEF history

(* requestDataInTile: puts a new connection at the end of the queue.       *)
LEMMA RequestDataInv ==
  ASSUME IInv, RequestDataInTile
  PROVE  IInv'
<1>1. PICK t \in subTiles, document \in Documents :
        /\ subTiles' = subTiles \ {t}
        /\ conns' = Append(conns,
             [tile |-> t, document |-> document, http |-> "queued", onMain |-> FALSE,
              todo |-> document, data |-> <<>>, pipe |-> <<>>,
              armed |-> FALSE, open |-> FALSE, parser |-> "none"])
  BY DEF RequestDataInTile
<1> DEFINE rec == [tile |-> t, document |-> document, http |-> "queued", onMain |-> FALSE,
                   todo |-> document, data |-> <<>>, pipe |-> <<>>,
                   armed |-> FALSE, open |-> FALSE, parser |-> "none"]
           n == Len(conns) + 1
<1>2. /\ connectionQueue' = Append(connectionQueue, Len(conns')) /\ popping' = popping \cup {Main}
      /\ UNCHANGED <<currentConnections, requestedTiles, contents, tiles, lock, finishing,
                     mapArea, crashed, history>>
  BY DEF RequestDataInTile
<1>3. TypeOK /\ Connections /\ Kept /\ NothingForgotten /\ NoTileTwice
  BY DEF IInv
<1>4. document \in Seq(Nat) /\ Capacity \in Nat /\ t \in Tiles
  BY <1>1, <1>3, MapServerAssumption DEF TypeOK
<1>5. /\ rec \in OSPConnection /\ Len(rec.pipe) <= Capacity /\ Stage(rec) /\ rec.tile = t
      /\ rec.http = "queued" /\ rec.document = document /\ rec.pipe = <<>> /\ rec.data = <<>> /\ rec.todo = document
  BY <1>1, <1>4 DEF OSPConnection, Stage
<1>6. Flow(rec, n, contents)
  <2>1. Len(document) \in Nat
    BY <1>4, LenProperties
  <2>2. Transit(0, document, <<>>, <<>>, document)
    BY <2>1 DEF Transit
  <2>3. \A i \in 1..0 : <<n, document[i]>> \in contents
    OBVIOUS
  <2>4. QED
    BY <1>5, <2>2, <2>3 DEF Flow
<1>7. conns' = Append(conns, rec)
  BY <1>1
<1> HIDE DEF rec
<1>8. /\ conns' \in Seq(OSPConnection) /\ Len(conns') = n /\ n \in Nat /\ Len(conns) \in Nat
      /\ \A i \in Ids : conns'[i] = conns[i]
      /\ conns'[n] = rec
  BY <1>3, <1>5, <1>7, AppendProperties, LenProperties DEF TypeOK, Ids
<1>9. Ids \subseteq Ids' /\ n \in Ids' /\ n \notin Ids /\ \A i \in Ids' : i \in Ids \/ i = n
  BY <1>8 DEF Ids
<1>10. Connections'
  BY <1>2, <1>3, <1>5, <1>6, <1>8, <1>9 DEF Connections
<1>11. /\ connectionQueue \in Seq(Ids') /\ ToSet(connectionQueue) \subseteq Ids
       /\ started \in Seq(Ids') /\ ToSet(started) \subseteq Ids
       /\ finishing \in Seq(Ids') /\ ToSet(finishing) \subseteq Ids
       /\ loaded \in Seq(Ids') /\ ToSet(loaded) \subseteq Ids
  BY <1>3, <1>9, SeqElements DEF TypeOK, Kept
<1>12. /\ connectionQueue' \in Seq(Ids') /\ IsInjective(connectionQueue')
       /\ ToSet(connectionQueue') = ToSet(connectionQueue) \cup {n}
  <2>1. connectionQueue' = Append(connectionQueue, n) /\ n \notin ToSet(connectionQueue)
    BY <1>2, <1>8, <1>9, <1>11
  <2>2. IsInjective(connectionQueue)
    BY <1>3 DEF TypeOK
  <2>3. QED
    BY <1>9, <1>11, <2>1, <2>2, AppendToInjective
<1>13. Kept'
  BY <1>2, <1>3, <1>5, <1>8, <1>11, <1>12 DEF Kept, history
<1>14. TypeOK'
  <2>1. /\ currentConnections' \subseteq Ids' \ ToSet(connectionQueue')
        /\ contents' \subseteq Ids' \X Nat /\ popping' \subseteq {Main} \cup Ids'
        /\ lock' \in {NoThread} \cup popping'
    BY <1>2, <1>3, <1>9, <1>12 DEF TypeOK
  <2>2. /\ finishing' \in Seq(Ids') /\ IsInjective(finishing') /\ started' \in Seq(Ids') /\ IsInjective(started')
    BY <1>2, <1>3, <1>11 DEF TypeOK, history
  <2>3. /\ requestedTiles' \subseteq TilesOfZoom(MaxZoom) /\ tiles' \in Seq(Tiles) /\ subTiles' \subseteq Tiles
        /\ crashed' \in BOOLEAN /\ loads' \in 0..MaxLoads
    BY <1>1, <1>2, <1>3 DEF TypeOK, history
  <2>4. \A i \in Ids' : Len(conns'[i].pipe) <= Capacity
    BY <1>10 DEF Connections
  <2>5. QED
    BY <1>8, <1>12, <2>1, <2>2, <2>3, <2>4 DEF TypeOK
<1>15. \A i \in Ids : conns'[i].tile = conns[i].tile
  BY <1>8
<1>16. NoTileTwice'
  BY <1>2, <1>3, <1>15, TilesOfConnections DEF history
<1>17. NothingForgotten'
  <2>1. /\ {conns'[i].tile : i \in ToSet(started)} = {conns[i].tile : i \in ToSet(started)}
        /\ {conns'[i].tile : i \in ToSet(connectionQueue)} = {conns[i].tile : i \in ToSet(connectionQueue)}
    BY <1>11, <1>15
  <2>2. {conns'[i].tile : i \in ToSet(connectionQueue')} = {conns[i].tile : i \in ToSet(connectionQueue)} \cup {t}
    BY <1>5, <1>8, <1>12, <2>1
  <2>3. CellsOf(subTiles) \subseteq CellsOf(subTiles') \cup Cells[t]
    BY <1>1 DEF CellsOf
  <2>4. CellsOf({conns[i].tile : i \in ToSet(connectionQueue)} \cup {t})
          = CellsOf({conns[i].tile : i \in ToSet(connectionQueue)}) \cup Cells[t]
    BY DEF CellsOf
  <2>5. QED
    BY <1>2, <1>3, <2>1, <2>2, <2>3, <2>4 DEF NothingForgotten, history
<1>18. NoIdleSlot'
  BY <1>2 DEF NoIdleSlot
<1>19. QED
  BY <1>2, <1>10, <1>13, <1>14, <1>16, <1>17, <1>18 DEF IInv

(* popConnectionQueue at the end of its loop.                              *)
LEMMA PopEnds ==
  ASSUME IInv, NEW t \in popping, lock' = NoThread, popping' = popping \ {t},
         ~(connectionQueue # <<>> /\ Cardinality(currentConnections) < MaxSimultaneousConnections),
         UNCHANGED <<conns, connectionQueue, currentConnections, requestedTiles, dropped, started,
                     contents, tiles, subTiles, finishing, mapArea, crashed, loads, asked, loaded>>
  PROVE  IInv'
<1>1. TypeOK /\ NothingForgotten
  BY DEF IInv
<1>2. tiles' \in Seq(Tiles) /\ subTiles' \subseteq Tiles /\ loads' \in 0..MaxLoads
  BY <1>1 DEF TypeOK
<1>3. asked' \subseteq requestedTiles \cup dropped \cup CellsOf(ToSet(tiles')) \cup CellsOf(subTiles')
                       \cup CellsOf({conns[c].tile : c \in ToSet(connectionQueue)})
  BY <1>1 DEF NothingForgotten
<1>4. NoIdleSlot'
  BY DEF NoIdleSlot
<1>5. QED
  BY <1>2, <1>3, <1>4, ConnectionsStay

(* popConnectionQueue takes a connection the delegate no longer wants, or  *)
(* whose tile has all been requested by now.                               *)
LEMMA PopDrops ==
  ASSUME IInv, NEW t \in popping, connectionQueue # <<>>, connectionQueue' = Tail(connectionQueue), lock' = t,
         dropped \subseteq dropped',
         Cells[conns[Head(connectionQueue)].tile] \subseteq requestedTiles \cup dropped',
         UNCHANGED <<conns, currentConnections, requestedTiles, popping, started,
                     contents, tiles, subTiles, finishing, mapArea, crashed, loads, asked, loaded>>
  PROVE  IInv'
<1> DEFINE c == Head(connectionQueue)
<1>1. TypeOK /\ Connections /\ Kept /\ NothingForgotten /\ NoTileTwice
  BY DEF IInv
<1>2. /\ Tail(connectionQueue) \in Seq(Ids) /\ IsInjective(Tail(connectionQueue))
      /\ c \in Ids /\ ToSet(Tail(connectionQueue)) = ToSet(connectionQueue) \ {c}
      /\ c \in ToSet(connectionQueue)
  BY <1>1, TailOfInjective DEF TypeOK
<1> HIDE DEF c
<1>3. TypeOK'
  BY <1>1, <1>2 DEF TypeOK, Ids
<1>4. Connections'
  BY <1>1 DEF Connections, Ids
<1>5. Kept'
  BY <1>1, <1>2 DEF Kept, Ids
<1>6. NoTileTwice'
  BY <1>1 DEF NoTileTwice
<1>7. NothingForgotten'
  <2> DEFINE waiting == {conns[d].tile : d \in ToSet(connectionQueue)}
             left == {conns[d].tile : d \in ToSet(connectionQueue')}
  <2>1. waiting = left \cup {conns[c].tile}
    BY <1>2
  <2>2. CellsOf(waiting) = CellsOf(left) \cup Cells[conns[c].tile]
    BY <2>1 DEF CellsOf
  <2> HIDE DEF waiting, left
  <2>3. asked \subseteq requestedTiles \cup dropped \cup CellsOf(ToSet(tiles)) \cup CellsOf(subTiles) \cup CellsOf(waiting)
    BY <1>1 DEF NothingForgotten, waiting
  <2>4. asked \subseteq requestedTiles \cup dropped' \cup CellsOf(ToSet(tiles)) \cup CellsOf(subTiles) \cup CellsOf(left)
    BY <2>2, <2>3 DEF c
  <2>5. QED
    BY <1>1, <2>4 DEF NothingForgotten, left
<1>8. NoIdleSlot'
  BY DEF NoIdleSlot
<1>9. QED
  BY <1>3, <1>4, <1>5, <1>6, <1>7, <1>8 DEF IInv

(* popConnectionQueue starts a connection whose tile has not all been      *)
(* requested.                                                              *)
LEMMA PopStarts ==
  ASSUME IInv, NEW t \in popping, connectionQueue # <<>>, connectionQueue' = Tail(connectionQueue), lock' = t,
         Cardinality(currentConnections) < MaxSimultaneousConnections,
         NEW c, c = Head(connectionQueue), NEW rec \in OSPConnection,
         rec.todo = conns[c].todo, rec.data = conns[c].data, rec.pipe = conns[c].pipe,
         rec.document = conns[c].document, rec.tile = conns[c].tile,
         rec.http = "running", rec.open = TRUE, rec.parser = "parsing",
         ~ Cells[conns[c].tile] \subseteq requestedTiles,
         requestedTiles' = requestedTiles \cup Cells[conns[c].tile],
         currentConnections' = currentConnections \cup {c},
         conns' = [conns EXCEPT ![c] = rec],
         started' = Append(started, c),
         UNCHANGED <<dropped, popping, contents, tiles, subTiles, finishing, mapArea, crashed, loads, asked, loaded>>
  PROVE  IInv'
<1>1. TypeOK /\ Connections /\ Kept /\ NothingForgotten /\ NoTileTwice
  BY DEF IInv
<1>2. /\ connectionQueue' \in Seq(Ids) /\ IsInjective(connectionQueue')
      /\ c \in Ids /\ ToSet(connectionQueue') = ToSet(connectionQueue) \ {c}
      /\ c \in ToSet(connectionQueue)
  BY <1>1, TailOfInjective DEF TypeOK
<1>3. /\ conns[c] \in OSPConnection /\ Len(conns[c].pipe) <= Capacity
      /\ Stage(conns[c]) /\ Flow(conns[c], c, contents) /\ conns[c].http = "queued"
  BY <1>1, <1>2, ConnectionFields DEF Kept
<1>6. conns[c].parser = "none" /\ Stage(rec) /\ Flow(rec, c, contents)
  BY <1>3 DEF Stage, Flow
<1>7. /\ conns' \in Seq(OSPConnection) /\ Len(conns') = Len(conns) /\ Len(conns) \in Nat
      /\ \A i \in Ids : conns'[i] = IF i = c THEN rec ELSE conns[i]
  <2>1. conns \in Seq(OSPConnection) /\ Len(conns) \in Nat
    BY <1>1, LenProperties DEF TypeOK
  <2>2. QED
    BY <1>2, <2>1, ExceptSeq DEF Ids
<1>8. Ids' = Ids /\ \A i \in Ids : conns'[i].tile = conns[i].tile
  BY <1>7 DEF Ids
<1>9. /\ ToSet(started) \subseteq Ids /\ started \in Seq(Ids) /\ IsInjective(started)
      /\ ToSet(connectionQueue) \subseteq Ids /\ ToSet(finishing) \subseteq Ids /\ ToSet(loaded) \subseteq Ids
  BY <1>1, SeqElements DEF TypeOK, Kept
<1>10. c \notin ToSet(started) /\ c \notin ToSet(finishing) /\ c \notin ToSet(loaded)
  BY <1>1, <1>3, <1>6 DEF Kept
<1>11. /\ started' \in Seq(Ids) /\ IsInjective(started') /\ ToSet(started') = ToSet(started) \cup {c}
  BY <1>2, <1>9, <1>10, AppendToInjective
<1>12. Connections'
  BY <1>1, <1>3, <1>6, <1>7, <1>8 DEF Connections
<1>13. Kept'
  BY <1>1, <1>2, <1>7, <1>8, <1>9, <1>10, <1>11 DEF Kept
<1>14. conns[c].tile \in Tiles /\ Cells[conns[c].tile] \subseteq TilesOfZoom(MaxZoom)
  BY <1>3 DEF OSPConnection, Cells
<1>15. TypeOK'
  <2>1. currentConnections' \subseteq Ids \ ToSet(connectionQueue')
    BY <1>1, <1>2 DEF TypeOK
  <2>2. /\ requestedTiles' \subseteq TilesOfZoom(MaxZoom) /\ tiles' \in Seq(Tiles) /\ subTiles' \subseteq Tiles
        /\ lock' \in {NoThread} \cup popping' /\ crashed' \in BOOLEAN /\ loads' \in 0..MaxLoads
        /\ contents' \subseteq Ids \X Nat /\ popping' \subseteq {Main} \cup Ids
        /\ finishing' \in Seq(Ids) /\ IsInjective(finishing')
    BY <1>1, <1>14 DEF TypeOK
  <2>3. \A i \in Ids : Len(conns'[i].pipe) <= Capacity
    BY <1>8, <1>12 DEF Connections
  <2>4. QED
    BY <1>2, <1>7, <1>8, <1>11, <2>1, <2>2, <2>3 DEF TypeOK
<1>16. Cardinality(currentConnections') <= MaxSimultaneousConnections
  <2>1. IsFiniteSet(Ids) /\ currentConnections \subseteq Ids
    BY <1>1, <1>7, FS_Interval DEF Ids, TypeOK
  <2>2. IsFiniteSet(currentConnections) /\ Cardinality(currentConnections) \in Nat
    BY <2>1, FS_Subset, FS_CardinalityType
  <2>3. c \notin currentConnections
    BY <1>1, <1>2 DEF TypeOK
  <2>4. Cardinality(currentConnections') = Cardinality(currentConnections) + 1
    BY <2>2, <2>3, FS_AddElement
  <2>5. QED
    BY <2>2, <2>4, MapServerAssumption
<1>17. requestedTiles = CellsOf({conns[d].tile : d \in ToSet(started)})
  BY <1>1 DEF NothingForgotten
<1>18. NoTileTwice'
  <2>1. /\ Len(started) \in Nat /\ Len(started') = Len(started) + 1 /\ started'[Len(started) + 1] = c
        /\ \A i \in 1..Len(started) : started'[i] = started[i] /\ started[i] \in Ids
    BY <1>2, <1>9, AppendProperties, LenProperties, SeqElements
  <2>2. ASSUME NEW i \in 1..Len(started)
        PROVE  ~ Cells[conns'[started'[i]].tile] \subseteq CellsOf({conns'[started'[j]].tile : j \in 1..(i - 1)})
    <3>1. \A j \in 1..(i - 1) : j \in 1..Len(started)
      BY <2>1
    <3>2. {conns'[started'[j]].tile : j \in 1..(i - 1)} = {conns[started[j]].tile : j \in 1..(i - 1)}
      BY <1>8, <2>1, <3>1
    <3>3. conns'[started'[i]].tile = conns[started[i]].tile
      BY <1>8, <2>1
    <3>4. QED
      BY <1>1, <3>2, <3>3 DEF NoTileTwice
  <2>3. {conns'[started'[j]].tile : j \in 1..Len(started)} = {conns[d].tile : d \in ToSet(started)}
    <3>1. ToSet(started) = {started[j] : j \in 1..Len(started)}
      BY <1>9, LenProperties DEF ToSet
    <3>2. {conns'[started'[j]].tile : j \in 1..Len(started)} = {conns[started[j]].tile : j \in 1..Len(started)}
      BY <1>8, <2>1
    <3>3. QED
      BY <3>1, <3>2
  <2>4. ~ Cells[conns'[c].tile] \subseteq CellsOf({conns'[started'[j]].tile : j \in 1..Len(started)})
    BY <1>2, <1>8, <1>17, <2>3
  <2>5. (Len(started) + 1) - 1 = Len(started) /\ \A i \in 1..Len(started') : i \in 1..Len(started) \/ i = Len(started) + 1
    BY <2>1
  <2>6. QED
    BY <2>1, <2>2, <2>4, <2>5 DEF NoTileTwice
<1>19. NothingForgotten'
  <2> DEFINE waiting == {conns[d].tile : d \in ToSet(connectionQueue)}
             left == {conns'[d].tile : d \in ToSet(connectionQueue')}
             begun == {conns[d].tile : d \in ToSet(started)}
             begun2 == {conns'[d].tile : d \in ToSet(started')}
  <2>1. waiting = left \cup {conns[c].tile} /\ begun2 = begun \cup {conns[c].tile}
    BY <1>2, <1>8, <1>9, <1>11
  <2> HIDE DEF waiting, left, begun, begun2
  <2>2. /\ CellsOf(waiting) = CellsOf(left) \cup Cells[conns[c].tile]
        /\ CellsOf(begun2) = CellsOf(begun) \cup Cells[conns[c].tile]
    BY <2>1 DEF CellsOf
  <2>3. /\ asked \subseteq requestedTiles \cup dropped \cup CellsOf(ToSet(tiles)) \cup CellsOf(subTiles) \cup CellsOf(waiting)
        /\ requestedTiles = CellsOf(begun)
    BY <1>1 DEF NothingForgotten, waiting, begun
  <2>4. /\ asked \subseteq requestedTiles' \cup dropped \cup CellsOf(ToSet(tiles)) \cup CellsOf(subTiles) \cup CellsOf(left)
        /\ requestedTiles' = CellsOf(begun2)
    BY <2>2, <2>3
  <2>5. QED
    BY <2>4 DEF NothingForgotten, left, begun2
<1>20. NoIdleSlot'
  BY DEF NoIdleSlot
<1>21. QED
  BY <1>12, <1>13, <1>15, <1>16, <1>18, <1>19, <1>20 DEF IInv

(* popConnectionQueue, a turn of its loop.                                 *)
LEMMA PopConnectionQueueInv ==
  ASSUME IInv, NEW t, PopConnectionQueue(t)
  PROVE  IInv'
<1> DEFINE more == connectionQueue # <<>> /\ Cardinality(currentConnections) < MaxSimultaneousConnections
           c == Head(connectionQueue)
           wanted == /\ ShouldLoadObjectsInArea(conns[c].tile)
                     /\ ~Requested!Contains(requestedTiles, conns[c].tile)
<1>1. /\ t \in popping
      /\ UNCHANGED <<contents, tiles, subTiles, finishing, mapArea, crashed, loads, asked, loaded>>
      /\ \/ /\ more /\ lock' = t /\ connectionQueue' = Tail(connectionQueue)
            /\ Start(c, t) /\ UNCHANGED popping
         \/ /\ ~more
            /\ lock' = NoThread /\ popping' = popping \ {t}
            /\ UNCHANGED <<conns, connectionQueue, currentConnections, requestedTiles, dropped, started>>
  BY DEF PopConnectionQueue, PopTurn
<1>2. CASE more /\ Start(c, t) /\ wanted
  <2> DEFINE onMain == (t = Main)
             cell == Cells[conns[c].tile]
  <2>1. /\ requestedTiles' = Requested!AddTo(requestedTiles, conns[c].tile)
        /\ currentConnections' = currentConnections \cup {c}
        /\ conns' = [conns EXCEPT ![c].http = "running", ![c].onMain = onMain,
                                  ![c].armed = TRUE, ![c].open = TRUE, ![c].parser = "parsing"]
        /\ started' = Append(started, c)
        /\ UNCHANGED dropped
    BY <1>2 DEF Start, StartIf
  <2>2. requestedTiles' = requestedTiles \cup cell
    BY <2>1, RequestedIsOfTheSameTiles DEF Requested!AddTo
  <2>3. ~ cell \subseteq requestedTiles
    BY <1>2, RequestedIsOfTheSameTiles DEF Requested!Contains
  <2> DEFINE rec == [conns[c] EXCEPT !.http = "running", !.onMain = onMain,
                                     !.armed = TRUE, !.open = TRUE, !.parser = "parsing"]
  <2>4. conns' = [conns EXCEPT ![c] = rec] /\ onMain \in BOOLEAN
    BY <2>1
  <2>5. c \in Ids
    BY <1>2, TailOfInjective DEF IInv, TypeOK
  <2>6. conns[c] \in OSPConnection
    BY <2>5, ConnectionFields
  <2> HIDE DEF onMain
  <2>7. /\ rec \in OSPConnection /\ rec.todo = conns[c].todo /\ rec.data = conns[c].data
        /\ rec.pipe = conns[c].pipe /\ rec.document = conns[c].document /\ rec.tile = conns[c].tile
        /\ rec.http = "running" /\ rec.open = TRUE /\ rec.parser = "parsing"
    BY <2>4, <2>6 DEF OSPConnection
  <2> HIDE DEF rec
  <2>8. QED
    BY <1>1, <1>2, <2>1, <2>2, <2>3, <2>4, <2>7, PopStarts
<1>3. CASE more /\ Start(c, t) /\ ~wanted
  <2>1. /\ dropped' = IF ShouldLoadObjectsInArea(conns[c].tile) THEN dropped
                      ELSE dropped \cup Cells[conns[c].tile]
        /\ UNCHANGED <<conns, requestedTiles, currentConnections, started>>
    BY <1>3 DEF Start, StartIf
  <2>2. ShouldLoadObjectsInArea(conns[c].tile) => Cells[conns[c].tile] \subseteq requestedTiles
    BY <1>3, RequestedIsOfTheSameTiles DEF Requested!Contains
  <2>3. dropped \subseteq dropped' /\ Cells[conns[c].tile] \subseteq requestedTiles \cup dropped'
    BY <2>1, <2>2
  <2>4. QED
    BY <1>1, <1>3, <2>1, <2>3, PopDrops
<1>4. CASE ~more
  BY <1>1, <1>4, PopEnds
<1>5. QED
  BY <1>1, <1>2, <1>3, <1>4

-----------------------------------------------------------------------------
(* The theorems.                                                           *)

(* The invariant holds of a new map server.                                *)
LEMMA InitInv == Init => IInv
<1> SUFFICES ASSUME Init PROVE IInv
  OBVIOUS
<1>1. Ids = {} /\ ToSet(<<>>) = {} /\ IsInjective(<<>>) /\ <<>> \in Seq(Ids)
  BY DEF Init, Ids, ToSet, IsInjective
<1>2. MaxLoads \in Nat /\ MaxSimultaneousConnections \in Nat \ {0}
  BY MapServerAssumption
<1>3. TypeOK
  <2>1. conns \in Seq(OSPConnection) /\ tiles \in Seq(Tiles) /\ loads \in 0..MaxLoads
    BY <1>2 DEF Init
  <2>2. /\ currentConnections \subseteq Ids \ ToSet(connectionQueue) /\ contents \subseteq Ids \X Nat
        /\ requestedTiles \subseteq TilesOfZoom(MaxZoom) /\ subTiles \subseteq Tiles
        /\ popping \subseteq {Main} \cup Ids /\ lock \in {NoThread} \cup popping /\ crashed \in BOOLEAN
    BY DEF Init
  <2>3. \A c \in Ids : Len(conns[c].pipe) <= Capacity
    BY <1>1
  <2>4. QED
    BY <1>1, <2>1, <2>2, <2>3 DEF Init, TypeOK
<1>4. Connections /\ Kept
  BY <1>1 DEF Init, Connections, Kept
<1>5. Cardinality(currentConnections) <= MaxSimultaneousConnections
  BY <1>2, FS_EmptySet DEF Init
<1>6. NoTileTwice
  BY DEF Init, NoTileTwice
<1>7. NothingForgotten
  BY <1>1 DEF Init, NothingForgotten, CellsOf
<1>8. NoIdleSlot
  BY DEF Init, NoIdleSlot
<1>9. QED
  BY <1>3, <1>4, <1>5, <1>6, <1>7, <1>8 DEF IInv

(* Every step keeps the invariant: no interleaving of the main thread and  *)
(* the parsers' threads breaks it.                                         *)
LEMMA NextInv == IInv /\ [Next]_vars => IInv'
<1> SUFFICES ASSUME IInv, [Next]_vars PROVE IInv'
  OBVIOUS
<1>1. ASSUME NEW l \in Loads, LoadObjectsInBounds(l) PROVE IInv'
  BY <1>1, LoadObjectsInv
<1>2. CASE NextTile
  BY <1>2, NextTileInv
<1>3. CASE RequestDataInTile
  BY <1>3, RequestDataInv
<1>4. CASE PopConnectionQueue(Main)
  BY <1>4, PopConnectionQueueInv
<1>5. CASE ConnectionDidFinishLoading
  BY <1>5, ConnectionDidFinishLoadingInv
<1>6. ASSUME NEW c \in 1..MaxConnections, Download(c) PROVE IInv'
  <2>1. CASE DidReceiveData(c)
    BY <2>1, DidReceiveDataInv
  <2>2. CASE DidFinishLoading(c)
    BY <2>2, DidFinishLoadingInv
  <2>3. CASE DidFailWithError(c)
    BY <2>3, DidFailWithErrorInv
  <2>4. CASE HasSpaceAvailable(c)
    BY <2>4, HasSpaceAvailableInv
  <2>5. CASE DidFindAPIObject(c)
    BY <2>5, DidFindAPIObjectInv
  <2>6. CASE ParserFails(c) \/ ParserDidEndDocument(c)
    BY <2>6, ParserStopsInv
  <2>7. CASE PopConnectionQueue(c)
    BY <2>7, PopConnectionQueueInv
  <2>8. QED
    BY <1>6, <2>1, <2>2, <2>3, <2>4, <2>5, <2>6, <2>7 DEF Download
<1>7. CASE UNCHANGED vars
  <2>1. TypeOK' /\ Connections' /\ Kept'
    BY <1>7 DEF vars, IInv, TypeOK, Connections, Kept, Ids
  <2>2. NoTileTwice'
    BY <1>7 DEF vars, IInv, NoTileTwice
  <2>3. NothingForgotten'
    BY <1>7 DEF vars, IInv, NothingForgotten
  <2>4. NoIdleSlot'
    BY <1>7 DEF vars, IInv, NoIdleSlot
  <2>5. QED
    BY <1>7, <2>1, <2>2, <2>3, <2>4 DEF vars, IInv
<1>8. QED
  BY <1>1, <1>2, <1>3, <1>4, <1>5, <1>6, <1>7 DEF Next

(* The inductive invariant holds throughout.                               *)
THEOREM Invariance == Spec => []IInv
  BY InitInv, NextInv, PTL DEF Spec

(* Never more connections are at work than are allowed, and no connection  *)
(* is both queued and at work, whichever threads pop the queue.            *)
THEOREM SpecConnectionLimit == Spec => []ConnectionLimit
<1>1. IInv => ConnectionLimit
  BY DEF IInv, ConnectionLimit
<1>2. QED
  BY Invariance, <1>1, PTL

(* No connection is started whose tile others had all requested.           *)
THEOREM SpecNoTileTwice == Spec => []NoTileTwice
<1>1. IInv => NoTileTwice
  BY DEF IInv
<1>2. QED
  BY Invariance, <1>1, PTL

(* Whatever load was called for is requested, still to be, or was refused; *)
(* and what is held to be requested was asked for.                         *)
THEOREM SpecNothingForgotten == Spec => []NothingForgotten
<1>1. IInv => NothingForgotten
  BY DEF IInv
<1>2. QED
  BY Invariance, <1>1, PTL

(* A connection waits only while the others allowed are at work, or some   *)
(* thread is in popConnectionQueue.                                        *)
THEOREM SpecNoIdleSlot == Spec => []NoIdleSlot
<1>1. IInv => NoIdleSlot
  BY DEF IInv
<1>2. QED
  BY Invariance, <1>1, PTL

(* Once the delegate is told that an area is loaded, every object of the   *)
(* answer has been through the stream and the parser into the contents.    *)
THEOREM SpecLoadedIsHandedOver == Spec => []LoadedIsHandedOver
<1>1. ASSUME IInv, NEW i \in 1..Len(loaded)
      PROVE  LET c == loaded[i] IN
             \A n \in 1..Len(conns[c].document) : <<c, conns[c].document[n]>> \in contents
  <2> DEFINE c == loaded[i]
             rec == conns[c]
  <2>1. Kept
    BY <1>1 DEF IInv
  <2>2. c \in Ids /\ c \in ToSet(loaded)
    BY <1>1, <2>1, SeqElements DEF Kept
  <2>3. rec.parser = "ended"
    BY <2>1, <2>2 DEF Kept
  <2> HIDE DEF c
  <2>4. /\ rec \in OSPConnection /\ Stage(rec) /\ Flow(rec, c, contents) /\ rec.document \in Seq(Nat)
    BY <1>1, <2>2, ConnectionFields
  <2> HIDE DEF rec
  <2>5. rec.pipe = <<>> /\ rec.data = <<>> /\ rec.todo = <<>>
    BY <2>3, <2>4 DEF Stage
  <2>6. PICK k \in Nat : /\ Transit(k, rec.document, rec.pipe, rec.data, rec.todo)
                         /\ \A n \in 1..k : <<c, rec.document[n]>> \in contents
    BY <2>3, <2>4 DEF Flow
  <2>7. Len(rec.document) = k
    BY <2>5, <2>6 DEF Transit
  <2>8. \A n \in 1..Len(rec.document) : <<c, rec.document[n]>> \in contents
    BY <2>6, <2>7
  <2>9. QED
    BY <2>8 DEF c, rec
<1>2. IInv => LoadedIsHandedOver
  BY <1>1 DEF LoadedIsHandedOver
<1>3. QED
  BY Invariance, <1>2, PTL

(* requestedTiles only grows by whole tiles, each added as it is started:  *)
(* the map server uses its tile array as TileCover describes it.           *)
THEOREM SpecImplementsTileCover == Spec => Requested!CoverSpec
<1>1. Init => Requested!CoverInit
  BY DEF Init, Requested!CoverInit
<1>2. IInv /\ [Next]_vars => [Requested!CoverNext]_requestedTiles
  <2> SUFFICES ASSUME IInv, [Next]_vars, requestedTiles' # requestedTiles
               PROVE  Requested!CoverNext
    OBVIOUS
  <2>1. PICK t : PopConnectionQueue(t)
    <3>1. \A l \in Loads : ~LoadObjectsInBounds(l)
      BY DEF LoadObjectsInBounds
    <3>2. ~NextTile /\ ~RequestDataInTile /\ ~ConnectionDidFinishLoading
      BY DEF NextTile, RequestDataInTile, ConnectionDidFinishLoading
    <3>3. ASSUME NEW c \in 1..MaxConnections, Download(c), ~PopConnectionQueue(c) PROVE FALSE
      BY <3>3 DEF Download, DidReceiveData, DidFinishLoading, DidFailWithError, HasSpaceAvailable,
                  DidFindAPIObject, ParserFails, ParserDidEndDocument
    <3>4. ~UNCHANGED vars
      BY DEF vars
    <3>5. QED
      BY <3>1, <3>2, <3>3, <3>4 DEF Next
  <2> DEFINE c == Head(connectionQueue)
  <2>2. connectionQueue # <<>> /\ Start(c, t)
    BY <2>1 DEF PopConnectionQueue, PopTurn
  <2>3. requestedTiles' = Requested!AddTo(requestedTiles, conns[c].tile)
    BY <2>2 DEF Start, StartIf
  <2>4. c \in Ids
    BY <2>2, TailOfInjective DEF IInv, TypeOK
  <2>5. conns[c].tile \in Requested!Tiles
    BY <2>4, ConnectionFields, RequestedIsOfTheSameTiles
  <2>6. QED
    BY <2>3, <2>5 DEF Requested!CoverNext, Requested!CoverAdd
<1>3. QED
  BY Invariance, <1>1, <1>2, PTL DEF Spec, Requested!CoverSpec
=============================================================================
