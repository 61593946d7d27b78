-------------------------- MODULE MapFile_proofs --------------------------
(***************************************************************************)
(* Theorems on MapFile: a query reports only what its tile shows, all of   *)
(* it that the file gives undamaged, and a background of water only where  *)
(* there is water, for any files, tiles and damages.                       *)
(***************************************************************************)
EXTENDS MapFile, SequenceTheorems, WellFoundedInduction, NaturalsInduction, TLAPS

-----------------------------------------------------------------------------
(* Numbers.                                                                *)

(* The quotient of a division is the one that leaves a rest.               *)
LEMMA DivUnique ==
  ASSUME NEW a \in Int, NEW m \in Nat \ {0}, NEW q \in Int, m * q <= a, a < m * q + m
  PROVE  a \div m = q
  BY SMT

(* A quotient and its rest.                                                *)
LEMMA DivIs ==
  ASSUME NEW a \in Int, NEW m \in Nat \ {0}
  PROVE  /\ a \div m \in Int /\ a % m \in 0..(m - 1) /\ m * (a \div m) \in Int
         /\ a = m * (a \div m) + (a % m) /\ m * (a \div m) <= a /\ a < m * (a \div m) + m
         /\ a >= 0 => a \div m >= 0
  BY SMT

(* The quotient and the rest of a division are those that fit.             *)
LEMMA RestUnique ==
  ASSUME NEW a \in Int, NEW m \in Nat \ {0}, NEW q \in Int, a - m * q \in 0..(m - 1)
  PROVE  a % m = a - m * q /\ a \div m = q
<1>1. PICK d \in Int : d = m * q
  OBVIOUS
<1>2. m * q <= a /\ a < m * q + m
  BY <1>1
<1>3. a \div m = q
  BY <1>2, DivUnique
<1>4. a = m * (a \div m) + (a % m) /\ a % m \in 0..(m - 1)
  BY DivIs
<1>5. a = d + (a % m)
  BY <1>1, <1>3, <1>4
<1>6. QED
  BY <1>1, <1>3, <1>4, <1>5

(* A number that leaves no rest is a product.                              *)
LEMMA NoRest ==
  ASSUME NEW a \in Int, NEW m \in Nat \ {0}
  PROVE  a % m = 0 => \E k \in Int : a = m * k
<1>1. a = m * (a \div m) + (a % m) /\ m * (a \div m) \in Int /\ a \div m \in Int
  BY DivIs
<1>2. a % m = 0 => a = m * (a \div m)
  BY <1>1
<1>3. QED
  BY <1>1, <1>2

(* The same, of a number put together of a quotient and a rest.            *)
LEMMA RestOf ==
  ASSUME NEW m \in Nat \ {0}, NEW q \in Int, NEW r \in 0..(m - 1), NEW a \in Int, a = m * q + r
  PROVE  a % m = r /\ a \div m = q
<1>1. PICK d \in Int : d = m * q
  OBVIOUS
<1>2. a - d = r
  BY <1>1
<1>3. a % m = a - m * q /\ a \div m = q
  BY <1>1, <1>2, RestUnique
<1>4. QED
  BY <1>1, <1>2, <1>3

(* A quotient of natural numbers is one.                                   *)
LEMMA DivIsNatural ==
  ASSUME NEW a \in Nat, NEW m \in Nat \ {0}
  PROVE  a \div m \in Nat
  BY SMT

(* Dividing by one leaves a number as it is.                               *)
LEMMA DivByOne ==
  ASSUME NEW a \in Int
  PROVE  a \div 1 = a
  BY SMT

(* Dividing twice is dividing by the product.                              *)
LEMMA DivTwice ==
  ASSUME NEW a \in Int, NEW m \in Nat \ {0}, NEW k \in Nat \ {0}
  PROVE  (a \div m) \div k = a \div (m * k)
<1>1. PICK q, r : q = a \div m /\ r = q \div k
  OBVIOUS
<1>2. q \in Int /\ r \in Int /\ m * q <= a /\ a < m * q + m /\ k * r <= q /\ q < k * r + k
  BY <1>1, DivIs
<1>3. q + 1 <= k * r + k /\ k * r \in Int
  BY <1>2
<1>4. m * (k * r) <= m * q
  BY <1>2, <1>3
<1>5. m * (q + 1) <= m * (k * r + k)
  BY <1>2, <1>3
<1>6. m * (q + 1) = m * q + m /\ m * (k * r + k) = (m * k) * r + m * k /\ m * (k * r) = (m * k) * r
  BY <1>2
<1>7. m * k \in Nat \ {0}
  OBVIOUS
<1>8. PICK p \in Nat \ {0} : p = m * k
  BY <1>7
<1>9. p * r <= a /\ a < p * r + p
  BY <1>2, <1>4, <1>5, <1>6, <1>8
<1>10. a \div p = r
  BY <1>2, <1>9, DivUnique
<1>11. QED
  BY <1>1, <1>8, <1>10

(* ... and by four.                                                       *)
LEMMA DivByFour ==
  ASSUME NEW a \in Nat, NEW m \in Nat \ {0}
  PROVE  (a \div m) \div 4 = a \div (m * 4)
<1>1. PICK k \in Nat \ {0} : k = 4
  OBVIOUS
<1>2. a \in Int
  OBVIOUS
<1>3. (a \div m) \div k = a \div (m * k)
  BY <1>1, <1>2, DivTwice, Zenon
<1>4. QED
  BY <1>1, <1>3

(* Division keeps the order.                                               *)
LEMMA DivKeepsOrder ==
  ASSUME NEW a \in Int, NEW b \in Int, NEW m \in Nat \ {0}, a <= b
  PROVE  a \div m <= b \div m
  BY SMT

(* A number has the quotient q where it lies in the interval of q.         *)
LEMMA DivAsInterval ==
  ASSUME NEW a \in Int, NEW m \in Nat \ {0}, NEW q \in Int
  PROVE  a \div m = q <=> a \in (q * m)..(q * m + m - 1)
<1>1. a \div m \in Int /\ m * (a \div m) <= a /\ a < m * (a \div m) + m
  BY DivIs
<1>2. q * m = m * q /\ m * q \in Int
  OBVIOUS
<1>3. ASSUME a \in (q * m)..(q * m + m - 1) PROVE a \div m = q
  <2>1. m * q <= a /\ a < m * q + m
    BY <1>2, <1>3
  <2>2. QED
    BY <2>1, DivUnique
<1>4. QED
  BY <1>1, <1>2, <1>3

(* The larger and the smaller of two numbers.                              *)
LEMMA OfTwo ==
  ASSUME NEW a \in Int, NEW b \in Int
  PROVE  /\ Min({a, b}) = IF a <= b THEN a ELSE b
         /\ Max({a, b}) = IF a >= b THEN a ELSE b
BY DEF Min, Max

(* A set of positions of a sequence has a last one.                        *)
LEMMA LastIs ==
  ASSUME NEW n \in Nat, NEW S \in SUBSET (1..n), S # {}
  PROVE  Max(S) \in S
<1>1. PICK D : D = {n - i : i \in S}
  OBVIOUS
<1>2. D \subseteq Nat /\ D # {}
  <2>1. ASSUME NEW i \in S PROVE n - i \in Nat
    <3>1. i \in 1..n
      OBVIOUS
    <3>2. QED
      BY <3>1
  <2>2. QED
    BY <1>1, <2>1
<1>3. PICK d \in D : \A e \in D : ~(<<e, d>> \in OpToRel(<, Nat))
  BY <1>2, WFMin, NatLessThanWellFounded
<1>4. \A e \in D : ~(e < d) /\ e \in Nat /\ d \in Nat
  BY <1>2, <1>3 DEF OpToRel
<1>5. PICK i \in S : d = n - i
  BY <1>1
<1>6. \A j \in S : i >= j
  <2>1. ASSUME NEW j \in S PROVE i >= j
    <3>1. n - j \in D
      BY <1>1
    <3>2. ~(n - j < n - i) /\ i \in Int /\ j \in Int
      BY <1>4, <1>5, <3>1
    <3>3. QED
      BY <3>2
  <2>2. QED
    BY <2>1
<1>7. \E m \in S : \A j \in S : m >= j
  BY <1>6
<1>8. Max(S) = CHOOSE m \in S : \A j \in S : m >= j
  BY DEF Max
<1>9. QED
  BY <1>7, <1>8

(* The powers of two that the zoom levels need.                            *)
LEMMA PowerIs ==
  /\ 2^0 = 1 /\ 2^1 = 2 /\ \A n \in 0..30 : 2^n \in Nat \ {0}
  /\ \A n \in 2..30 : 2^n = 2^(n - 2) * 4
<1>0. 2^1 = 2
  <2>1. 0 + 1 = 1 /\ 0 \in 0..29
    OBVIOUS
  <2>2. 2^(0 + 1) = 2 * 2^0
    BY <2>1, PowerAssumption
  <2>3. QED
    BY <2>1, <2>2, PowerAssumption
<1>1. 2^0 = 1 /\ \A n \in 0..30 : 2^n \in Nat \ {0}
  BY PowerAssumption
<1>2. ASSUME NEW n \in 2..30 PROVE 2^n = 2^(n - 2) * 4
  <2>1. PICK p : p = n - 2
    OBVIOUS
  <2>2. p \in 0..29 /\ p \in 0..30 /\ p + 1 \in 0..29 /\ (p + 1) + 1 = n /\ n - 2 = p
    BY <2>1
  <2>3. 2^(p + 1) = 2 * 2^p /\ 2^((p + 1) + 1) = 2 * 2^(p + 1)
    BY <2>2, PowerAssumption
  <2>4. PICK u : u = 2^p
    OBVIOUS
  <2>5. u \in Nat \ {0}
    BY <1>1, <2>2, <2>4
  <2>6. QED
    BY <2>2, <2>3, <2>4, <2>5
<1>3. QED
  BY <1>0, <1>1, <1>2

-----------------------------------------------------------------------------
(* The grid of a sub-file and the part of it that a tile meets.            *)

(* The sub-file of a zoom level that one covers.                           *)
LEMMA SubFileIs ==
  ASSUME NEW k \in DOMAIN Files, NEW f, f = Files[k], NEW z, Covering(f, z) # {}, NEW s, s = SubFileAt(f, z)
  PROVE  /\ s.base \in 0..FinestZoom /\ s.base \in 0..30 /\ s.min \in 0..22 /\ s.max \in s.min..22
         /\ z \in s.min..s.max /\ IsSubFile(f, s)
<1>1. f.subFiles \in Seq(Range(f.subFiles)) /\ \A i \in DOMAIN f.subFiles : IsSubFile(f, f.subFiles[i])
  BY FilesAssumption
<1>2. PICK n \in Nat : DOMAIN f.subFiles = 1..n
  BY <1>1, LenProperties
<1>3. PICK S : S = Covering(f, z)
  OBVIOUS
<1>4. S \in SUBSET (1..n) /\ S # {}
  BY <1>2, <1>3 DEF Covering
<1>5. PICK i : i = Max(S)
  OBVIOUS
<1>6. i \in S
  BY <1>4, <1>5, LastIs
<1>7. s = f.subFiles[i] /\ i \in DOMAIN f.subFiles /\ z \in s.min..s.max
  BY <1>3, <1>5, <1>6 DEF SubFileAt, Covering
<1>8. s.base \in 0..FinestZoom /\ s.min \in 0..22 /\ s.max \in s.min..22
  BY <1>7, MapFileAssumption
<1>9. s.base \in 0..30
  BY <1>8, MapFileAssumption
<1>10. QED
  BY <1>1, <1>7, <1>8, <1>9

(* The grid has a block at least.                                          *)
LEMMA GridIs ==
  ASSUME NEW k \in DOMAIN Files, NEW f, f = Files[k], NEW s, s.base \in 0..FinestZoom
  PROVE  /\ Boundary(f, s).left \in Nat /\ Boundary(f, s).top \in Nat
         /\ BlocksWidth(f, s) \in Nat \ {0} /\ BlocksHeight(f, s) \in Nat \ {0}
<1>1. f.box \in [left : Nat, top : Nat, right : Nat, bottom : Nat] /\ f.box.left <= f.box.right /\ f.box.top <= f.box.bottom
  BY FilesAssumption
<1>2. PICK m : m = 2^(FinestZoom - s.base)
  OBVIOUS
<1>3. m \in Nat \ {0}
  <2>1. FinestZoom - s.base \in 0..30
    BY MapFileAssumption
  <2>2. QED
    BY <1>2, <2>1, PowerIs
<1>4. /\ Boundary(f, s).left = f.box.left \div m /\ Boundary(f, s).right = f.box.right \div m
      /\ Boundary(f, s).top = f.box.top \div m /\ Boundary(f, s).bottom = f.box.bottom \div m
  BY <1>1, <1>2 DEF Boundary
<1>5. PICK l, r, u, d : l = f.box.left /\ r = f.box.right /\ u = f.box.top /\ d = f.box.bottom
  OBVIOUS
<1>6. l \in Nat /\ r \in Nat /\ u \in Nat /\ d \in Nat /\ l <= r /\ u <= d
  BY <1>1, <1>5
<1>7. l \div m \in Nat /\ u \div m \in Nat /\ r \div m \in Nat /\ d \div m \in Nat
  BY <1>3, <1>6, DivIsNatural
<1>8. l \div m <= r \div m /\ u \div m <= d \div m
  BY <1>3, <1>6, DivKeepsOrder
<1>9. QED
  BY <1>4, <1>5, <1>7, <1>8 DEF BlocksWidth, BlocksHeight

\* What is asked of the base tiles of a tile.
IsBaseTiles(b, t, base) ==
  /\ b.fromX \in Int /\ b.toX \in Int /\ b.fromY \in Int /\ b.toY \in Int
  /\ b.useTileBitmask <=> t.zoom > base
  /\ b.useTileBitmask => b.mask = TileBitmask(t, t.zoom - base)
  /\ \A x, y \in Nat :
       Meets(t, [zoom |-> base, x |-> x, y |-> y]) <=> x \in b.fromX..b.toX /\ y \in b.fromY..b.toY

(* The base tiles of a tile are those that it has ground in common with.   *)
LEMMA BaseTilesAre ==
  ASSUME NEW t \in Tiles, NEW base \in 0..30
  PROVE  IsBaseTiles(BaseTiles(t, base), t, base)
<1>0. PICK b : b = BaseTiles(t, base)
  OBVIOUS
<1>1. t.zoom \in 0..30 /\ t.x \in Nat /\ t.y \in Nat
  BY MapFileAssumption
<1>2. PICK z, u, v : z = t.zoom /\ u = t.x /\ v = t.y
  OBVIOUS
<1>3. z \in 0..30 /\ u \in Nat /\ v \in Nat
  BY <1>1, <1>2
<1>4. u \div 1 = u /\ v \div 1 = v
  BY <1>3, DivByOne
<1>5. CASE z < base
  <2>1. PICK m : m = 2^(base - z)
    OBVIOUS
  <2>2. m \in Nat \ {0}
    <3>1. base - z \in 0..30
      BY <1>3, <1>5
    <3>2. QED
      BY <2>1, <3>1, PowerIs
  <2>3. b = [fromX |-> u * m, toX |-> u * m + m - 1, fromY |-> v * m, toY |-> v * m + m - 1,
             useTileBitmask |-> FALSE, mask |-> {}]
    BY <1>0, <1>2, <1>5, <2>1 DEF BaseTiles
  <2>4. Min({z, base}) = z
    BY <1>3, <1>5, OfTwo
  <2>5. 2^(z - z) = 1
    BY <1>3, PowerIs
  <2>6. u * m \in Int /\ v * m \in Int
    BY <1>3, <2>2
  <2>7. /\ b.fromX = u * m /\ b.toX = u * m + m - 1 /\ b.fromY = v * m /\ b.toY = v * m + m - 1
        /\ ~ b.useTileBitmask
    BY <2>3
  <2>8. b.fromX \in Int /\ b.toX \in Int /\ b.fromY \in Int /\ b.toY \in Int
    BY <2>2, <2>6, <2>7
  <2>9. b.useTileBitmask <=> t.zoom > base
    <3>1. ~ (t.zoom > base)
      BY <1>2, <1>3, <1>5
    <3>2. QED
      BY <2>7, <3>1
  <2>10. ASSUME NEW x \in Nat, NEW y \in Nat
         PROVE  Meets(t, [zoom |-> base, x |-> x, y |-> y]) <=> x \in b.fromX..b.toX /\ y \in b.fromY..b.toY
    <3>1. PICK a : a = [zoom |-> base, x |-> x, y |-> y]
      OBVIOUS
    <3>2. Meets(t, a) <=> <<u \div 1, v \div 1>> = <<x \div m, y \div m>>
      BY <1>2, <2>1, <2>4, <2>5, <3>1 DEF Meets
    <3>3. Meets(t, a) <=> x \div m = u /\ y \div m = v
      BY <1>4, <3>2
    <3>4. (x \div m = u <=> x \in (u * m)..(u * m + m - 1)) /\ (y \div m = v <=> y \in (v * m)..(v * m + m - 1))
      BY <1>3, <2>2, DivAsInterval
    <3>5. QED
      BY <2>7, <3>1, <3>3, <3>4
  <2>11. QED
    BY <1>0, <2>7, <2>8, <2>9, <2>10 DEF IsBaseTiles
<1>6. CASE z >= base
  <2>1. PICK m : m = 2^(z - base)
    OBVIOUS
  <2>2. m \in Nat \ {0}
    <3>1. z - base \in 0..30
      BY <1>3, <1>6
    <3>2. QED
      BY <2>1, <3>1, PowerIs
  <2>3. ~ (z < base)
    BY <1>3, <1>6
  <2>4. b = [fromX |-> u \div m, toX |-> u \div m, fromY |-> v \div m, toY |-> v \div m,
             useTileBitmask |-> z > base, mask |-> IF z > base THEN TileBitmask(t, z - base) ELSE {}]
    BY <1>0, <1>2, <2>1, <2>3 DEF BaseTiles
  <2>5. Min({z, base}) = base
    BY <1>3, <1>6, OfTwo
  <2>6. 2^(base - base) = 1
    BY PowerIs
  <2>7. u \div m \in Int /\ v \div m \in Int
    BY <1>3, <2>2
  <2>8. /\ b.fromX = u \div m /\ b.toX = u \div m /\ b.fromY = v \div m /\ b.toY = v \div m
        /\ b.useTileBitmask <=> z > base
    <3>1. b.useTileBitmask = (z > base)
      BY <2>4
    <3>2. b.useTileBitmask <=> z > base
      BY ONLY <3>1
    <3>3. b.fromX = u \div m /\ b.toX = u \div m /\ b.fromY = v \div m /\ b.toY = v \div m
      BY <2>4
    <3>4. QED
      BY <3>2, <3>3
  <2>9. ASSUME b.useTileBitmask PROVE b.mask = TileBitmask(t, z - base)
    <3>1. z > base
      BY <2>8, <2>9
    <3>2. b.mask = IF z > base THEN TileBitmask(t, z - base) ELSE {}
      BY <2>4
    <3>3. QED
      BY <3>1, <3>2
  <2>10. ASSUME NEW x \in Nat, NEW y \in Nat
         PROVE  Meets(t, [zoom |-> base, x |-> x, y |-> y]) <=> x \in b.fromX..b.toX /\ y \in b.fromY..b.toY
    <3>1. PICK a : a = [zoom |-> base, x |-> x, y |-> y]
      OBVIOUS
    <3>2. Meets(t, a) <=> <<u \div m, v \div m>> = <<x \div 1, y \div 1>>
      BY <1>2, <2>1, <2>5, <2>6, <3>1 DEF Meets
    <3>3. Meets(t, a) <=> x = u \div m /\ y = v \div m
      BY <3>2, DivByOne
    <3>4. x \in b.fromX..b.toX <=> x = u \div m
      BY <2>7, <2>8
    <3>5. y \in b.fromY..b.toY <=> y = v \div m
      BY <2>7, <2>8
    <3>6. QED
      BY <3>1, <3>3, <3>4, <3>5
  <2>11. QED
    BY <1>0, <1>2, <2>7, <2>8, <2>9, <2>10 DEF IsBaseTiles
<1>7. QED
  BY <1>3, <1>5, <1>6

(* The blocks of a query are those of the grid that meet the tile.         *)
LEMMA QueryIs ==
  ASSUME NEW k \in DOMAIN Files, NEW f, f = Files[k], NEW t \in Tiles, NEW q, q = QueryParameters(f, t),
         Covering(f, q.zoom) # {}, NEW s, s = SubFileAt(f, q.zoom),
         NEW l, l = Boundary(f, s).left, NEW u, u = Boundary(f, s).top,
         NEW W, W = BlocksWidth(f, s), NEW H, H = BlocksHeight(f, s)
  PROVE  /\ q.fromX \in Nat /\ q.fromY \in Nat /\ q.toX \in Int /\ q.toY \in Int /\ q.toX < W /\ q.toY < H
         /\ (q.useTileBitmask <=> t.zoom > s.base)
         /\ q.useTileBitmask => q.mask = TileBitmask(t, t.zoom - s.base)
         /\ \A c \in 0..(W - 1), r \in 0..(H - 1) :
              Meets(t, [zoom |-> s.base, x |-> l + c, y |-> u + r])
                <=> c \in q.fromX..q.toX /\ r \in q.fromY..q.toY
<1>1. q.zoom = QueryZoomLevel(f, t.zoom)
  BY DEF QueryParameters
<1>2. s.base \in 0..FinestZoom /\ s.base \in 0..30
  BY SubFileIs
<1>3. l \in Nat /\ u \in Nat /\ W \in Nat \ {0} /\ H \in Nat \ {0}
  BY <1>2, GridIs
<1>4. PICK b : b = BaseTiles(t, s.base)
  OBVIOUS
<1>5. /\ q.useTileBitmask = b.useTileBitmask /\ q.mask = b.mask
      /\ q.fromX = Max({b.fromX - l, 0}) /\ q.fromY = Max({b.fromY - u, 0})
      /\ q.toX = Min({b.toX - l, W - 1}) /\ q.toY = Min({b.toY - u, H - 1})
  BY <1>1, <1>4 DEF QueryParameters
<1>6. /\ b.fromX \in Int /\ b.toX \in Int /\ b.fromY \in Int /\ b.toY \in Int
      /\ (b.useTileBitmask <=> t.zoom > s.base)
      /\ b.useTileBitmask => b.mask = TileBitmask(t, t.zoom - s.base)
      /\ \A x, y \in Nat :
           Meets(t, [zoom |-> s.base, x |-> x, y |-> y]) <=> x \in b.fromX..b.toX /\ y \in b.fromY..b.toY
  <2>1. PICK base \in 0..30 : base = s.base
    BY <1>2
  <2>2. IsBaseTiles(b, t, base)
    BY <1>4, <2>1, BaseTilesAre
  <2>3. QED
    BY <2>1, <2>2 DEF IsBaseTiles
<1>7. PICK c1, c2, r1, r2 : c1 = b.fromX - l /\ c2 = b.toX - l /\ r1 = b.fromY - u /\ r2 = b.toY - u
  OBVIOUS
<1>8. /\ c1 \in Int /\ c2 \in Int /\ r1 \in Int /\ r2 \in Int
      /\ b.fromX = l + c1 /\ b.toX = l + c2 /\ b.fromY = u + r1 /\ b.toY = u + r2
  BY <1>3, <1>6, <1>7
<1>9. /\ q.fromX = IF c1 >= 0 THEN c1 ELSE 0
      /\ q.fromY = IF r1 >= 0 THEN r1 ELSE 0
      /\ q.toX = IF c2 <= W - 1 THEN c2 ELSE W - 1
      /\ q.toY = IF r2 <= H - 1 THEN r2 ELSE H - 1
  <2>1. W - 1 \in Int /\ H - 1 \in Int
    BY <1>3
  <2>2. Max({c1, 0}) = (IF c1 >= 0 THEN c1 ELSE 0) /\ Max({r1, 0}) = (IF r1 >= 0 THEN r1 ELSE 0)
    BY <1>8, OfTwo
  <2>3. Min({c2, W - 1}) = IF c2 <= W - 1 THEN c2 ELSE W - 1
    BY <1>8, <2>1, OfTwo
  <2>4. Min({r2, H - 1}) = IF r2 <= H - 1 THEN r2 ELSE H - 1
    BY <1>8, <2>1, OfTwo
  <2>5. QED
    BY <1>5, <1>7, <2>2, <2>3, <2>4
<1>10. ASSUME NEW c \in 0..(W - 1), NEW r \in 0..(H - 1)
       PROVE  Meets(t, [zoom |-> s.base, x |-> l + c, y |-> u + r])
                <=> c \in q.fromX..q.toX /\ r \in q.fromY..q.toY
  <2>1. l + c \in Nat /\ u + r \in Nat
    BY <1>3
  <2>2. Meets(t, [zoom |-> s.base, x |-> l + c, y |-> u + r])
          <=> l + c \in (l + c1)..(l + c2) /\ u + r \in (u + r1)..(u + r2)
    BY <1>6, <1>8, <2>1
  <2>3. l + c \in (l + c1)..(l + c2) <=> c \in q.fromX..q.toX
    BY <1>3, <1>8, <1>9
  <2>4. u + r \in (u + r1)..(u + r2) <=> r \in q.fromY..q.toY
    BY <1>3, <1>8, <1>9
  <2>5. QED
    BY <2>2, <2>3, <2>4
<1>11. /\ q.fromX \in Nat /\ q.fromY \in Nat /\ q.toX \in Int /\ q.toY \in Int /\ q.toX < W /\ q.toY < H
  <2>1. q.fromX \in Nat /\ q.toX \in Int /\ q.toX < W
    BY <1>3, <1>8, <1>9
  <2>2. q.fromY \in Nat /\ q.toY \in Int /\ q.toY < H
    BY <1>3, <1>8, <1>9
  <2>3. QED
    BY <2>1, <2>2
<1>12. (q.useTileBitmask <=> t.zoom > s.base) /\ (q.useTileBitmask => q.mask = TileBitmask(t, t.zoom - s.base))
  BY <1>5, <1>6
<1>13. QED
  BY <1>10, <1>11, <1>12

-----------------------------------------------------------------------------
(* The bitmask of a tile.                                                  *)

(* The bits of a quarter are those of the subtiles in it.                  *)
LEMMA BitsOfQuarter ==
  ASSUME NEW cx \in 0..1, NEW cy \in 0..1, NEW bit \in 0..15
  PROVE  bit \in ToSet(Quarters[2 * cy + cx + 1]) <=> ((15 - bit) % 4) \div 2 = cx /\ ((15 - bit) \div 4) \div 2 = cy
<1>1. ASSUME NEW a, NEW b, NEW c, NEW d PROVE ToSet(<<a, b, c, d>>) = {a, b, c, d}
  BY DEF ToSet
<1>2. CASE cx = 0 /\ cy = 0
  <2>1. Quarters[2 * cy + cx + 1] = <<15, 14, 11, 10>>
    BY <1>2 DEF Quarters
  <2>2. bit \in {15, 14, 11, 10} <=> ((15 - bit) % 4) \div 2 = 0 /\ ((15 - bit) \div 4) \div 2 = 0
    OBVIOUS
  <2>3. QED
    BY <1>1, <1>2, <2>1, <2>2
<1>3. CASE cx = 1 /\ cy = 0
  <2>1. Quarters[2 * cy + cx + 1] = <<13, 12, 9, 8>>
    BY <1>3 DEF Quarters
  <2>2. bit \in {13, 12, 9, 8} <=> ((15 - bit) % 4) \div 2 = 1 /\ ((15 - bit) \div 4) \div 2 = 0
    OBVIOUS
  <2>3. QED
    BY <1>1, <1>3, <2>1, <2>2
<1>4. CASE cx = 0 /\ cy = 1
  <2>1. Quarters[2 * cy + cx + 1] = <<7, 6, 3, 2>>
    BY <1>4 DEF Quarters
  <2>2. bit \in {7, 6, 3, 2} <=> ((15 - bit) % 4) \div 2 = 0 /\ ((15 - bit) \div 4) \div 2 = 1
    OBVIOUS
  <2>3. QED
    BY <1>1, <1>4, <2>1, <2>2
<1>5. CASE cx = 1 /\ cy = 1
  <2>1. Quarters[2 * cy + cx + 1] = <<5, 4, 1, 0>>
    BY <1>5 DEF Quarters
  <2>2. bit \in {5, 4, 1, 0} <=> ((15 - bit) % 4) \div 2 = 1 /\ ((15 - bit) \div 4) \div 2 = 1
    OBVIOUS
  <2>3. QED
    BY <1>1, <1>5, <2>1, <2>2
<1>6. QED
  BY <1>2, <1>3, <1>4, <1>5

(* The bit of a subtile is that of its place in the block.                 *)
LEMMA BitOfSubtile ==
  ASSUME NEW rx \in 0..3, NEW ry \in 0..3, NEW bit \in 0..15
  PROVE  bit = Quarters[2 * (ry \div 2) + (rx \div 2) + 1][2 * (ry % 2) + (rx % 2) + 1]
           <=> (15 - bit) % 4 = rx /\ (15 - bit) \div 4 = ry
<1>1. PICK r : r = 4 * ry + rx
  OBVIOUS
<1>2. Quarters[2 * (ry \div 2) + (rx \div 2) + 1][2 * (ry % 2) + (rx % 2) + 1] = 15 - r
  <2>1. CASE ry \div 2 = 0 /\ rx \div 2 = 0
    <3>1. Quarters[2 * (ry \div 2) + (rx \div 2) + 1] = <<15, 14, 11, 10>>
      BY <2>1 DEF Quarters
    <3>2. rx \in 0..1 /\ ry \in 0..1
      BY <2>1
    <3>3. QED
      BY <1>1, <3>1, <3>2
  <2>2. CASE ry \div 2 = 0 /\ rx \div 2 = 1
    <3>1. Quarters[2 * (ry \div 2) + (rx \div 2) + 1] = <<13, 12, 9, 8>>
      BY <2>2 DEF Quarters
    <3>2. rx \in 2..3 /\ ry \in 0..1
      BY <2>2
    <3>3. QED
      BY <1>1, <3>1, <3>2
  <2>3. CASE ry \div 2 = 1 /\ rx \div 2 = 0
    <3>1. Quarters[2 * (ry \div 2) + (rx \div 2) + 1] = <<7, 6, 3, 2>>
      BY <2>3 DEF Quarters
    <3>2. rx \in 0..1 /\ ry \in 2..3
      BY <2>3
    <3>3. QED
      BY <1>1, <3>1, <3>2
  <2>4. CASE ry \div 2 = 1 /\ rx \div 2 = 1
    <3>1. Quarters[2 * (ry \div 2) + (rx \div 2) + 1] = <<5, 4, 1, 0>>
      BY <2>4 DEF Quarters
    <3>2. rx \in 2..3 /\ ry \in 2..3
      BY <2>4
    <3>3. QED
      BY <1>1, <3>1, <3>2
  <2>5. QED
    BY <2>1, <2>2, <2>3, <2>4
<1>3. bit = 15 - r <=> (15 - bit) % 4 = rx /\ (15 - bit) \div 4 = ry
  BY <1>1
<1>4. QED
  BY <1>2, <1>3

(* A tile that is finer than the base tile it lies in meets the subtiles   *)
(* whose bits its bitmask has.                                             *)
LEMMA BitmaskIs ==
  ASSUME NEW t \in Tiles, NEW base \in 0..30, t.zoom > base, NEW x \in Nat, NEW y \in Nat,
         Meets(t, [zoom |-> base, x |-> x, y |-> y]), NEW bit \in 0..15, NEW sub,
         sub = [zoom |-> base + 2, x |-> 4 * x + ((15 - bit) % 4), y |-> 4 * y + ((15 - bit) \div 4)]
  PROVE  bit \in TileBitmask(t, t.zoom - base) <=> Meets(t, sub)
<1>1. PICK z, u, v, d : z = t.zoom /\ u = t.x /\ v = t.y /\ d = z - base
  OBVIOUS
<1>2. z \in 0..30 /\ u \in Nat /\ v \in Nat /\ d \in 1..30 /\ z > base
  BY <1>1, MapFileAssumption
<1>3. PICK px, py, sx, sy : /\ px = (15 - bit) % 4 /\ py = (15 - bit) \div 4
                            /\ sx = 4 * x + px /\ sy = 4 * y + py
  OBVIOUS
<1>4. px \in 0..3 /\ py \in 0..3 /\ sx \in Nat /\ sy \in Nat
  BY <1>3
<1>5. sub.zoom = base + 2 /\ sub.x = sx /\ sub.y = sy
  BY <1>3
<1>6. PICK m : m = 2^d
  OBVIOUS
<1>7. m \in Nat \ {0}
  <2>1. d \in 0..30
    BY <1>2
  <2>2. QED
    BY <1>6, <2>1, PowerIs
<1>8. u \div m = x /\ v \div m = y
  <2>1. PICK a : a = [zoom |-> base, x |-> x, y |-> y]
    OBVIOUS
  <2>2. Min({z, base}) = base
    BY <1>2, OfTwo
  <2>3. 2^(base - base) = 1
    BY PowerIs
  <2>4. Meets(t, a) <=> <<u \div m, v \div m>> = <<x \div 1, y \div 1>>
    BY <1>1, <1>6, <2>1, <2>2, <2>3 DEF Meets
  <2>5. QED
    BY <2>1, <2>4, DivByOne
<1>9. CASE d = 1
  <2>1. z = base + 1 /\ m = 2
    <3>1. z = base + 1
      BY <1>1, <1>2, <1>9
    <3>2. QED
      BY <1>6, <1>9, <3>1, PowerIs
  <2>2. Min({z, base + 2}) = z /\ 2^(z - z) = 1 /\ 2^((base + 2) - z) = 2
    <3>1. Min({z, base + 2}) = z
      BY <1>2, <2>1, OfTwo
    <3>2. z - z = 0 /\ (base + 2) - z = 1
      BY <2>1
    <3>3. QED
      BY <1>6, <1>9, <2>1, <3>1, <3>2, PowerIs
  <2>3. Meets(t, sub) <=> <<u \div 1, v \div 1>> = <<sx \div 2, sy \div 2>>
    BY <1>1, <1>5, <2>2 DEF Meets
  <2>4. Meets(t, sub) <=> u = sx \div 2 /\ v = sy \div 2
    BY <1>2, <2>3, DivByOne
  <2>5. sx \div 2 = 2 * x + (px \div 2) /\ sy \div 2 = 2 * y + (py \div 2)
    BY <1>3, <1>4
  <2>6. PICK cx, cy : cx = u % 2 /\ cy = v % 2
    OBVIOUS
  <2>7. cx \in 0..1 /\ cy \in 0..1 /\ u = 2 * x + cx /\ v = 2 * y + cy
    BY <1>2, <1>8, <2>1, <2>6
  <2>8. Meets(t, sub) <=> px \div 2 = cx /\ py \div 2 = cy
    BY <1>4, <2>4, <2>5, <2>7
  <2>9. TileBitmask(t, d) = ToSet(Quarters[2 * cy + cx + 1])
    BY <1>1, <1>9, <2>6 DEF TileBitmask, Quadrant
  <2>10. QED
    BY <1>1, <1>3, <2>7, <2>8, <2>9, BitsOfQuarter
<1>10. CASE d # 1
  <2>1. d \in 2..30 /\ (base + 2) \in 0..30 /\ z >= base + 2
    BY <1>1, <1>2, <1>10
  <2>2. PICK h : h = 2^(d - 2)
    OBVIOUS
  <2>3. h \in Nat \ {0} /\ m = h * 4
    <3>1. d - 2 \in 0..30
      BY <2>1
    <3>2. QED
      BY <1>6, <2>1, <2>2, <3>1, PowerIs
  <2>4. PICK a, b : a = u \div h /\ b = v \div h
    OBVIOUS
  <2>5. a \in Nat /\ b \in Nat
    BY <1>2, <2>3, <2>4, DivIsNatural
  <2>6. a \div 4 = x /\ b \div 4 = y
    <3>1. (u \div h) \div 4 = u \div (h * 4) /\ (v \div h) \div 4 = v \div (h * 4)
      BY <1>2, <2>3, DivByFour
    <3>2. QED
      BY <1>8, <2>3, <2>4, <3>1
  <2>7. PICK rx, ry : rx = a % 4 /\ ry = b % 4
    OBVIOUS
  <2>8. /\ rx \in 0..3 /\ ry \in 0..3 /\ a = 4 * x + rx /\ b = 4 * y + ry
        /\ a % 2 = rx % 2 /\ b % 2 = ry % 2
        /\ (a \div 2) % 2 = rx \div 2 /\ (b \div 2) % 2 = ry \div 2
    BY <2>5, <2>6, <2>7
  <2>9. Min({z, base + 2}) = base + 2 /\ z - (base + 2) = d - 2 /\ 2^((base + 2) - (base + 2)) = 1
    <3>1. Min({z, base + 2}) = base + 2
      BY <1>2, <2>1, OfTwo
    <3>2. (base + 2) - (base + 2) = 0 /\ z - (base + 2) = d - 2
      BY <1>1, <1>2
    <3>3. QED
      BY <3>1, <3>2, PowerIs
  <2>10. Meets(t, sub) <=> <<u \div h, v \div h>> = <<sx \div 1, sy \div 1>>
    BY <1>1, <1>5, <2>2, <2>9 DEF Meets
  <2>11. Meets(t, sub) <=> a = sx /\ b = sy
    BY <1>4, <2>4, <2>10, DivByOne
  <2>12. Meets(t, sub) <=> px = rx /\ py = ry
    BY <1>3, <1>4, <2>8, <2>11
  <2>13. TileBitmask(t, d) = {Quarters[2 * (ry \div 2) + (rx \div 2) + 1][2 * (ry % 2) + (rx % 2) + 1]}
    BY <1>1, <1>10, <2>2, <2>4, <2>8 DEF TileBitmask, Quadrant
  <2>14. bit = Quarters[2 * (ry \div 2) + (rx \div 2) + 1][2 * (ry % 2) + (rx % 2) + 1] <=> px = rx /\ py = ry
    <3>1. rx \in 0..3 /\ ry \in 0..3
      BY <2>8
    <3>2. QED
      BY <1>3, <3>1, BitOfSubtile
  <2>15. QED
    BY <1>1, <2>12, <2>13, <2>14
<1>11. QED
  BY <1>9, <1>10

-----------------------------------------------------------------------------
(* The inductive invariant.                                                *)

Phases == {"idle", "blocks", "pois", "ways", "done", "ended", "undefined"}
InQuery == phase \in {"blocks", "pois", "ways"}
InBlock == phase \in {"pois", "ways"}

Width == BlocksWidth(file, SubFile)
Height == BlocksHeight(file, SubFile)

\* The loop has gone past a block.
Passed(n) == n \div Width < block.row \/ (n \div Width = block.row /\ n % Width < block.column)

\* How many elements of the block the tile's zoom level has, and how many of
\* them have been read.
AllPois == Cumulated(Entry(Number).rows, "pois")
AllWays == Cumulated(Entry(Number).rows, "ways")
PoisRead == IF InBlock THEN AllPois - Len(pois) ELSE 0
WaysRead == IF InBlock THEN AllWays - Len(ways) ELSE 0

\* What a poi and a way are reported as.
PoiOf(n, k) == [id |-> Entry(n).pois[k].id, block |-> n]
WayOf(n, k) == Entry(n).ways[k].id

Queried ==
  /\ opened \in DOMAIN Files /\ longMax \in LongMaxima /\ tile \in Tiles
  /\ query = QueryParameters(file, tile) /\ Covering(file, query.zoom) # {}

\* The loop is within the rectangle of the query, or past its end.
Loop ==
  /\ block \in [row : Int, column : Int]
  /\ block.row >= query.fromY /\ block.column >= query.fromX
  /\ block.column = query.fromX \/ block.column <= query.toX

AtBlock == block.row <= query.toY /\ block.column <= query.toX

\* In a block, what is left to read is the rest of what the tile shows.
Rest ==
  /\ AtBlock
  /\ Len(pois) \in 0..AllPois /\ pois = SubSeq(Entry(Number).pois, PoisRead + 1, AllPois)
  /\ Len(ways) \in 0..AllWays /\ ways = SubSeq(Entry(Number).ways, WaysRead + 1, AllWays)
  /\ phase = "ways" => pois = <<>>

\* The elements reported are of blocks the loop has passed, or read already.
OnlyPois(reported, read) ==
  /\ reported \in Seq(Range(reported)) /\ IsInjective(reported)
  /\ \A i \in DOMAIN reported : \E n \in BlocksOfTile : \E k \in PoisOfTile(n) :
       reported[i] = PoiOf(n, k) /\ (Passed(n) \/ (n = Number /\ k <= read))
OnlyWays(reported, read) ==
  /\ reported \in Seq(Range(reported)) /\ IsInjective(reported)
  /\ \A i \in DOMAIN reported : \E n \in BlocksOfTile : \E k \in WaysOfTile(n) :
       reported[i] = WayOf(n, k) /\ (Passed(n) \/ (n = Number /\ k <= read))

\* And all of those are reported.
PoisReported(n, reported) == \A k \in PoisOfTile(n) : PoiOf(n, k) \in ToSet(reported)
WaysReported(n, reported) == \A k \in WaysOfTile(n) : WayOf(n, k) \in ToSet(reported)
PassedReported ==
  \A n \in BlocksOfTile : Passed(n) /\ IsSound(n) => PoisReported(n, nodes) /\ WaysReported(n, found)
ReadReported ==
  /\ \A k \in 1..PoisRead : PoiOf(Number, k) \in ToSet(nodes)
  /\ \A k \in 1..WaysRead : k \in WaysOfTile(Number) => WayOf(Number, k) \in ToSet(found)

\* What the loop knows of water is that of the blocks it has come to.
Visited(n) == Passed(n) \/ (InBlock /\ n = Number)
WaterSoFar ==
  /\ water.is <=> \A n \in BlocksOfTile : Visited(n) => IsWater(n)
  /\ water.read <=> \E n \in BlocksOfTile : Visited(n)
  /\ \A n \in BlocksOfTile : Visited(n) => IsPointer(Pointer(n))
  /\ ~ background

IInv ==
  /\ phase \in Phases /\ opened \in DOMAIN Files /\ longMax \in LongMaxima
  /\ IsQueried => Queried
  /\ OnlyWhatTheTileShows /\ SoundBlocksAreReported /\ BackgroundIsWater
  /\ InQuery => /\ Loop /\ PassedReported /\ WaterSoFar
                /\ OnlyPois(nodes, PoisRead) /\ OnlyWays(found, WaysRead)
  /\ InBlock => Rest /\ ReadReported

-----------------------------------------------------------------------------
(* The blocks of a query.                                                  *)

(* The place in its grid of a block ...                                    *)
LEMMA PlaceOfNumber ==
  ASSUME NEW W \in Nat \ {0}, NEW H \in Nat \ {0}, NEW n \in 0..(W * H - 1)
  PROVE  n % W \in 0..(W - 1) /\ n \div W \in 0..(H - 1)
<1>1. PICK c, r : c = n % W /\ r = n \div W
  OBVIOUS
<1>2. W * H \in Nat /\ n \in Nat
  OBVIOUS
<1>3. r \in Nat /\ c \in 0..(W - 1) /\ W * r <= n
  <2>1. n \in Int
    BY <1>2
  <2>2. c \in 0..(W - 1) /\ W * r <= n
    BY <1>1, <2>1, DivIs
  <2>3. r \in Nat
    BY <1>1, <1>2, DivIsNatural
  <2>4. QED
    BY <2>2, <2>3
<1>4. ~ (r >= H)
  <2>1. ASSUME r >= H PROVE W * r >= W * H
    BY <1>3, <2>1
  <2>2. QED
    BY <1>2, <1>3, <2>1
<1>5. QED
  BY <1>1, <1>3, <1>4

(* ... and the number of the block at a place.                             *)
LEMMA NumberOfPlace ==
  ASSUME NEW W \in Nat \ {0}, NEW H \in Nat \ {0}, NEW r \in 0..(H - 1), NEW c \in 0..(W - 1)
  PROVE  /\ r * W + c \in 0..(W * H - 1)
         /\ (r * W + c) \div W = r /\ (r * W + c) % W = c
<1>1. PICK n, p : n = r * W + c /\ p = W * r
  OBVIOUS
<1>2. p \in Nat /\ n = p + c /\ n \in Nat
  BY <1>1
<1>3. n \div W = r
  <2>1. W * r <= n /\ n < W * r + W
    BY <1>1, <1>2
  <2>2. QED
    BY <1>2, <2>1, DivUnique
<1>4. n % W = c
  <2>1. n = W * (n \div W) + (n % W) /\ n % W \in 0..(W - 1)
    BY <1>2, DivIs
  <2>2. n = p + (n % W)
    BY <1>1, <1>3, <2>1
  <2>3. QED
    BY <1>2, <2>1, <2>2
<1>5. p + W <= W * H /\ W * H \in Nat
  <2>1. r + 1 <= H
    OBVIOUS
  <2>2. W * (r + 1) <= W * H
    BY <2>1
  <2>3. W * (r + 1) = p + W
    BY <1>1
  <2>4. QED
    BY <2>2, <2>3
<1>6. n \in 0..(W * H - 1)
  BY <1>2, <1>5
<1>7. QED
  BY <1>1, <1>3, <1>4, <1>6

(* The query and its grid.                                                 *)
LEMMA QueryOfState ==
  ASSUME Queried
  PROVE  /\ Width \in Nat \ {0} /\ Height \in Nat \ {0} /\ NumberOfBlocks = Width * Height
         /\ IsSubFile(file, SubFile) /\ SubFile.base \in 0..30 /\ query.zoom \in SubFile.min..SubFile.max
         /\ SubFile.min \in 0..22 /\ SubFile.max \in 0..22
         /\ Boundary(file, SubFile).left \in Nat /\ Boundary(file, SubFile).top \in Nat
         /\ query.fromX \in Nat /\ query.fromY \in Nat /\ query.toX \in Int /\ query.toY \in Int
         /\ query.toX < Width /\ query.toY < Height
         /\ (query.useTileBitmask <=> tile.zoom > SubFile.base)
         /\ (query.useTileBitmask => query.mask = TileBitmask(tile, tile.zoom - SubFile.base))
<1>1. PICK f, s, W, H : f = file /\ s = SubFile /\ W = Width /\ H = Height
  OBVIOUS
<1>2. /\ opened \in DOMAIN Files /\ longMax \in LongMaxima /\ f = Files[opened] /\ tile \in Tiles /\ query = QueryParameters(f, tile)
      /\ Covering(f, query.zoom) # {} /\ s = SubFileAt(f, query.zoom)
      /\ W = BlocksWidth(f, s) /\ H = BlocksHeight(f, s) /\ NumberOfBlocks = W * H
  BY <1>1 DEF Queried, file, SubFile, Width, Height, NumberOfBlocks
<1>3. /\ s.base \in 0..FinestZoom /\ s.base \in 0..30 /\ s.min \in 0..22 /\ s.max \in s.min..22
      /\ query.zoom \in s.min..s.max /\ IsSubFile(f, s)
  BY <1>2, SubFileIs
<1>4. Boundary(f, s).left \in Nat /\ Boundary(f, s).top \in Nat /\ W \in Nat \ {0} /\ H \in Nat \ {0}
  BY <1>2, <1>3, GridIs
<1>5. /\ query.fromX \in Nat /\ query.fromY \in Nat /\ query.toX \in Int /\ query.toY \in Int
      /\ query.toX < W /\ query.toY < H
      /\ (query.useTileBitmask <=> tile.zoom > s.base)
      /\ (query.useTileBitmask => query.mask = TileBitmask(tile, tile.zoom - s.base))
  BY <1>2, QueryIs
<1>6. s.max \in 0..22
  BY <1>3
<1>7. QED
  BY <1>1, <1>2, <1>3, <1>4, <1>5, <1>6

(* The blocks that the tile meets are those of the query's rectangle.      *)
LEMMA BlocksOfTileAre ==
  ASSUME Queried
  PROVE  \A n : n \in BlocksOfTile <=> /\ n \in 0..(NumberOfBlocks - 1)
                                       /\ n % Width \in query.fromX..query.toX
                                       /\ n \div Width \in query.fromY..query.toY
<1>1. PICK f, s, W, H : f = file /\ s = SubFile /\ W = Width /\ H = Height
  OBVIOUS
<1>2. /\ opened \in DOMAIN Files /\ longMax \in LongMaxima /\ f = Files[opened] /\ tile \in Tiles /\ query = QueryParameters(f, tile)
      /\ Covering(f, query.zoom) # {} /\ s = SubFileAt(f, query.zoom)
      /\ W = BlocksWidth(f, s) /\ H = BlocksHeight(f, s)
  BY <1>1 DEF Queried, file, SubFile, Width, Height
<1>3. W \in Nat \ {0} /\ H \in Nat \ {0} /\ NumberOfBlocks = W * H
  BY <1>1, QueryOfState
<1>4. \A c \in 0..(W - 1), r \in 0..(H - 1) :
        Meets(tile, [zoom |-> s.base, x |-> Boundary(f, s).left + c, y |-> Boundary(f, s).top + r])
          <=> c \in query.fromX..query.toX /\ r \in query.fromY..query.toY
  <2>1. PICK l, u : l = Boundary(f, s).left /\ u = Boundary(f, s).top
    OBVIOUS
  <2>2. \A c \in 0..(W - 1), r \in 0..(H - 1) :
          Meets(tile, [zoom |-> s.base, x |-> l + c, y |-> u + r])
            <=> c \in query.fromX..query.toX /\ r \in query.fromY..query.toY
    BY <1>2, <2>1, QueryIs
  <2>3. QED
    BY <2>1, <2>2
<1>5. ASSUME NEW n \in 0..(NumberOfBlocks - 1)
      PROVE  Meets(tile, TileOfBlock(n)) <=> n % W \in query.fromX..query.toX /\ n \div W \in query.fromY..query.toY
  <2>1. n % W \in 0..(W - 1) /\ n \div W \in 0..(H - 1)
    BY <1>3, PlaceOfNumber
  <2>2. TileOfBlock(n) = [zoom |-> s.base, x |-> Boundary(f, s).left + (n % W), y |-> Boundary(f, s).top + (n \div W)]
    BY <1>1, <1>2 DEF TileOfBlock
  <2>3. QED
    BY <1>4, <2>1, <2>2
<1>6. QED
  BY <1>1, <1>5 DEF BlocksOfTile

(* A block of the query, with its place in the index.                      *)
LEMMA BlockOfTile ==
  ASSUME Queried, NEW n \in BlocksOfTile
  PROVE  /\ n \in Nat /\ n + 1 \in DOMAIN SubFile.blocks /\ IsBlock(Entry(n), SubFile)
         /\ EndOf(SubFile, n + 1) = IF n + 1 = NumberOfBlocks THEN SubFile.size ELSE Entry(n + 1).pointer
         /\ EndOf(SubFile, n + 1) = Entry(n).pointer => Entry(n).pois = <<>> /\ Entry(n).ways = <<>>
<1>1. /\ Width \in Nat \ {0} /\ Height \in Nat \ {0} /\ NumberOfBlocks = Width * Height /\ IsSubFile(file, SubFile)
  BY QueryOfState
<1>2. PICK N : N = NumberOfBlocks
  OBVIOUS
<1>3. N \in Nat
  BY <1>1, <1>2
<1>4. n \in 0..(N - 1)
  BY <1>2, BlocksOfTileAre
<1>5. SubFile.blocks \in Seq(Range(SubFile.blocks)) /\ Len(SubFile.blocks) = N
  BY <1>1, <1>2 DEF IsSubFile, Width, Height
<1>6. n + 1 \in 1..N /\ n \in Nat /\ DOMAIN SubFile.blocks = 1..N
  BY <1>3, <1>4, <1>5, LenProperties
<1>7. Entry(n) = SubFile.blocks[n + 1] /\ Entry(n + 1) = SubFile.blocks[(n + 1) + 1]
  BY DEF Entry
<1>8. EndOf(SubFile, n + 1) = IF n + 1 = N THEN SubFile.size ELSE Entry(n + 1).pointer
  BY <1>5, <1>7 DEF EndOf
<1>9. IsBlock(Entry(n), SubFile) /\ (EndOf(SubFile, n + 1) = Entry(n).pointer => Entry(n).pois = <<>> /\ Entry(n).ways = <<>>)
  BY <1>1, <1>6, <1>7 DEF IsSubFile
<1>10. QED
  BY <1>2, <1>6, <1>8, <1>9

(* The bitmask lets a way pass that reaches into the tile, and no other.   *)
LEMMA MaskIs ==
  ASSUME Queried, NEW n \in BlocksOfTile, NEW k \in DOMAIN Entry(n).ways
  PROVE  k \in WaysOfTile(n) <=> Entry(n).ways[k].zoom <= query.zoom /\ ~ IsMasked(Entry(n).ways[k])
<1>1. PICK w, z : w = Entry(n).ways[k] /\ z = SubFile.base
  OBVIOUS
<1>2. w.mask \subseteq 0..15
  <2>1. IsBlock(Entry(n), SubFile)
    BY BlockOfTile
  <2>2. QED
    BY <1>1, <2>1 DEF IsBlock
<1>3. /\ z \in 0..30 /\ (query.useTileBitmask <=> tile.zoom > z)
      /\ (query.useTileBitmask => query.mask = TileBitmask(tile, tile.zoom - z))
      /\ Width \in Nat \ {0} /\ Height \in Nat \ {0} /\ NumberOfBlocks = Width * Height
      /\ Boundary(file, SubFile).left \in Nat /\ Boundary(file, SubFile).top \in Nat
  BY <1>1, QueryOfState
<1>4. n \in 0..(NumberOfBlocks - 1) /\ Meets(tile, TileOfBlock(n)) /\ tile \in Tiles
  BY DEF BlocksOfTile, Queried
<1>5. n % Width \in 0..(Width - 1) /\ n \div Width \in 0..(Height - 1)
  BY <1>3, <1>4, PlaceOfNumber
<1>6. PICK x, y : x = Boundary(file, SubFile).left + (n % Width) /\ y = Boundary(file, SubFile).top + (n \div Width)
  OBVIOUS
<1>7. x \in Nat /\ y \in Nat
  BY <1>3, <1>5, <1>6
<1>8. TileOfBlock(n) = [zoom |-> z, x |-> x, y |-> y]
  BY <1>1, <1>6 DEF TileOfBlock, Width
<1>9. ASSUME NEW bit \in 0..15
      PROVE  Subtile(n, bit) = [zoom |-> z + 2, x |-> 4 * x + ((15 - bit) % 4), y |-> 4 * y + ((15 - bit) \div 4)]
  BY <1>8 DEF Subtile
<1>10. CASE tile.zoom > z
  <2>1. ASSUME NEW bit \in 0..15
        PROVE  bit \in TileBitmask(tile, tile.zoom - z) <=> Meets(tile, Subtile(n, bit))
    <3>1. Meets(tile, [zoom |-> z, x |-> x, y |-> y])
      BY <1>4, <1>8
    <3>2. PICK sub : sub = [zoom |-> z + 2, x |-> 4 * x + ((15 - bit) % 4), y |-> 4 * y + ((15 - bit) \div 4)]
      OBVIOUS
    <3>3. bit \in TileBitmask(tile, tile.zoom - z) <=> Meets(tile, sub)
      BY <1>3, <1>4, <1>7, <1>10, <3>1, <3>2, BitmaskIs
    <3>4. QED
      BY <1>9, <3>2, <3>3
  <2>2. query.useTileBitmask /\ query.mask = TileBitmask(tile, tile.zoom - z)
    BY <1>3, <1>10
  <2>3. (\E bit \in w.mask : Meets(tile, Subtile(n, bit))) <=> query.mask \intersect w.mask # {}
    BY <1>2, <2>1, <2>2
  <2>4. IsMasked(w) <=> query.mask \intersect w.mask = {}
    BY <2>2 DEF IsMasked
  <2>5. k \in WaysOfTile(n) <=> w.zoom <= query.zoom /\ \E bit \in w.mask : Meets(tile, Subtile(n, bit))
    BY <1>1, <1>10 DEF WaysOfTile
  <2>6. QED
    BY <1>1, <2>3, <2>4, <2>5
<1>11. CASE ~ (tile.zoom > z)
  <2>1. ~ IsMasked(w)
    BY <1>3, <1>11 DEF IsMasked
  <2>2. k \in WaysOfTile(n) <=> w.zoom <= query.zoom
    BY <1>1, <1>11 DEF WaysOfTile
  <2>3. QED
    BY <1>1, <2>1, <2>2
<1>12. QED
  BY <1>10, <1>11

(* The elements of a kind that a zoom level has are the first ones.        *)
LEMMA ElementsAreFirst ==
  ASSUME Queried, NEW elements, NEW kind, NEW rows, CountsElements(elements, kind, rows, SubFile)
  PROVE  LET all == Cumulated(rows, kind) IN
         /\ elements \in Seq(Range(elements)) /\ all \in 0..Len(elements)
         /\ {i \in DOMAIN elements : elements[i].zoom <= query.zoom} = 1..all
<1>1. PICK all : all = Cumulated(rows, kind)
  OBVIOUS
<1>2. query.zoom \in SubFile.min..SubFile.max /\ all = CumulatedTo(rows, kind, query.zoom - SubFile.min + 1)
  BY <1>1, QueryOfState DEF Cumulated
<1>3. elements \in Seq(Range(elements)) /\ all \in Nat /\ {i \in DOMAIN elements : elements[i].zoom <= query.zoom} = 1..all
  BY <1>2 DEF CountsElements
<1>4. PICK l \in Nat : l = Len(elements) /\ DOMAIN elements = 1..l
  BY <1>3, LenProperties
<1>5. all <= l
  <2>1. CASE all = 0
    BY <1>4, <2>1
  <2>2. CASE all # 0
    <3>1. all \in 1..all
      BY <1>3, <2>2
    <3>2. all \in 1..l
      BY <1>3, <1>4, <3>1
    <3>3. QED
      BY <3>2
  <2>3. QED
    BY <2>1, <2>2
<1>6. QED
  BY <1>1, <1>3, <1>4, <1>5

(* What the tile shows of a block.                                         *)
LEMMA ElementsOfTile ==
  ASSUME Queried, NEW n \in BlocksOfTile, NEW p, p = Cumulated(Entry(n).rows, "pois"),
         NEW w, w = Cumulated(Entry(n).rows, "ways")
  PROVE  /\ Entry(n).pois \in Seq(Range(Entry(n).pois)) /\ p \in 0..Len(Entry(n).pois) /\ PoisOfTile(n) = 1..p
         /\ Entry(n).ways \in Seq(Range(Entry(n).ways)) /\ w \in 0..Len(Entry(n).ways) /\ WaysOfTile(n) \subseteq 1..w
         /\ \A k \in 1..w : k \in WaysOfTile(n) <=> ~ IsMasked(Entry(n).ways[k])
<1>1. CountsElements(Entry(n).pois, "pois", Entry(n).rows, SubFile) /\ CountsElements(Entry(n).ways, "ways", Entry(n).rows, SubFile)
  BY BlockOfTile DEF IsBlock
<1>2. /\ Entry(n).pois \in Seq(Range(Entry(n).pois)) /\ p \in 0..Len(Entry(n).pois)
      /\ {i \in DOMAIN Entry(n).pois : Entry(n).pois[i].zoom <= query.zoom} = 1..p
  BY <1>1, ElementsAreFirst
<1>3. /\ Entry(n).ways \in Seq(Range(Entry(n).ways)) /\ w \in 0..Len(Entry(n).ways)
      /\ {i \in DOMAIN Entry(n).ways : Entry(n).ways[i].zoom <= query.zoom} = 1..w
  BY <1>1, ElementsAreFirst
<1>4. PoisOfTile(n) = 1..p
  BY <1>2 DEF PoisOfTile
<1>5. \A k \in DOMAIN Entry(n).ways : k \in 1..w <=> Entry(n).ways[k].zoom <= query.zoom
  BY <1>3
<1>6. WaysOfTile(n) \subseteq 1..w
  <2>1. ASSUME NEW k \in WaysOfTile(n) PROVE k \in DOMAIN Entry(n).ways /\ Entry(n).ways[k].zoom <= query.zoom
    BY DEF WaysOfTile
  <2>2. QED
    BY <1>5, <2>1
<1>7. ASSUME NEW k \in 1..w PROVE k \in WaysOfTile(n) <=> ~ IsMasked(Entry(n).ways[k])
  <2>1. k \in DOMAIN Entry(n).ways /\ Entry(n).ways[k].zoom <= query.zoom
    BY <1>3
  <2>2. QED
    BY <2>1, MaskIs
<1>8. QED
  BY <1>2, <1>3, <1>4, <1>6, <1>7

-----------------------------------------------------------------------------
(* The loop over the blocks.                                               *)

(* While the query is the same, so is what depends on it.                  *)
LEMMA SameQuery ==
  ASSUME UNCHANGED <<opened, longMax, tile, query>>
  PROVE  /\ file' = file /\ SubFile' = SubFile /\ Width' = Width /\ NumberOfBlocks' = NumberOfBlocks
         /\ Queried' <=> Queried
         /\ BlocksOfTile' = BlocksOfTile
         /\ \A n : /\ Entry(n)' = Entry(n) /\ PoisOfTile(n)' = PoisOfTile(n) /\ WaysOfTile(n)' = WaysOfTile(n)
                   /\ \A k : PoiOf(n, k)' = PoiOf(n, k) /\ WayOf(n, k)' = WayOf(n, k)
                   /\ IsSound(n)' <=> IsSound(n)
                   /\ IsWater(n)' <=> IsWater(n)
                   /\ IsPointer(Pointer(n))' <=> IsPointer(Pointer(n))
         /\ \A rows, kind : Cumulated(rows, kind)' = Cumulated(rows, kind)
<1>1. file' = file /\ SubFile' = SubFile
  BY DEF file, SubFile
<1>2. Width' = Width /\ NumberOfBlocks' = NumberOfBlocks
  BY <1>1 DEF Width, NumberOfBlocks
<1>3. Queried' <=> Queried
  BY <1>1 DEF Queried
<1>4. \A n : Entry(n)' = Entry(n) /\ TileOfBlock(n)' = TileOfBlock(n)
  BY <1>1 DEF Entry, TileOfBlock
<1>5. BlocksOfTile' = BlocksOfTile
  BY <1>2, <1>4 DEF BlocksOfTile
<1>6. \A n, bit : Subtile(n, bit)' = Subtile(n, bit)
  BY <1>4 DEF Subtile
<1>7. \A n : PoisOfTile(n)' = PoisOfTile(n)
  BY <1>4 DEF PoisOfTile
<1>8. \A n : WaysOfTile(n)' = WaysOfTile(n)
  BY <1>1, <1>4, <1>6 DEF WaysOfTile
<1>9. \A n, k : PoiOf(n, k)' = PoiOf(n, k) /\ WayOf(n, k)' = WayOf(n, k)
  BY <1>4 DEF PoiOf, WayOf
<1>10. \A p : IsPointer(p)' <=> IsPointer(p)
  BY <1>1 DEF IsPointer
<1>11. \A n : IsSound(n)' <=> IsSound(n)
  BY <1>1, <1>2, <1>4, <1>7, <1>8, <1>10 DEF IsSound
<1>12. \A rows, kind : Cumulated(rows, kind)' = Cumulated(rows, kind)
  BY <1>1 DEF Cumulated
<1>13. \A n : GetIndexEntry(n)' = GetIndexEntry(n)
  BY <1>4 DEF GetIndexEntry, AsLong, IndexEntry, WaterBit
<1>14. \A n : Pointer(n)' = Pointer(n) /\ (IsWater(n)' <=> IsWater(n))
  BY <1>13 DEF Pointer, IsWater, WaterBit
<1>15. \A n : IsPointer(Pointer(n))' <=> IsPointer(Pointer(n))
  BY <1>1, <1>14 DEF IsPointer
<1>16. QED
  BY <1>1, <1>2, <1>3, <1>4, <1>5, <1>7, <1>8, <1>9, <1>11, <1>12, <1>14, <1>15

(* A block of the query by its place.                                      *)
LEMMA PlaceIs ==
  ASSUME Queried, NEW n \in BlocksOfTile
  PROVE  /\ n % Width \in Int /\ n \div Width \in Int /\ n = (n \div Width) * Width + (n % Width)
         /\ query.fromX <= n % Width /\ n % Width <= query.toX
         /\ query.fromY <= n \div Width /\ n \div Width <= query.toY
<1>1. /\ Width \in Nat \ {0} /\ query.fromX \in Nat /\ query.fromY \in Nat /\ query.toX \in Int /\ query.toY \in Int
  BY QueryOfState
<1>2. n \in Nat /\ n % Width \in query.fromX..query.toX /\ n \div Width \in query.fromY..query.toY
  BY BlocksOfTileAre, BlockOfTile
<1>3. PICK m \in Nat \ {0} : m = Width
  BY <1>1
<1>4. n = m * (n \div m) + (n % m) /\ n \div m \in Int /\ n % m \in Int
  BY <1>2, DivIs
<1>5. m * (n \div m) = (n \div m) * m
  BY <1>4
<1>6. QED
  BY <1>1, <1>2, <1>3, <1>4, <1>5

(* The block that the loop is at.                                          *)
LEMMA CurrentBlock ==
  ASSUME Queried, Loop, AtBlock
  PROVE  /\ Number \in BlocksOfTile /\ ~ Passed(Number)
         /\ Number \div Width = block.row /\ Number % Width = block.column
<1>1. /\ Width \in Nat \ {0} /\ Height \in Nat \ {0} /\ NumberOfBlocks = Width * Height
      /\ query.fromX \in Nat /\ query.fromY \in Nat /\ query.toX \in Int /\ query.toY \in Int
      /\ query.toX < Width /\ query.toY < Height
  BY QueryOfState
<1>2. PICK r, c, W, H : r = block.row /\ c = block.column /\ W = Width /\ H = Height
  OBVIOUS
<1>3. /\ r \in Int /\ c \in Int /\ query.fromY <= r /\ query.fromX <= c /\ r <= query.toY /\ c <= query.toX
  BY <1>2 DEF Loop, AtBlock
<1>4. r \in 0..(H - 1) /\ c \in 0..(W - 1) /\ W \in Nat \ {0} /\ H \in Nat \ {0}
  BY <1>1, <1>2, <1>3
<1>5. Number = r * W + c
  BY <1>2 DEF Number, Width
<1>6. Number \in 0..(W * H - 1) /\ Number \div W = r /\ Number % W = c
  BY <1>4, <1>5, NumberOfPlace
<1>7. Number \in BlocksOfTile
  BY <1>1, <1>2, <1>3, <1>6, BlocksOfTileAre
<1>8. ~ Passed(Number)
  BY <1>2, <1>3, <1>6 DEF Passed
<1>9. QED
  BY <1>2, <1>6, <1>7, <1>8

(* When it goes on, it has passed this block as well.                      *)
LEMMA NextBlockIs ==
  ASSUME Queried, Loop, AtBlock, NextBlock, UNCHANGED <<opened, longMax, tile, query>>
  PROVE  /\ Loop' /\ phase' = "blocks"
         /\ \A n \in BlocksOfTile : Passed(n)' <=> Passed(n) \/ n = Number
<1>1. PICK r, c, a, b : r = block.row /\ c = block.column /\ a = query.fromX /\ b = query.toX
  OBVIOUS
<1>2. /\ r \in Int /\ c \in Int /\ a \in Int /\ b \in Int /\ r >= query.fromY /\ query.fromY \in Int /\ c >= a /\ c <= b
      /\ block = [row |-> r, column |-> c]
  BY <1>1, QueryOfState DEF Loop, AtBlock
<1>3. block' = IF c < b THEN [row |-> r, column |-> c + 1] ELSE [row |-> r + 1, column |-> a]
  BY <1>1, <1>2 DEF NextBlock
<1>4. Loop'
  <2>1. CASE c < b
    BY <1>1, <1>2, <1>3, <2>1 DEF Loop
  <2>2. CASE ~ (c < b)
    BY <1>1, <1>2, <1>3, <2>2 DEF Loop
  <2>3. QED
    BY <2>1, <2>2
<1>5. ASSUME NEW n \in BlocksOfTile PROVE Passed(n)' <=> Passed(n) \/ n = Number
  <2>1. PICK i, j : i = n % Width /\ j = n \div Width
    OBVIOUS
  <2>2. i \in Int /\ j \in Int /\ n = j * Width + i /\ a <= i /\ i <= b
    BY <1>1, <2>1, PlaceIs
  <2>3. Width' = Width
    BY SameQuery
  <2>4. Passed(n) <=> j < r \/ (j = r /\ i < c)
    BY <1>1, <2>1 DEF Passed
  <2>5. Passed(n)' <=> j < block'.row \/ (j = block'.row /\ i < block'.column)
    BY <2>1, <2>3 DEF Passed
  <2>6. n = Number <=> i = c /\ j = r
    <3>1. Number \div Width = r /\ Number % Width = c
      BY <1>1, CurrentBlock
    <3>2. Number = r * Width + c
      BY <1>1 DEF Number, Width
    <3>3. QED
      BY <2>1, <2>2, <3>1, <3>2
  <2>7. CASE c < b
    <3>1. block'.row = r /\ block'.column = c + 1
      BY <1>3, <2>7
    <3>2. QED
      BY <1>2, <2>2, <2>4, <2>5, <2>6, <3>1
  <2>8. CASE ~ (c < b)
    <3>1. block'.row = r + 1 /\ block'.column = a
      BY <1>3, <2>8
    <3>2. Passed(n)' <=> j < r + 1
      BY <1>2, <2>2, <2>5, <3>1
    <3>3. Passed(n) \/ n = Number <=> j < r \/ j = r
      BY <1>2, <2>2, <2>4, <2>6, <2>8
    <3>4. QED
      BY <1>2, <2>2, <3>2, <3>3
  <2>9. QED
    BY <2>7, <2>8
<1>6. QED
  BY <1>4, <1>5 DEF NextBlock

(* Where it stops, it has passed all of them ...                           *)
LEMMA LoopEnds ==
  ASSUME Queried, Loop, ~ AtBlock, NEW n \in BlocksOfTile
  PROVE  Passed(n)
<1>1. PICK i, j : i = n % Width /\ j = n \div Width
  OBVIOUS
<1>2. /\ i \in Int /\ j \in Int /\ query.fromX <= i /\ i <= query.toX /\ query.fromY <= j /\ j <= query.toY
  BY <1>1, PlaceIs
<1>3. /\ query.fromX \in Nat /\ query.fromY \in Nat /\ query.toX \in Int /\ query.toY \in Int
  BY QueryOfState
<1>4. block.row \in Int /\ block.column \in Int /\ (block.column = query.fromX \/ block.column <= query.toX)
  BY DEF Loop
<1>5. block.row > query.toY
  BY <1>2, <1>3, <1>4 DEF AtBlock
<1>6. QED
  BY <1>1, <1>2, <1>3, <1>4, <1>5 DEF Passed

\* The loop is at its beginning, and has passed no block.
AtFirst == block = [row |-> query.fromY, column |-> query.fromX]
NonePassed == \A n \in BlocksOfTile : ~ Passed(n)

(* Where it begins, it has passed none of them.                            *)
LEMMA LoopBegins == Queried /\ AtFirst => Loop /\ NonePassed
<1>1. SUFFICES ASSUME Queried, AtFirst PROVE Loop /\ NonePassed
  OBVIOUS
<1>2. query.fromX \in Nat /\ query.fromY \in Nat
  BY <1>1, QueryOfState
<1>3. Loop
  BY <1>1, <1>2 DEF Loop, AtFirst
<1>4. ASSUME NEW n \in BlocksOfTile PROVE ~ Passed(n)
  <2>1. PICK i, j : i = n % Width /\ j = n \div Width
    OBVIOUS
  <2>2. i \in Int /\ j \in Int /\ query.fromX <= i /\ query.fromY <= j
    BY <1>1, <2>1, PlaceIs
  <2>3. QED
    BY <1>1, <1>2, <2>1, <2>2 DEF Passed, AtFirst
<1>5. QED
  BY <1>3, <1>4 DEF NonePassed

-----------------------------------------------------------------------------
(* What is reported.                                                       *)

(* So many elements are taken from the front of a sequence.                *)
LEMMA LenOfFirst ==
  ASSUME NEW e, e \in Seq(Range(e)), NEW all \in 0..Len(e)
  PROVE  Len(SubSeq(e, 1, all)) = all
<1>1. PICK l \in Nat : l = Len(e)
  BY LenProperties
<1>2. all \in 0..l
  BY <1>1
<1>3. ASSUME NEW i \in 1..all PROVE e[i] \in Range(e)
  <2>1. i \in 1..Len(e)
    BY <1>1, <1>2
  <2>2. QED
    BY <2>1, ElementOfSeq
<1>4. Len(SubSeq(e, 1, all)) = IF 1 <= all THEN all - 1 + 1 ELSE 0
  <2>1. 1 \in Int /\ all \in Int
    BY <1>2
  <2>2. QED
    BY <1>3, <2>1, SubSeqProperties
<1>5. QED
  BY <1>2, <1>4

\* What is left of the first elements of a sequence.
IsRest(p, e, all) == Len(p) \in 0..all /\ p = SubSeq(e, all - Len(p) + 1, all)

(* Taking the first of the rest of a sequence.                             *)
LEMMA RestIs ==
  ASSUME NEW e, e \in Seq(Range(e)), NEW all \in 0..Len(e), NEW p, IsRest(p, e, all), p # <<>>
  PROVE  /\ all - Len(p) + 1 \in 1..all /\ all - Len(p) + 1 \in DOMAIN e
         /\ Head(p) = e[all - Len(p) + 1]
         /\ IsRest(Tail(p), e, all) /\ all - Len(Tail(p)) = all - Len(p) + 1
<1>1. PICK l, n : l = Len(e) /\ n = Len(p)
  OBVIOUS
<1>2. l \in Nat /\ DOMAIN e = 1..l /\ all \in 0..l /\ n \in 0..all
  BY <1>1, LenProperties DEF IsRest
<1>3. n # 0
  <2>1. SUFFICES ASSUME n = 0 PROVE FALSE
    OBVIOUS
  <2>2. p = SubSeq(e, all + 1, all)
    BY <1>1, <1>2, <2>1 DEF IsRest
  <2>3. all + 1 \in Int /\ all \in Int /\ all < all + 1
    BY <1>2
  <2>4. QED
    BY <2>2, <2>3, SubSeqEmpty
<1>4. PICK m : m = all - n + 1
  OBVIOUS
<1>5. m \in 1..l /\ all \in m..l /\ m \in 1..all
  BY <1>2, <1>3, <1>4
<1>6. p = SubSeq(e, m, all)
  BY <1>1, <1>4 DEF IsRest
<1>7. Head(p) = e[m] /\ Tail(p) = SubSeq(e, m + 1, all)
  BY <1>1, <1>5, <1>6, HeadTailOfSubSeq
<1>8. Len(Tail(p)) = n - 1
  <2>1. \A i \in (m + 1)..all : e[i] \in Range(e)
    <3>1. ASSUME NEW i \in (m + 1)..all PROVE e[i] \in Range(e)
      <4>1. i \in 1..Len(e)
        BY <1>1, <1>2, <1>5
      <4>2. QED
        BY <4>1, ElementOfSeq
    <3>2. QED
      BY <3>1
  <2>2. m + 1 \in Int /\ all \in Int
    BY <1>2, <1>5
  <2>3. Len(SubSeq(e, m + 1, all)) = IF m + 1 <= all THEN all - (m + 1) + 1 ELSE 0
    BY <2>1, <2>2, SubSeqProperties
  <2>4. QED
    BY <1>2, <1>3, <1>4, <1>7, <2>3
<1>9. all - Len(Tail(p)) + 1 = m + 1
  BY <1>2, <1>4, <1>8
<1>10. Tail(p) = SubSeq(e, all - Len(Tail(p)) + 1, all)
  BY <1>7, <1>9
<1>11. n - 1 \in 0..all /\ all - (n - 1) = all - n + 1 /\ m \in DOMAIN e
  BY <1>2, <1>3, <1>5
<1>12. QED
  BY <1>1, <1>4, <1>5, <1>7, <1>8, <1>10, <1>11 DEF IsRest

\* A sequence without duplicates, and one that has an element more.
Distinct(s) == s \in Seq(Range(s)) /\ IsInjective(s)
IsOneMore(t, s, e) ==
  /\ Distinct(t) /\ ToSet(s) \subseteq ToSet(t) /\ e \in ToSet(t)
  /\ \A i \in DOMAIN t : (i \in DOMAIN s /\ t[i] = s[i]) \/ t[i] = e

(* Appending what is not there yet.                                        *)
LEMMA OneMore ==
  ASSUME NEW s, Distinct(s), NEW e, \A i \in DOMAIN s : s[i] # e
  PROVE  IsOneMore(Append(s, e), s, e)
<1>0. PICK t : t = Append(s, e)
  OBVIOUS
<1>1. PICK S : S = Range(s) \union {e}
  OBVIOUS
<1>2. s \in Seq(S) /\ e \in S
  <2>1. Range(s) \subseteq S
    BY <1>1
  <2>2. QED
    BY <1>1, <2>1, SeqMonotonic DEF Distinct
<1>3. PICK l : l = Len(s)
  OBVIOUS
<1>4. l \in Nat /\ DOMAIN s = 1..l
  BY <1>2, <1>3, LenProperties
<1>5. t \in Seq(S) /\ Len(t) = l + 1 /\ (\A i \in 1..l : t[i] = s[i]) /\ t[l + 1] = e
  BY <1>0, <1>2, <1>3, AppendProperties
<1>6. DOMAIN t = 1..(l + 1) /\ t \in Seq(Range(t))
  BY <1>5, LenProperties, SeqOfRange
<1>7. ASSUME NEW i \in DOMAIN t PROVE (i \in DOMAIN s /\ t[i] = s[i]) \/ (i = l + 1 /\ t[i] = e)
  BY <1>4, <1>5, <1>6
<1>8. IsInjective(t)
  <2>1. ASSUME NEW i \in DOMAIN t, NEW j \in DOMAIN t, t[i] = t[j] PROVE i = j
    <3>1. CASE i \in DOMAIN s /\ t[i] = s[i] /\ j \in DOMAIN s /\ t[j] = s[j]
      BY <2>1, <3>1 DEF Distinct, IsInjective
    <3>2. QED
      BY <1>7, <2>1, <3>1
  <2>2. QED
    BY <2>1 DEF IsInjective
<1>9. ToSet(s) \subseteq ToSet(t)
  <2>1. ASSUME NEW i \in DOMAIN s PROVE i \in DOMAIN t /\ s[i] = t[i]
    BY <1>4, <1>5, <1>6
  <2>2. QED
    BY <2>1 DEF ToSet
<1>10. e \in ToSet(t)
  <2>1. l + 1 \in DOMAIN t
    BY <1>4, <1>6
  <2>2. QED
    BY <1>5, <2>1 DEF ToSet
<1>11. QED
  BY <1>0, <1>6, <1>7, <1>8, <1>9, <1>10 DEF IsOneMore, Distinct

(* The ways of a block are numbered ...                                    *)
LEMMA WayNumber ==
  ASSUME Queried, NEW n \in BlocksOfTile, NEW k \in WaysOfTile(n)
  PROVE  k \in Nat
<1>1. PICK w : w = Cumulated(Entry(n).rows, "ways")
  OBVIOUS
<1>2. WaysOfTile(n) \subseteq 1..w /\ w \in 0..Len(Entry(n).ways)
  BY <1>1, ElementsOfTile
<1>3. QED
  BY <1>2

(* ... and the points of interest.                                         *)
LEMMA PoiNumber ==
  ASSUME Queried, NEW n \in BlocksOfTile, NEW k \in PoisOfTile(n)
  PROVE  k \in Nat
<1>1. PICK p : p = Cumulated(Entry(n).rows, "pois")
  OBVIOUS
<1>2. PoisOfTile(n) = 1..p
  BY <1>1, ElementsOfTile
<1>3. QED
  BY <1>2

(* A point of interest that is read is reported.                           *)
LEMMA AddPoi ==
  ASSUME Queried, Number \in BlocksOfTile, ~ Passed(Number), NEW reported, NEW r \in Nat,
         OnlyPois(reported, r), r + 1 \in PoisOfTile(Number)
  PROVE  /\ OnlyPois(Append(reported, PoiOf(Number, r + 1)), r + 1)
         /\ IsOneMore(Append(reported, PoiOf(Number, r + 1)), reported, PoiOf(Number, r + 1))
<1>1. PICK e, N, more : e = PoiOf(Number, r + 1) /\ N = Number /\ more = Append(reported, e)
  OBVIOUS
<1>2. ASSUME NEW n, NEW k \in PoisOfTile(n) PROVE k \in DOMAIN Entry(n).pois
  BY DEF PoisOfTile
<1>3. ASSUME NEW i \in DOMAIN reported PROVE reported[i] # e
  <2>1. SUFFICES ASSUME reported[i] = e PROVE FALSE
    OBVIOUS
  <2>2. PICK n \in BlocksOfTile : \E k \in PoisOfTile(n) :
          reported[i] = PoiOf(n, k) /\ (Passed(n) \/ (n = Number /\ k <= r))
    BY DEF OnlyPois
  <2>3. PICK k \in PoisOfTile(n) :
          reported[i] = PoiOf(n, k) /\ (Passed(n) \/ (n = Number /\ k <= r))
    BY <2>2
  <2>4. PoiOf(n, k).block = n /\ e.block = N
    BY <1>1 DEF PoiOf
  <2>5. n = N
    BY <2>1, <2>3, <2>4
  <2>6. k <= r /\ k \in DOMAIN Entry(N).pois /\ r + 1 \in DOMAIN Entry(N).pois
    BY <1>1, <1>2, <2>3, <2>5
  <2>7. PoiOf(n, k).id = Entry(N).pois[k].id /\ e.id = Entry(N).pois[r + 1].id
    BY <1>1, <2>5 DEF PoiOf
  <2>8. Entry(N).pois[k].id = Entry(N).pois[r + 1].id
    BY <2>1, <2>3, <2>7
  <2>9. IsBlock(Entry(N), SubFile)
    BY <1>1, BlockOfTile
  <2>10. k = r + 1
    BY <2>6, <2>8, <2>9 DEF IsBlock
  <2>11. QED
    BY <2>6, <2>10
<1>4. Distinct(reported)
  BY DEF OnlyPois, Distinct
<1>5. IsOneMore(more, reported, e)
  BY <1>1, <1>3, <1>4, OneMore
<1>6. ASSUME NEW i \in DOMAIN more
      PROVE  \E n \in BlocksOfTile : \E k \in PoisOfTile(n) :
               more[i] = PoiOf(n, k) /\ (Passed(n) \/ (n = Number /\ k <= r + 1))
  <2>1. CASE i \in DOMAIN reported /\ more[i] = reported[i]
    <3>1. PICK n \in BlocksOfTile : \E k \in PoisOfTile(n) :
            reported[i] = PoiOf(n, k) /\ (Passed(n) \/ (n = Number /\ k <= r))
      BY <2>1 DEF OnlyPois
    <3>2. PICK k \in PoisOfTile(n) :
            reported[i] = PoiOf(n, k) /\ (Passed(n) \/ (n = Number /\ k <= r))
      BY <3>1
    <3>3. n = Number /\ k <= r => k <= r + 1
      <4>1. ASSUME n = Number PROVE k \in Nat
        BY <4>1, PoiNumber
      <4>2. QED
        BY <4>1
    <3>4. QED
      BY <2>1, <3>2, <3>3
  <2>2. CASE more[i] = e
    <3>1. r + 1 <= r + 1
      OBVIOUS
    <3>2. QED
      BY <1>1, <2>2, <3>1
  <2>3. QED
    BY <1>5, <2>1, <2>2 DEF IsOneMore
<1>7. QED
  BY <1>1, <1>5, <1>6 DEF OnlyPois, IsOneMore, Distinct

(* Likewise a way that is read and reaches into the tile.                  *)
LEMMA AddWay ==
  ASSUME Queried, Number \in BlocksOfTile, ~ Passed(Number), NEW reported, NEW r \in Nat,
         OnlyWays(reported, r), r + 1 \in WaysOfTile(Number)
  PROVE  /\ OnlyWays(Append(reported, WayOf(Number, r + 1)), r + 1)
         /\ IsOneMore(Append(reported, WayOf(Number, r + 1)), reported, WayOf(Number, r + 1))
<1>1. PICK e, N, more : e = WayOf(Number, r + 1) /\ N = Number /\ more = Append(reported, e)
  OBVIOUS
<1>2. ASSUME NEW n, NEW k \in WaysOfTile(n) PROVE k \in DOMAIN Entry(n).ways
  BY DEF WaysOfTile
<1>3. ASSUME NEW i \in DOMAIN reported PROVE reported[i] # e
  <2>1. SUFFICES ASSUME reported[i] = e PROVE FALSE
    OBVIOUS
  <2>2. PICK n \in BlocksOfTile : \E k \in WaysOfTile(n) :
          reported[i] = WayOf(n, k) /\ (Passed(n) \/ (n = Number /\ k <= r))
    BY DEF OnlyWays
  <2>3. PICK k \in WaysOfTile(n) :
          reported[i] = WayOf(n, k) /\ (Passed(n) \/ (n = Number /\ k <= r))
    BY <2>2
  <2>4. k \in DOMAIN Entry(n).ways /\ r + 1 \in DOMAIN Entry(N).ways
    BY <1>1, <1>2
  <2>5. Entry(n).ways[k].id = Entry(N).ways[r + 1].id
    BY <1>1, <2>1, <2>3 DEF WayOf
  <2>6. n \in Nat /\ N \in Nat /\ n + 1 \in DOMAIN SubFile.blocks /\ N + 1 \in DOMAIN SubFile.blocks
    BY <1>1, BlockOfTile
  <2>7. Entry(n) = SubFile.blocks[n + 1] /\ Entry(N) = SubFile.blocks[N + 1]
    BY DEF Entry
  <2>8. IsSubFile(file, SubFile)
    BY QueryOfState
  <2>9. n + 1 = N + 1 /\ k = r + 1
    BY <2>4, <2>5, <2>6, <2>7, <2>8 DEF IsSubFile
  <2>10. n = Number
    BY <1>1, <2>6, <2>9
  <2>11. QED
    BY <2>3, <2>9, <2>10
<1>4. Distinct(reported)
  BY DEF OnlyWays, Distinct
<1>5. IsOneMore(more, reported, e)
  BY <1>1, <1>3, <1>4, OneMore
<1>6. ASSUME NEW i \in DOMAIN more
      PROVE  \E n \in BlocksOfTile : \E k \in WaysOfTile(n) :
               more[i] = WayOf(n, k) /\ (Passed(n) \/ (n = Number /\ k <= r + 1))
  <2>1. CASE i \in DOMAIN reported /\ more[i] = reported[i]
    <3>1. PICK n \in BlocksOfTile : \E k \in WaysOfTile(n) :
            reported[i] = WayOf(n, k) /\ (Passed(n) \/ (n = Number /\ k <= r))
      BY <2>1 DEF OnlyWays
    <3>2. PICK k \in WaysOfTile(n) :
            reported[i] = WayOf(n, k) /\ (Passed(n) \/ (n = Number /\ k <= r))
      BY <3>1
    <3>3. n = Number /\ k <= r => k <= r + 1
      <4>1. ASSUME n = Number PROVE k \in Nat
        BY <4>1, WayNumber
      <4>2. QED
        BY <4>1
    <3>4. QED
      BY <2>1, <3>2, <3>3
  <2>2. CASE more[i] = e
    <3>1. r + 1 <= r + 1
      OBVIOUS
    <3>2. QED
      BY <1>1, <2>2, <3>1
  <2>3. QED
    BY <1>5, <2>1, <2>2 DEF IsOneMore
<1>7. QED
  BY <1>1, <1>5, <1>6 DEF OnlyWays, IsOneMore, Distinct

(* A way that does not reach into the tile is passed over.                 *)
LEMMA PassOverWay ==
  ASSUME Queried, Number \in BlocksOfTile, NEW reported, NEW r \in Nat, OnlyWays(reported, r)
  PROVE  OnlyWays(reported, r + 1)
<1>1. ASSUME NEW i \in DOMAIN reported
      PROVE  \E n \in BlocksOfTile : \E k \in WaysOfTile(n) :
               reported[i] = WayOf(n, k) /\ (Passed(n) \/ (n = Number /\ k <= r + 1))
  <2>1. PICK n \in BlocksOfTile : \E k \in WaysOfTile(n) :
          reported[i] = WayOf(n, k) /\ (Passed(n) \/ (n = Number /\ k <= r))
    BY DEF OnlyWays
  <2>2. PICK k \in WaysOfTile(n) :
          reported[i] = WayOf(n, k) /\ (Passed(n) \/ (n = Number /\ k <= r))
    BY <2>1
  <2>3. n = Number /\ k <= r => k <= r + 1
    <3>1. ASSUME n = Number PROVE k \in Nat
      BY <3>1, WayNumber
    <3>2. QED
      BY <3>1
  <2>4. QED
    BY <2>2, <2>3
<1>2. QED
  BY <1>1 DEF OnlyWays

-----------------------------------------------------------------------------
(* The ways in which a step leaves the block it is at.                     *)

(* The reports and the blocks of a step of the same query.                 *)
LEMMA SameBlocks ==
  ASSUME UNCHANGED <<opened, longMax, tile, query>>
  PROVE  /\ \A n : /\ PoisReported(n, nodes)' <=> PoisReported(n, nodes')
                   /\ WaysReported(n, found)' <=> WaysReported(n, found')
         /\ Queried' <=> Queried
         /\ \A n : IsSound(n)' <=> IsSound(n)
         /\ (\E n \in BlocksOfTile : ~ IsSound(n))' <=> (\E n \in BlocksOfTile : ~ IsSound(n))
<1>1. /\ \A n : PoisOfTile(n)' = PoisOfTile(n) /\ WaysOfTile(n)' = WaysOfTile(n)
      /\ \A n, k : PoiOf(n, k)' = PoiOf(n, k) /\ WayOf(n, k)' = WayOf(n, k)
      /\ Queried' <=> Queried
      /\ BlocksOfTile' = BlocksOfTile /\ \A n : IsSound(n)' <=> IsSound(n)
  BY SameQuery
<1>2. ASSUME NEW n PROVE PoisReported(n, nodes)' <=> PoisReported(n, nodes')
  BY <1>1 DEF PoisReported
<1>3. ASSUME NEW n PROVE WaysReported(n, found)' <=> WaysReported(n, found')
  BY <1>1 DEF WaysReported
<1>4. QED
  BY <1>1, <1>2, <1>3

(* Reports of blocks passed or begun are of what the tile shows.           *)
LEMMA WhatIsReported ==
  ASSUME UNCHANGED <<opened, longMax, tile, query>>, NEW p, NEW w, OnlyPois(nodes', p), OnlyWays(found', w)
  PROVE  OnlyWhatTheTileShows'
<1>1. BlocksOfTile' = BlocksOfTile /\ \A n : PoisOfTile(n)' = PoisOfTile(n) /\ WaysOfTile(n)' = WaysOfTile(n) /\ Entry(n)' = Entry(n)
  BY SameQuery
<1>2. IsInjective(nodes') /\ IsInjective(found')
  BY DEF OnlyPois, OnlyWays
<1>3. \A i \in DOMAIN nodes' : \E n \in BlocksOfTile : \E k \in PoisOfTile(n) :
        nodes'[i] = [id |-> Entry(n).pois[k].id, block |-> n]
  BY DEF OnlyPois, PoiOf
<1>4. \A i \in DOMAIN found' : \E n \in BlocksOfTile : \E k \in WaysOfTile(n) : found'[i] = Entry(n).ways[k].id
  BY DEF OnlyWays, WayOf
<1>5. QED
  BY <1>1, <1>2, <1>3, <1>4 DEF OnlyWhatTheTileShows

(* What is known of water once the loop has come to a block.               *)
KnowsWater ==
  /\ water'.is <=> \A n \in BlocksOfTile : Passed(n) \/ n = Number => IsWater(n)
  /\ water'.read
  /\ \A n \in BlocksOfTile : Passed(n) \/ n = Number => IsPointer(Pointer(n))

(* It is known from the block's entry in the index ...                     *)
LEMMA WaterOfEntry ==
  ASSUME IInv, phase = "blocks", Number \in BlocksOfTile, ReadWaterInfo, IsPointer(Pointer(Number))
  PROVE  KnowsWater
<1>1. \A n : Visited(n) <=> Passed(n)
  BY DEF Visited, InBlock
<1>2. WaterSoFar
  BY DEF IInv, InQuery
<1>6. \A n \in BlocksOfTile : Passed(n) \/ n = Number => IsPointer(Pointer(n))
  BY <1>1, <1>2 DEF WaterSoFar
<1>3. CASE water.is
  <2>1. water'.read /\ water'.is = IsWater(Number)
    BY <1>3 DEF ReadWaterInfo
  <2>2. \A n \in BlocksOfTile : Passed(n) => IsWater(n)
    BY <1>1, <1>2, <1>3 DEF WaterSoFar
  <2>3. water'.is <=> IsWater(Number)
    BY <2>1
  <2>4. QED
    BY <1>6, <2>1, <2>2, <2>3 DEF KnowsWater
<1>4. CASE ~ water.is
  <2>1. water' = water
    BY <1>4 DEF ReadWaterInfo
  <2>2. PICK n \in BlocksOfTile : Passed(n) /\ ~ IsWater(n)
    BY <1>1, <1>2, <1>4 DEF WaterSoFar
  <2>3. water.read
    BY <1>1, <1>2, <2>2 DEF WaterSoFar
  <2>4. QED
    BY <1>4, <1>6, <2>1, <2>2, <2>3 DEF KnowsWater
<1>5. QED
  BY <1>3, <1>4

(* ... and stays known in it.                                              *)
LEMMA WaterOfBlock ==
  ASSUME IInv, InBlock, Number \in BlocksOfTile, UNCHANGED water
  PROVE  KnowsWater
<1>1. \A n : Visited(n) <=> Passed(n) \/ n = Number
  BY DEF Visited
<1>2. WaterSoFar
  BY DEF IInv, InQuery, InBlock
<1>3. QED
  BY <1>1, <1>2 DEF WaterSoFar, KnowsWater

(* The loop is at a block of the tile.                                     *)
LEMMA AtABlock ==
  ASSUME IInv, InQuery, AtBlock
  PROVE  /\ Queried /\ Loop /\ Number \in BlocksOfTile /\ ~ Passed(Number) /\ ~ background
         /\ PassedReported /\ OnlyPois(nodes, PoisRead) /\ OnlyWays(found, WaysRead)
<1>1. Queried /\ Loop /\ ~ background
  BY DEF IInv, IsQueried, InQuery, WaterSoFar
<1>2. Number \in BlocksOfTile /\ ~ Passed(Number)
  BY <1>1, CurrentBlock
<1>3. PassedReported /\ OnlyPois(nodes, PoisRead) /\ OnlyWays(found, WaysRead)
  BY DEF IInv
<1>4. QED
  BY <1>1, <1>2, <1>3

(* The loop leaves a block: if it is sound, the block is reported.         *)
LEMMA BlockEnds ==
  ASSUME IInv, InQuery, AtBlock, NextBlock, UNCHANGED <<opened, longMax, tile, query, background>>,
         NEW p, NEW w, OnlyPois(nodes', p), OnlyWays(found', w), KnowsWater,
         ToSet(nodes) \subseteq ToSet(nodes'), ToSet(found) \subseteq ToSet(found'),
         IsSound(Number) => PoisReported(Number, nodes') /\ WaysReported(Number, found')
  PROVE  IInv'
<1>1. /\ Queried /\ Loop /\ Number \in BlocksOfTile /\ ~ background /\ PassedReported
  BY AtABlock
<1>2. /\ Loop' /\ phase' = "blocks" /\ \A n \in BlocksOfTile : Passed(n)' <=> Passed(n) \/ n = Number
  BY <1>1, NextBlockIs
<1>3. /\ BlocksOfTile' = BlocksOfTile /\ Queried'
      /\ \A n : /\ Entry(n)' = Entry(n) /\ PoisOfTile(n)' = PoisOfTile(n) /\ WaysOfTile(n)' = WaysOfTile(n)
                /\ \A k : PoiOf(n, k)' = PoiOf(n, k) /\ WayOf(n, k)' = WayOf(n, k)
                /\ IsSound(n)' <=> IsSound(n)
  BY <1>1, SameQuery
<1>4. PassedReported'
  <2>1. ASSUME NEW n \in BlocksOfTile, Passed(n)', IsSound(n)
        PROVE  PoisReported(n, nodes') /\ WaysReported(n, found')
    <3>1. CASE n = Number
      BY <2>1, <3>1
    <3>2. CASE Passed(n)
      <4>1. PoisReported(n, nodes) /\ WaysReported(n, found)
        BY <1>1, <2>1, <3>2 DEF PassedReported
      <4>2. QED
        BY <4>1 DEF PoisReported, WaysReported
    <3>3. QED
      BY <1>2, <2>1, <3>1, <3>2
  <2>2. QED
    BY <1>3, <2>1, SameBlocks DEF PassedReported
<1>5. WaterSoFar'
  <2>1. \A n : Visited(n)' <=> Passed(n)'
    BY <1>2 DEF Visited, InBlock
  <2>2. water'.is <=> \A n \in BlocksOfTile : Passed(n)' => IsWater(n)
    BY <1>2 DEF KnowsWater
  <2>3. \E n \in BlocksOfTile : Passed(n)'
    BY <1>1, <1>2
  <2>4. \A n \in BlocksOfTile : Passed(n)' => IsPointer(Pointer(n))
    BY <1>2 DEF KnowsWater
  <2>5. QED
    BY <1>1, <1>3, <2>1, <2>2, <2>3, <2>4, SameQuery DEF WaterSoFar, KnowsWater
<1>6. OnlyPois(nodes, PoisRead)'
  <2>1. ASSUME NEW i \in DOMAIN nodes'
        PROVE  \E n \in BlocksOfTile : \E k \in PoisOfTile(n) : nodes'[i] = PoiOf(n, k) /\ Passed(n)'
    BY <1>2 DEF OnlyPois
  <2>2. nodes' \in Seq(Range(nodes')) /\ IsInjective(nodes')
    BY DEF OnlyPois
  <2>3. QED
    BY <1>3, <2>1, <2>2 DEF OnlyPois
<1>7. OnlyWays(found, WaysRead)'
  <2>1. ASSUME NEW i \in DOMAIN found'
        PROVE  \E n \in BlocksOfTile : \E k \in WaysOfTile(n) : found'[i] = WayOf(n, k) /\ Passed(n)'
    BY <1>2 DEF OnlyWays
  <2>2. found' \in Seq(Range(found')) /\ IsInjective(found')
    BY DEF OnlyWays
  <2>3. QED
    BY <1>3, <2>1, <2>2 DEF OnlyWays
<1>8. OnlyWhatTheTileShows'
  BY WhatIsReported
<1>9. SoundBlocksAreReported' /\ BackgroundIsWater'
  BY <1>1, <1>2 DEF SoundBlocksAreReported, BackgroundIsWater
<1>10. phase' \in Phases /\ opened' \in DOMAIN Files /\ longMax' \in LongMaxima /\ ~ InBlock'
  BY <1>1, <1>2 DEF Phases, InBlock, Queried
<1>11. QED
  BY <1>2, <1>3, <1>4, <1>5, <1>6, <1>7, <1>8, <1>9, <1>10 DEF IInv

(* The query ends at a block, which is not sound.                          *)
LEMMA QueryEnds ==
  ASSUME IInv, InQuery, AtBlock, EndQuery, UNCHANGED <<opened, longMax, tile, query, background>>,
         NEW p, NEW w, OnlyPois(nodes', p), OnlyWays(found', w), ~ IsSound(Number)
  PROVE  IInv'
<1>1. /\ Queried /\ Number \in BlocksOfTile /\ ~ background
  BY AtABlock
<1>2. phase' = "ended"
  BY DEF EndQuery
<1>3. Queried' /\ (\E n \in BlocksOfTile : ~ IsSound(n))'
  BY <1>1, SameBlocks
<1>4. OnlyWhatTheTileShows'
  BY WhatIsReported
<1>5. SoundBlocksAreReported' /\ BackgroundIsWater'
  BY <1>1, <1>2, <1>3 DEF SoundBlocksAreReported, BackgroundIsWater
<1>6. phase' \in Phases /\ opened' \in DOMAIN Files /\ longMax' \in LongMaxima /\ ~ InBlock' /\ ~ InQuery'
  BY <1>1, <1>2 DEF Phases, InBlock, InQuery, Queried
<1>7. QED
  BY <1>3, <1>4, <1>5, <1>6 DEF IInv

(* The query stays at its block and reads on in it.                        *)
LEMMA BlockGoesOn ==
  ASSUME IInv, InQuery, AtBlock, InBlock', UNCHANGED <<opened, longMax, tile, query, block, background>>,
         OnlyPois(nodes', PoisRead'), OnlyWays(found', WaysRead'), KnowsWater,
         ToSet(nodes) \subseteq ToSet(nodes'), ToSet(found) \subseteq ToSet(found'),
         Rest', ReadReported'
  PROVE  IInv'
<1>1. /\ Queried /\ Loop /\ Number \in BlocksOfTile /\ ~ background /\ PassedReported
  BY AtABlock
<1>2. /\ BlocksOfTile' = BlocksOfTile /\ Queried' /\ Width' = Width
      /\ \A n : /\ Entry(n)' = Entry(n) /\ PoisOfTile(n)' = PoisOfTile(n) /\ WaysOfTile(n)' = WaysOfTile(n)
                /\ \A k : PoiOf(n, k)' = PoiOf(n, k) /\ WayOf(n, k)' = WayOf(n, k)
                /\ IsSound(n)' <=> IsSound(n)
  BY <1>1, SameQuery
<1>3. Loop' /\ Number' = Number /\ \A n : Passed(n)' <=> Passed(n)
  <2>1. Loop'
    BY <1>1 DEF Loop
  <2>2. Number' = Number
    BY <1>2 DEF Number, Width
  <2>3. \A n : Passed(n)' <=> Passed(n)
    BY <1>2 DEF Passed
  <2>4. QED
    BY <2>1, <2>2, <2>3
<1>4. PassedReported'
  <2>1. ASSUME NEW n \in BlocksOfTile, Passed(n), IsSound(n)
        PROVE  PoisReported(n, nodes') /\ WaysReported(n, found')
    <3>1. PoisReported(n, nodes) /\ WaysReported(n, found)
      BY <1>1, <2>1 DEF PassedReported
    <3>2. QED
      BY <3>1 DEF PoisReported, WaysReported
  <2>2. QED
    BY <1>2, <1>3, <2>1, SameBlocks DEF PassedReported
<1>5. WaterSoFar'
  <2>1. \A n : Visited(n)' <=> Passed(n) \/ n = Number
    BY <1>3 DEF Visited
  <2>2. QED
    BY <1>1, <1>2, <2>1, SameQuery DEF WaterSoFar, KnowsWater
<1>6. OnlyPois(nodes, PoisRead)' /\ OnlyWays(found, WaysRead)'
  <2>1. OnlyPois(nodes, PoisRead)'
    BY <1>2, <1>3 DEF OnlyPois
  <2>2. OnlyWays(found, WaysRead)'
    BY <1>2, <1>3 DEF OnlyWays
  <2>3. QED
    BY <2>1, <2>2
<1>7. OnlyWhatTheTileShows'
  BY WhatIsReported
<1>8. SoundBlocksAreReported' /\ BackgroundIsWater'
  BY <1>1 DEF SoundBlocksAreReported, BackgroundIsWater, InBlock
<1>9. phase' \in Phases /\ opened' \in DOMAIN Files /\ longMax' \in LongMaxima
  BY <1>1 DEF Phases, InBlock, Queried
<1>10. QED
  BY <1>2, <1>3, <1>4, <1>5, <1>6, <1>7, <1>8, <1>9 DEF IInv

-----------------------------------------------------------------------------
(* Each step keeps the invariant.                                          *)

(* What is left of an entry of the index in a long that has room for it    *)
(* is the entry ...                                                        *)
LEMMA WideEntry ==
  ASSUME NEW P \in Nat \ {0}, NEW p \in 0..(P - 1), NEW w \in {0, P}, NEW m \in Nat, 2 * P <= m + 1,
         NEW M \in Nat \ {0}, M = 2 * (m + 1), NEW e \in Nat, e = p + w
  PROVE  e % M = e /\ e <= m /\ e % P = p /\ e \div P = (IF w = 0 THEN 0 ELSE 1)
<1>1. e <= m /\ e \in 0..(M - 1)
  OBVIOUS
<1>2. e % M = e
  <2>1. e = M * 0 + e
    OBVIOUS
  <2>2. QED
    BY <1>1, <2>1, RestOf
<1>3. CASE w = 0
  <2>1. e = P * 0 + p
    BY <1>3
  <2>2. e % P = p /\ e \div P = 0
    BY <2>1, RestOf
  <2>3. QED
    BY <1>1, <1>2, <1>3, <2>2
<1>4. CASE w = P
  <2>1. e = P * 1 + p /\ w # 0
    BY <1>4
  <2>2. e % P = p /\ e \div P = 1
    BY <2>1, RestOf
  <2>3. QED
    BY <1>1, <1>2, <2>1, <2>2
<1>5. QED
  BY <1>3, <1>4

(* ... and in a shorter one its pointer, or a negative number.             *)
LEMMA NarrowEntry ==
  ASSUME NEW P \in Nat \ {0}, NEW p \in 0..(P - 1), NEW w \in {0, P}, NEW m \in Nat,
         NEW M \in Nat \ {0}, M = 2 * (m + 1), P % M = 0, p <= 2 * m + 1, NEW e \in Nat, e = p + w
  PROVE  /\ e % M = p /\ M <= P
         /\ p % P = p /\ p \div P = 0
         /\ p > m => (p - M) % P > m /\ (p - M) % P \in Nat
<1>1. \E k \in Int : P = M * k
  BY NoRest
<1>2. PICK k \in Int : P = M * k
  BY <1>1
<1>3. k >= 1
  <2>1. \A a \in Nat \ {0}, b \in Int : b <= 0 => a * b <= 0
    OBVIOUS
  <2>2. QED
    BY <1>2, <2>1
<1>4. M <= P
  <2>1. \A a \in Nat \ {0}, b \in Int : b >= 1 => a <= a * b
    OBVIOUS
  <2>2. QED
    BY <1>2, <1>3, <2>1
<1>5. e % M = p
  <2>1. p \in 0..(M - 1)
    OBVIOUS
  <2>2. CASE w = 0
    <3>1. e = M * 0 + p
      BY <2>2
    <3>2. QED
      BY <2>1, <3>1, RestOf
  <2>3. CASE w = P
    <3>1. e = M * k + p
      BY <1>2, <2>3
    <3>2. QED
      BY <2>1, <3>1, RestOf
  <2>4. QED
    BY <2>2, <2>3
<1>6. p % P = p /\ p \div P = 0
  <2>1. p = P * 0 + p
    OBVIOUS
  <2>2. QED
    BY <2>1, RestOf
<1>7. ASSUME p > m PROVE (p - M) % P > m /\ (p - M) % P \in Nat
  <2>1. PICK l, r \in Int : l = p - M /\ r = l + P
    OBVIOUS
  <2>2. r \in 0..(P - 1) /\ r > m /\ l \in Int
    BY <1>4, <1>7, <2>1
  <2>3. l = P * (-1) + r
    BY <2>1
  <2>4. l % P = r
    BY <2>2, <2>3, RestOf
  <2>5. QED
    BY <2>1, <2>2, <2>4
<1>8. QED
  BY <1>4, <1>5, <1>6, <1>7

(* The bit of no number, and of one.                                       *)
LEMMA LastBit == 0 % 2 = 0 /\ 1 % 2 = 1
  BY SMT

(* getIndexEntry: where it answers a place of the sub-file, that is the    *)
(* file's pointer, and where the file has one it answers it.  The bit of   *)
(* water is the file's only where an entry fits a long.                    *)
LEMMA EntryIs ==
  ASSUME Queried, NEW n \in Nat, n + 1 \in DOMAIN SubFile.blocks
  PROVE  /\ Pointer(n) \in Nat
         /\ Entry(n).indexed /\ Entry(n).pointer <= SubFile.size => Pointer(n) = Entry(n).pointer
         /\ IsPointer(Pointer(n)) => /\ Entry(n).indexed /\ Pointer(n) = Entry(n).pointer
                                     /\ IsWater(n) <=> Entry(n).water /\ EntryFits
<1>1. IsSubFile(file, SubFile)
  BY QueryOfState
<1>2. PICK P, p, m, size, b : /\ P = WaterBit /\ p = Entry(n).pointer /\ m = longMax /\ size = SubFile.size
                              /\ b = Entry(n)
  OBVIOUS
<1>3. b = SubFile.blocks[n + 1] /\ IsBlock(b, SubFile)
  BY <1>1, <1>2 DEF Entry, IsSubFile
<1>4. /\ P \in Nat \ {0} /\ P = PointerMax + 1 /\ p \in 0..(P - 1) /\ m \in Nat
      /\ 2 * P <= m + 1 \/ P % (2 * (m + 1)) = 0
      /\ size \in 0..(PointerMax - 1) /\ size <= m /\ p <= 2 * m + 1
      /\ b.indexed \in BOOLEAN /\ b.water \in BOOLEAN
  <2>1. PointerMax \in Nat /\ m \in Nat /\ (2 * PointerMax + 1 <= m \/ (PointerMax + 1) % (2 * (m + 1)) = 0)
    BY <1>2, IndexAssumption DEF Queried
  <2>2. p \in 0..PointerMax /\ b.indexed \in BOOLEAN /\ b.water \in BOOLEAN
    BY <1>2, <1>3 DEF IsBlock
  <2>3. size \in 0..(PointerMax - 1) /\ size <= m /\ p <= 2 * m + 1
    BY <1>1, <1>2, <1>3 DEF IsSubFile, Queried
  <2>4. P = PointerMax + 1
    BY <1>2 DEF WaterBit
  <2>5. QED
    BY <2>1, <2>2, <2>3, <2>4
<1>5. EntryFits <=> 2 * P <= m + 1
  BY <1>2, <1>4, IndexAssumption DEF EntryFits
<1>6. PICK w \in {0, P} : w = IF b.water THEN P ELSE 0
  BY <1>4
<1>7. PICK e \in Nat, M \in Nat \ {0} : e = p + w /\ M = 2 * (m + 1)
  BY <1>4
<1>8. PICK l : l = GetIndexEntry(n) /\ l = IF b.indexed THEN AsLong(e) ELSE -1
  BY <1>2, <1>6, <1>7 DEF GetIndexEntry, IndexEntry
<1>9. Pointer(n) = l % P /\ (IsWater(n) <=> (l \div P) % 2 = 1) /\ \A x : IsPointer(x) <=> x >= 1 /\ x <= size
  BY <1>2, <1>8 DEF Pointer, IsWater, IsPointer
<1>10. CASE ~ b.indexed
  <2>1. l = -1
    BY <1>2, <1>8, <1>10 DEF GetIndexEntry
  <2>2. P * (-1) = -P /\ l - P * (-1) = P - 1 /\ P - 1 \in 0..(P - 1) /\ l \in Int
    BY <1>4, <2>1
  <2>3. l % P = P - 1
    BY <1>4, <2>2, RestUnique
  <2>4. l % P \in Nat /\ ~ (l % P <= size)
    BY <1>4, <2>3, IndexAssumption
  <2>5. QED
    BY <1>2, <1>9, <1>10, <2>4
<1>11. CASE b.indexed /\ 2 * P <= m + 1
  <2>1. e % M = e /\ e <= m /\ e % P = p /\ e \div P = (IF w = 0 THEN 0 ELSE 1)
    <3>1. P \in Nat \ {0} /\ p \in 0..(P - 1) /\ m \in Nat /\ 2 * P <= m + 1
      BY <1>4, <1>11
    <3>2. QED
      BY <1>7, <3>1, WideEntry
  <2>2. l = e
    BY <1>2, <1>7, <1>8, <1>11, <2>1 DEF AsLong
  <2>3. l % P = p /\ l \div P = (IF w = 0 THEN 0 ELSE 1)
    BY <2>1, <2>2
  <2>4. IsWater(n) <=> b.water
    <3>1. w = 0 <=> ~ b.water
      BY <1>4, <1>6
    <3>2. QED
      BY <1>9, <2>3, <3>1, LastBit
  <2>5. QED
    BY <1>2, <1>4, <1>5, <1>9, <1>11, <2>3, <2>4
<1>12. CASE b.indexed /\ ~ (2 * P <= m + 1)
  <2>1. /\ e % M = p /\ p % P = p /\ p \div P = 0
        /\ p > m => (p - M) % P > m /\ (p - M) % P \in Nat
    <3>1. P % M = 0 /\ p <= 2 * m + 1 /\ P \in Nat \ {0} /\ p \in 0..(P - 1) /\ m \in Nat
      BY <1>4, <1>7, <1>12
    <3>2. QED
      BY <1>7, <3>1, NarrowEntry
  <2>2. l = IF p <= m THEN p ELSE p - M
    BY <1>2, <1>7, <1>8, <1>12, <2>1 DEF AsLong
  <2>3. CASE p <= m
    <3>1. l % P = p /\ ~ IsWater(n)
      BY <1>9, <2>1, <2>2, <2>3, LastBit
    <3>2. QED
      BY <1>2, <1>4, <1>5, <1>9, <1>12, <3>1
  <2>4. CASE ~ (p <= m)
    <3>1. l % P > m /\ l % P \in Nat
      <4>1. p > m
        BY <1>4, <2>4
      <4>2. QED
        BY <1>4, <1>7, <2>1, <2>2, <2>4, <4>1
    <3>2. ~ (l % P <= size) /\ ~ (p <= size)
      BY <1>4, <2>4, <3>1
    <3>3. QED
      BY <1>2, <1>9, <3>1, <3>2
  <2>5. QED
    BY <2>3, <2>4
<1>13. QED
  BY <1>10, <1>11, <1>12

(* The bytes of a block end at a place of the file.                        *)
LEMMA PointersAre ==
  ASSUME Queried, Number \in BlocksOfTile
  PROVE  /\ Pointer(Number) \in Nat /\ NextPointer \in Nat /\ BlockSize = NextPointer - Pointer(Number)
         /\ SubFile.room \in Nat /\ MaximumBufferSize \in Nat
         /\ IsPointer(Pointer(Number)) => Pointer(Number) = Entry(Number).pointer
         /\ IsPointer(NextPointer) => NextPointer = EndOf(SubFile, Number + 1)
         /\ IsSound(Number) => Pointer(Number) = Entry(Number).pointer /\ NextPointer = EndOf(SubFile, Number + 1)
<1>1. PICK n, N : n = Number /\ N = NumberOfBlocks
  OBVIOUS
<1>2. /\ n \in Nat /\ n + 1 \in DOMAIN SubFile.blocks
      /\ EndOf(SubFile, n + 1) = IF n + 1 = N THEN SubFile.size ELSE Entry(n + 1).pointer
  BY <1>1, BlockOfTile
<1>3. Width \in Nat \ {0} /\ Height \in Nat \ {0} /\ N = Width * Height /\ IsSubFile(file, SubFile)
  BY <1>1, QueryOfState
<1>4. /\ SubFile.size \in Nat /\ SubFile.room \in Nat /\ SubFile.blocks \in Seq(Range(SubFile.blocks)) /\ Len(SubFile.blocks) = N
  BY <1>3 DEF IsSubFile, Width, Height
<1>5. DOMAIN SubFile.blocks = 1..N /\ N \in Nat
  BY <1>3, <1>4, LenProperties
<1>6. NextPointer = IF n + 1 = N THEN SubFile.size ELSE Pointer(n + 1)
  BY <1>1 DEF NextPointer
<1>7. /\ Pointer(n) \in Nat /\ (IsPointer(Pointer(n)) => Pointer(n) = Entry(n).pointer)
      /\ Entry(n).indexed /\ Entry(n).pointer <= SubFile.size => Pointer(n) = Entry(n).pointer
  BY <1>2, EntryIs
<1>8. ASSUME n + 1 # N
      PROVE  /\ Pointer(n + 1) \in Nat /\ (IsPointer(Pointer(n + 1)) => Pointer(n + 1) = Entry(n + 1).pointer)
             /\ Entry(n + 1).indexed /\ Entry(n + 1).pointer <= SubFile.size => Pointer(n + 1) = Entry(n + 1).pointer
  <2>1. n + 1 \in Nat /\ (n + 1) + 1 \in DOMAIN SubFile.blocks
    BY <1>2, <1>5, <1>8
  <2>2. QED
    BY <2>1, EntryIs
<1>9. ASSUME IsSound(n)
      PROVE  Pointer(n) = Entry(n).pointer /\ NextPointer = EndOf(SubFile, n + 1)
  <2>1. /\ Entry(n).indexed /\ IsPointer(Entry(n).pointer)
        /\ n + 1 # N => Entry(n + 1).indexed /\ IsPointer(Entry(n + 1).pointer)
    BY <1>1, <1>9 DEF IsSound
  <2>2. \A x : IsPointer(x) => x <= SubFile.size
    BY DEF IsPointer
  <2>3. Pointer(n) = Entry(n).pointer
    BY <1>7, <2>1, <2>2
  <2>4. CASE n + 1 = N
    BY <1>2, <1>6, <2>3, <2>4
  <2>5. CASE n + 1 # N
    <3>1. Pointer(n + 1) = Entry(n + 1).pointer
      BY <1>8, <2>1, <2>2, <2>5
    <3>2. QED
      BY <1>2, <1>6, <2>3, <2>5, <3>1
  <2>6. QED
    BY <2>4, <2>5
<1>10. NextPointer \in Nat
  <2>1. CASE n + 1 = N
    BY <1>4, <1>6, <2>1
  <2>2. CASE n + 1 # N
    BY <1>6, <1>8, <2>2
  <2>3. QED
    BY <2>1, <2>2
<1>11. IsPointer(NextPointer) => NextPointer = EndOf(SubFile, n + 1)
  <2>1. CASE n + 1 = N
    BY <1>2, <1>6, <2>1
  <2>2. CASE n + 1 # N
    BY <1>2, <1>6, <1>8, <2>2
  <2>3. QED
    BY <2>1, <2>2
<1>12. BlockSize = NextPointer - Pointer(n)
  BY <1>1 DEF BlockSize
<1>13. MaximumBufferSize \in Nat
  BY MapFileAssumption
<1>14. n = Number
  BY <1>1
<1>15. QED
  BY <1>4, <1>7, <1>9, <1>10, <1>11, <1>12, <1>13, <1>14

(* A block that the checks of processBlocks do not let pass is not sound.  *)
LEMMA SoundIs ==
  ASSUME Queried, Number \in BlocksOfTile, IsSound(Number)
  PROVE  ~ IsInvalid /\ ~ (BlockSize > MaximumBufferSize) /\ Entry(Number).head
<1>1. PICK p, e, s, b : p = Pointer(Number) /\ e = NextPointer /\ s = BlockSize /\ b = MaximumBufferSize
  OBVIOUS
<1>2. p \in Nat /\ e \in Nat /\ s = e - p /\ SubFile.room \in Nat /\ b \in Nat
  BY <1>1, PointersAre
<1>3. IsPointer(p) /\ IsPointer(e) /\ e - p \in 0..b /\ e <= SubFile.room /\ Entry(Number).head
  <2>1. p = Entry(Number).pointer /\ e = EndOf(SubFile, Number + 1)
    BY <1>1, PointersAre
  <2>2. EndOf(SubFile, Number + 1) = IF Number + 1 = NumberOfBlocks THEN SubFile.size ELSE Entry(Number + 1).pointer
    BY BlockOfTile
  <2>3. QED
    BY <1>1, <2>1, <2>2 DEF IsSound
<1>4. s >= 0 /\ ~ (s > b) /\ p + s = e /\ ~ (p + s > SubFile.room)
  BY <1>2, <1>3
<1>5. ~ IsInvalid
  BY <1>1, <1>2, <1>3, <1>4 DEF IsInvalid
<1>6. QED
  BY <1>1, <1>3, <1>4, <1>5

(* A block that the query reads.                                           *)
LEMMA ElementsOfBlock ==
  ASSUME Queried, Number \in BlocksOfTile, NEW b, b = Entry(Number)
  PROVE  /\ b.pois \in Seq(Range(b.pois)) /\ AllPois \in 0..Len(b.pois) /\ AllPois \in Nat
         /\ PoisOfTile(Number) = 1..AllPois
         /\ b.ways \in Seq(Range(b.ways)) /\ AllWays \in 0..Len(b.ways) /\ AllWays \in Nat
         /\ WaysOfTile(Number) \subseteq 1..AllWays
         /\ \A k \in 1..AllWays : k \in WaysOfTile(Number) <=> ~ IsMasked(b.ways[k])
         /\ \A i \in DOMAIN b.pois : b.pois[i].damage \in Damages \ {"late"}
         /\ \A i \in DOMAIN b.ways : b.ways[i].damage \in Damages
<1>1. PICK n : n = Number
  OBVIOUS
<1>2. AllPois = Cumulated(Entry(n).rows, "pois") /\ AllWays = Cumulated(Entry(n).rows, "ways")
  BY <1>1 DEF AllPois, AllWays
<1>3. /\ b.pois \in Seq(Range(b.pois)) /\ AllPois \in 0..Len(b.pois) /\ PoisOfTile(n) = 1..AllPois
      /\ b.ways \in Seq(Range(b.ways)) /\ AllWays \in 0..Len(b.ways) /\ WaysOfTile(n) \subseteq 1..AllWays
      /\ \A k \in 1..AllWays : k \in WaysOfTile(n) <=> ~ IsMasked(b.ways[k])
  BY <1>1, <1>2, ElementsOfTile
<1>4. IsBlock(b, SubFile)
  BY <1>1, BlockOfTile
<1>5. Len(b.pois) \in Nat /\ Len(b.ways) \in Nat
  BY <1>3, LenProperties
<1>6. AllPois \in Nat /\ AllWays \in Nat
  BY <1>3, <1>5
<1>7. QED
  BY <1>1, <1>3, <1>4, <1>6 DEF IsBlock

(* While the query reads on in its block.                                  *)
LEMMA SameBlock ==
  ASSUME UNCHANGED <<opened, longMax, tile, query, block>>, InBlock'
  PROVE  /\ Number' = Number /\ Entry(Number)' = Entry(Number) /\ (AtBlock' <=> AtBlock)
         /\ AllPois' = AllPois /\ AllWays' = AllWays
         /\ PoisRead' = AllPois - Len(pois') /\ WaysRead' = AllWays - Len(ways')
         /\ WaysOfTile(Number)' = WaysOfTile(Number)
         /\ \A k : PoiOf(Number, k)' = PoiOf(Number, k) /\ WayOf(Number, k)' = WayOf(Number, k)
<1>1. file' = file /\ SubFile' = SubFile
  BY SameQuery
<1>2. Number' = Number
  BY <1>1 DEF Number
<1>3. /\ Entry(Number)' = Entry(Number) /\ WaysOfTile(Number)' = WaysOfTile(Number)
      /\ \A k : PoiOf(Number, k)' = PoiOf(Number, k) /\ WayOf(Number, k)' = WayOf(Number, k)
      /\ \A rows, kind : Cumulated(rows, kind)' = Cumulated(rows, kind)
  BY <1>2, SameQuery
<1>4. AllPois' = AllPois /\ AllWays' = AllWays
  BY <1>3 DEF AllPois, AllWays
<1>5. QED
  BY <1>2, <1>3, <1>4 DEF AtBlock, PoisRead, WaysRead

(* A damaged index ends the query.                                         *)
LEMMA RefuseBlockKeeps ==
  ASSUME IInv, RefuseBlock
  PROVE  IInv'
<1>1. InQuery /\ AtBlock
  BY DEF RefuseBlock, InLoop, InQuery, AtBlock
<1>2. Queried /\ Number \in BlocksOfTile /\ OnlyPois(nodes, PoisRead) /\ OnlyWays(found, WaysRead)
  BY <1>1, AtABlock
<1>3. ~ IsSound(Number)
  BY <1>2, SoundIs DEF RefuseBlock
<1>4. EndQuery /\ UNCHANGED <<opened, longMax, tile, query, nodes, found, background>>
  BY DEF RefuseBlock
<1>5. OnlyPois(nodes', PoisRead) /\ OnlyWays(found', WaysRead)
  BY <1>2, <1>4
<1>6. QED
  BY <1>1, <1>3, <1>4, <1>5, QueryEnds

(* A block that is left out has nothing in it, or is too large.            *)
LEMMA SkipBlockKeeps ==
  ASSUME IInv, SkipBlock
  PROVE  IInv'
<1>1. InQuery /\ AtBlock /\ phase = "blocks"
  BY DEF SkipBlock, InLoop, InQuery, AtBlock
<1>2. Queried /\ Number \in BlocksOfTile /\ OnlyPois(nodes, PoisRead) /\ OnlyWays(found, WaysRead)
  BY <1>1, AtABlock
<1>3. NextBlock /\ ReadWaterInfo /\ UNCHANGED <<opened, longMax, tile, query, nodes, found, background>>
  BY DEF SkipBlock
<1>8. IsPointer(Pointer(Number))
  BY DEF SkipBlock, IsInvalid
<1>4. KnowsWater
  BY <1>1, <1>2, <1>3, <1>8, WaterOfEntry
<1>5. ASSUME IsSound(Number) PROVE PoisReported(Number, nodes') /\ WaysReported(Number, found')
  <2>1. BlockSize = 0
    BY <1>2, <1>5, SoundIs DEF SkipBlock
  <2>2. EndOf(SubFile, Number + 1) = Entry(Number).pointer
    <3>1. PICK x, y : x = Pointer(Number) /\ y = NextPointer
      OBVIOUS
    <3>2. x \in Nat /\ y \in Nat /\ y - x = 0
      BY <1>2, <2>1, <3>1, PointersAre
    <3>3. x = y
      BY <3>2
    <3>4. QED
      BY <1>2, <1>5, <3>1, <3>3, PointersAre
  <2>3. Entry(Number).pois = <<>> /\ Entry(Number).ways = <<>>
    BY <1>2, <2>2, BlockOfTile
  <2>4. PoisOfTile(Number) = {} /\ WaysOfTile(Number) = {}
    BY <2>3 DEF PoisOfTile, WaysOfTile
  <2>5. QED
    BY <2>4 DEF PoisReported, WaysReported
<1>6. OnlyPois(nodes', PoisRead) /\ OnlyWays(found', WaysRead) /\ ToSet(nodes) \subseteq ToSet(nodes') /\ ToSet(found) \subseteq ToSet(found')
  BY <1>2, <1>3
<1>7. QED
  BY <1>1, <1>3, <1>4, <1>5, <1>6, BlockEnds

(* A block is begun, or left where its head is damaged.                    *)
LEMMA ProcessBlockKeeps ==
  ASSUME IInv, ProcessBlock
  PROVE  IInv'
<1>1. InQuery /\ AtBlock /\ phase = "blocks" /\ ~ InBlock
  BY DEF ProcessBlock, InLoop, InQuery, AtBlock, InBlock
<1>2. Queried /\ Number \in BlocksOfTile /\ OnlyPois(nodes, PoisRead) /\ OnlyWays(found, WaysRead)
  BY <1>1, AtABlock
<1>3. ReadWaterInfo /\ UNCHANGED <<opened, longMax, tile, query, nodes, found, background>>
  BY DEF ProcessBlock
<1>9. IsPointer(Pointer(Number))
  BY DEF ProcessBlock, IsInvalid
<1>4. KnowsWater
  BY <1>1, <1>2, <1>3, <1>9, WaterOfEntry
<1>5. ToSet(nodes) \subseteq ToSet(nodes') /\ ToSet(found) \subseteq ToSet(found')
  BY <1>3
<1>6. CASE ~ Entry(Number).head
  <2>1. NextBlock
    BY <1>6 DEF ProcessBlock
  <2>2. ~ IsSound(Number)
    BY <1>2, <1>6, SoundIs
  <2>3. OnlyPois(nodes', PoisRead) /\ OnlyWays(found', WaysRead)
    BY <1>2, <1>3
  <2>4. QED
    BY <1>1, <1>3, <1>4, <1>5, <2>1, <2>2, <2>3, BlockEnds
<1>7. CASE Entry(Number).head
  <2>1. PICK b, p, w : b = Entry(Number) /\ p = AllPois /\ w = AllWays
    OBVIOUS
  <2>2. phase' = "pois" /\ pois' = SubSeq(b.pois, 1, p) /\ ways' = SubSeq(b.ways, 1, w) /\ block' = block /\ InBlock'
    BY <1>7, <2>1 DEF ProcessBlock, InBlock, AllPois, AllWays
  <2>3. b.pois \in Seq(Range(b.pois)) /\ p \in 0..Len(b.pois) /\ p \in Nat /\ b.ways \in Seq(Range(b.ways)) /\ w \in 0..Len(b.ways) /\ w \in Nat
    BY <1>2, <2>1, ElementsOfBlock
  <2>4. Len(pois') = p /\ Len(ways') = w
    BY <2>2, <2>3, LenOfFirst
  <2>5. PoisRead = 0 /\ WaysRead = 0
    BY <1>1 DEF PoisRead, WaysRead
  <2>6. /\ Number' = Number /\ Entry(Number)' = b /\ AtBlock' /\ AllPois' = p /\ AllWays' = w /\ PoisRead' = 0 /\ WaysRead' = 0
    <3>1. UNCHANGED <<opened, longMax, tile, query, block>>
      BY <1>3, <2>2
    <3>2. PoisRead' = p - p /\ WaysRead' = w - w
      BY <2>1, <2>2, <2>4, <3>1, SameBlock
    <3>3. QED
      BY <1>1, <2>1, <2>2, <2>3, <3>1, <3>2, SameBlock
  <2>7. Rest'
    BY <2>2, <2>3, <2>4, <2>6 DEF Rest
  <2>8. ReadReported'
    BY <2>6 DEF ReadReported
  <2>9. OnlyPois(nodes', PoisRead') /\ OnlyWays(found', WaysRead')
    BY <1>2, <1>3, <2>5, <2>6
  <2>10. QED
    BY <1>1, <1>3, <1>4, <1>5, <2>2, <2>7, <2>8, <2>9, BlockGoesOn
<1>8. QED
  BY <1>6, <1>7

(* What is known in a block.                                               *)
LEMMA InABlock ==
  ASSUME IInv, InBlock
  PROVE  /\ InQuery /\ AtBlock /\ Rest /\ ReadReported /\ Queried /\ Number \in BlocksOfTile /\ ~ Passed(Number)
         /\ OnlyPois(nodes, PoisRead) /\ OnlyWays(found, WaysRead)
         /\ PoisRead = AllPois - Len(pois) /\ WaysRead = AllWays - Len(ways)
         /\ PoisRead \in Nat /\ WaysRead \in Nat
<1>1. InQuery /\ Rest /\ ReadReported /\ AtBlock
  BY DEF IInv, InQuery, InBlock, Rest
<1>2. Queried /\ Number \in BlocksOfTile /\ ~ Passed(Number) /\ OnlyPois(nodes, PoisRead) /\ OnlyWays(found, WaysRead)
  BY <1>1, AtABlock
<1>3. PoisRead = AllPois - Len(pois) /\ WaysRead = AllWays - Len(ways)
  BY DEF PoisRead, WaysRead
<1>4. PICK p, w, lp, lw : p = AllPois /\ w = AllWays /\ lp = Len(pois) /\ lw = Len(ways)
  OBVIOUS
<1>5. p \in Nat /\ w \in Nat
  BY <1>2, <1>4, ElementsOfBlock
<1>6. lp \in 0..p /\ lw \in 0..w
  BY <1>1, <1>4 DEF Rest
<1>7. p - lp \in Nat /\ w - lw \in Nat
  BY <1>5, <1>6
<1>8. QED
  BY <1>1, <1>2, <1>3, <1>4, <1>7

(* A point of interest is reported, or is damaged and the block not sound. *)
LEMMA ReadPoiKeeps ==
  ASSUME IInv, ReadPoi
  PROVE  IInv'
<1>1. InBlock /\ pois # <<>> /\ phase = "pois" /\ UNCHANGED <<opened, longMax, tile, query, water, found, background>>
  BY DEF ReadPoi, InBlock
<1>2. /\ InQuery /\ AtBlock /\ Rest /\ ReadReported /\ Queried /\ Number \in BlocksOfTile /\ ~ Passed(Number)
      /\ OnlyPois(nodes, PoisRead) /\ OnlyWays(found, WaysRead) /\ PoisRead = AllPois - Len(pois)
      /\ WaysRead = AllWays - Len(ways) /\ PoisRead \in Nat
  BY <1>1, InABlock
<1>3. KnowsWater
  BY <1>1, <1>2, WaterOfBlock
<1>4. PICK b, r, all, p : b = Entry(Number) /\ r = PoisRead /\ all = AllPois /\ p = Head(pois)
  OBVIOUS
<1>5. /\ b.pois \in Seq(Range(b.pois)) /\ all \in 0..Len(b.pois) /\ PoisOfTile(Number) = 1..all
      /\ \A i \in DOMAIN b.pois : b.pois[i].damage \in Damages \ {"late"}
  BY <1>2, <1>4, ElementsOfBlock
<1>6. IsRest(pois, b.pois, all) /\ r = all - Len(pois) /\ r \in Nat
  BY <1>2, <1>4 DEF Rest, IsRest
<1>7. /\ r + 1 \in 1..all /\ r + 1 \in DOMAIN b.pois /\ p = b.pois[r + 1]
      /\ IsRest(Tail(pois), b.pois, all) /\ all - Len(Tail(pois)) = r + 1
  BY <1>1, <1>4, <1>5, <1>6, RestIs
<1>8. r + 1 \in PoisOfTile(Number)
  BY <1>5, <1>7
<1>14. PICK outcome \in Outcomes(p, Damages \ {"late"}) :
         CASE outcome = "none" ->
                /\ nodes' = Append(nodes, [id |-> p.id, block |-> Number])
                /\ pois' = Tail(pois) /\ UNCHANGED <<phase, block, ways>>
           [] outcome = "invalid" -> NextBlock /\ UNCHANGED nodes
           [] outcome = "cut" -> EndQuery /\ UNCHANGED <<nodes, block>>
  BY <1>4 DEF ReadPoi
<1>15. /\ outcome \in {"none", "invalid", "cut"}
       /\ p.damage = "none" => outcome = "none"
  <2>1. p.damage \in Damages \ {"late"}
    BY <1>5, <1>7
  <2>2. QED
    BY <1>14, <2>1 DEF Damages, Outcomes
<1>9. CASE outcome = "none"
  <2>1. nodes' = Append(nodes, [id |-> p.id, block |-> Number]) /\ pois' = Tail(pois) /\ UNCHANGED <<phase, block, ways>>
    BY <1>9, <1>14
  <2>2. nodes' = Append(nodes, PoiOf(Number, r + 1))
    BY <1>4, <1>7, <2>1 DEF PoiOf
  <2>3. OnlyPois(nodes', r + 1) /\ ToSet(nodes) \subseteq ToSet(nodes') /\ PoiOf(Number, r + 1) \in ToSet(nodes')
    BY <1>2, <1>4, <1>6, <1>8, <2>2, AddPoi DEF IsOneMore
  <2>4. UNCHANGED <<opened, longMax, tile, query, block>> /\ InBlock'
    BY <1>1, <2>1 DEF InBlock
  <2>5. /\ Number' = Number /\ Entry(Number)' = b /\ AtBlock' /\ AllPois' = all /\ AllWays' = AllWays
        /\ PoisRead' = r + 1 /\ WaysRead' = WaysRead /\ WaysOfTile(Number)' = WaysOfTile(Number)
        /\ \A k : PoiOf(Number, k)' = PoiOf(Number, k) /\ WayOf(Number, k)' = WayOf(Number, k)
    <3>1. PoisRead' = all - Len(Tail(pois)) /\ WaysRead' = AllWays - Len(ways)
      BY <1>4, <2>1, <2>4, SameBlock
    <3>2. QED
      BY <1>2, <1>4, <1>7, <2>4, <3>1, SameBlock
  <2>6. Rest'
    <3>1. Len(pois') \in 0..all /\ pois' = SubSeq(b.pois, (r + 1) + 1, all)
      BY <1>7, <2>1 DEF IsRest
    <3>2. Len(ways') \in 0..AllWays /\ ways' = SubSeq(b.ways, WaysRead + 1, AllWays)
      BY <1>2, <1>4, <2>1 DEF Rest
    <3>3. phase' = "pois"
      BY <1>1, <2>1
    <3>4. QED
      BY <2>5, <3>1, <3>2, <3>3 DEF Rest
  <2>7. ReadReported'
    <3>1. ASSUME NEW k \in 1..(r + 1) PROVE PoiOf(Number, k) \in ToSet(nodes')
      <4>1. k \in 1..r \/ k = r + 1
        BY <1>6
      <4>2. ASSUME k \in 1..r PROVE PoiOf(Number, k) \in ToSet(nodes)
        BY <1>2, <1>4, <4>2 DEF ReadReported
      <4>3. QED
        BY <2>3, <4>1, <4>2
    <3>2. \A k \in 1..WaysRead : k \in WaysOfTile(Number) => WayOf(Number, k) \in ToSet(found')
      BY <1>1, <1>2 DEF ReadReported
    <3>3. QED
      BY <2>5, <3>1, <3>2 DEF ReadReported
  <2>8. OnlyPois(nodes', PoisRead') /\ OnlyWays(found', WaysRead') /\ ToSet(found) \subseteq ToSet(found')
    BY <1>1, <1>2, <2>3, <2>5
  <2>9. QED
    BY <1>1, <1>2, <1>3, <2>3, <2>4, <2>6, <2>7, <2>8, BlockGoesOn
<1>10. ASSUME outcome # "none" PROVE ~ IsSound(Number)
  BY <1>4, <1>7, <1>8, <1>10, <1>15 DEF IsSound
<1>11. CASE outcome = "invalid"
  <2>1. NextBlock /\ UNCHANGED nodes
    BY <1>11, <1>14
  <2>2. OnlyPois(nodes', r) /\ OnlyWays(found', WaysRead) /\ ToSet(nodes) \subseteq ToSet(nodes') /\ ToSet(found) \subseteq ToSet(found')
    BY <1>1, <1>2, <1>4, <2>1
  <2>3. QED
    BY <1>1, <1>2, <1>3, <1>10, <1>11, <2>1, <2>2, BlockEnds
<1>12. CASE outcome = "cut"
  <2>1. EndQuery /\ UNCHANGED nodes
    BY <1>12, <1>14
  <2>2. OnlyPois(nodes', r) /\ OnlyWays(found', WaysRead)
    BY <1>1, <1>2, <1>4, <2>1
  <2>3. QED
    BY <1>1, <1>2, <1>10, <1>12, <2>1, <2>2, QueryEnds
<1>13. QED
  BY <1>9, <1>11, <1>12, <1>15

(* The ways follow the points of interest.                                 *)
LEMMA StartWaysKeeps ==
  ASSUME IInv, StartWays
  PROVE  IInv'
<1>1. /\ InBlock /\ pois = <<>> /\ InBlock'
      /\ UNCHANGED <<opened, longMax, tile, query, block, pois, ways, water, dictionaries, nodes, found, background>>
  BY DEF StartWays, InBlock
<1>2. /\ InQuery /\ AtBlock /\ Rest /\ ReadReported /\ Queried /\ Number \in BlocksOfTile
      /\ OnlyPois(nodes, PoisRead) /\ OnlyWays(found, WaysRead) /\ PoisRead = AllPois - Len(pois) /\ WaysRead = AllWays - Len(ways)
  BY <1>1, InABlock
<1>3. KnowsWater
  BY <1>1, <1>2, WaterOfBlock
<1>4. /\ Number' = Number /\ Entry(Number)' = Entry(Number) /\ AtBlock' /\ AllPois' = AllPois /\ AllWays' = AllWays
      /\ PoisRead' = PoisRead /\ WaysRead' = WaysRead /\ WaysOfTile(Number)' = WaysOfTile(Number)
      /\ \A k : PoiOf(Number, k)' = PoiOf(Number, k) /\ WayOf(Number, k)' = WayOf(Number, k)
  <2>1. UNCHANGED <<opened, longMax, tile, query, block>>
    BY <1>1
  <2>2. QED
    BY <1>1, <1>2, <2>1, SameBlock
<1>5. Rest'
  BY <1>1, <1>2, <1>4 DEF Rest
<1>6. ReadReported'
  BY <1>1, <1>2, <1>4 DEF ReadReported
<1>7. OnlyPois(nodes', PoisRead') /\ OnlyWays(found', WaysRead') /\ ToSet(nodes) \subseteq ToSet(nodes') /\ ToSet(found) \subseteq ToSet(found')
  BY <1>1, <1>2, <1>4
<1>8. QED
  BY <1>1, <1>2, <1>3, <1>5, <1>6, <1>7, BlockGoesOn

(* A way is reported, passed over, or damaged and the block not sound.     *)
LEMMA ReadWayKeeps ==
  ASSUME IInv, ReadWay
  PROVE  IInv'
<1>1. InBlock /\ ways # <<>> /\ phase = "ways" /\ UNCHANGED <<opened, longMax, tile, query, water, nodes, background>>
  BY DEF ReadWay, InBlock
<1>2. /\ InQuery /\ AtBlock /\ Rest /\ ReadReported /\ Queried /\ Number \in BlocksOfTile /\ ~ Passed(Number)
      /\ OnlyPois(nodes, PoisRead) /\ OnlyWays(found, WaysRead) /\ PoisRead = AllPois - Len(pois)
      /\ WaysRead = AllWays - Len(ways) /\ WaysRead \in Nat
  BY <1>1, InABlock
<1>3. KnowsWater
  BY <1>1, <1>2, WaterOfBlock
<1>4. PICK b, r, all, w : b = Entry(Number) /\ r = WaysRead /\ all = AllWays /\ w = Head(ways)
  OBVIOUS
<1>5. /\ b.ways \in Seq(Range(b.ways)) /\ all \in 0..Len(b.ways)
      /\ \A k \in 1..all : k \in WaysOfTile(Number) <=> ~ IsMasked(b.ways[k])
      /\ \A i \in DOMAIN b.ways : b.ways[i].damage \in Damages
  BY <1>2, <1>4, ElementsOfBlock
<1>6. IsRest(ways, b.ways, all) /\ r = all - Len(ways) /\ r \in Nat
  BY <1>2, <1>4 DEF Rest, IsRest
<1>7. /\ r + 1 \in 1..all /\ r + 1 \in DOMAIN b.ways /\ w = b.ways[r + 1]
      /\ IsRest(Tail(ways), b.ways, all) /\ all - Len(Tail(ways)) = r + 1
  BY <1>1, <1>4, <1>5, <1>6, RestIs
<1>8. r + 1 \in WaysOfTile(Number) <=> ~ IsMasked(w)
  BY <1>5, <1>7
<1>9. ToSet(nodes) \subseteq ToSet(nodes') /\ OnlyPois(nodes', PoisRead)
  BY <1>1, <1>2
<1>17. PICK outcome \in Outcomes(w, Damages) :
         /\ found' = IF ~IsMasked(w) /\ outcome \in {"none", "late"} THEN Append(found, w.id) ELSE found
         /\ CASE IsMasked(w) \/ outcome = "none" ->
                   ways' = Tail(ways) /\ UNCHANGED <<phase, block, pois>>
              [] ~IsMasked(w) /\ outcome \in {"invalid", "late"} -> NextBlock
              [] ~IsMasked(w) /\ outcome = "cut" -> EndQuery /\ UNCHANGED block
  BY <1>4 DEF ReadWay
<1>18. /\ outcome \in {"none", "invalid", "cut", "late"}
       /\ w.damage = "none" => outcome = "none"
  <2>1. w.damage \in Damages
    BY <1>5, <1>7
  <2>2. QED
    BY <1>17, <2>1 DEF Damages, Outcomes
<1>10. found' = IF ~ IsMasked(w) /\ outcome \in {"none", "late"} THEN Append(found, WayOf(Number, r + 1)) ELSE found
  BY <1>4, <1>7, <1>17 DEF WayOf
<1>11. ASSUME ~ IsMasked(w), outcome # "none" PROVE ~ IsSound(Number)
  BY <1>4, <1>7, <1>8, <1>11, <1>18 DEF IsSound
<1>12. ASSUME ~ IsMasked(w), outcome \in {"none", "late"}
       PROVE  /\ OnlyWays(found', r + 1) /\ ToSet(found) \subseteq ToSet(found') /\ WayOf(Number, r + 1) \in ToSet(found')
  <2>1. found' = Append(found, WayOf(Number, r + 1)) /\ r + 1 \in WaysOfTile(Number)
    BY <1>8, <1>10, <1>12
  <2>2. QED
    BY <1>2, <1>4, <1>6, <2>1, AddWay DEF IsOneMore
<1>13. CASE IsMasked(w) \/ outcome = "none"
  <2>1. ways' = Tail(ways) /\ UNCHANGED <<phase, block, pois>>
    BY <1>13, <1>17
  <2>2. /\ OnlyWays(found', r + 1) /\ ToSet(found) \subseteq ToSet(found')
        /\ r + 1 \in WaysOfTile(Number) => WayOf(Number, r + 1) \in ToSet(found')
    <3>1. CASE IsMasked(w)
      <4>1. found' = found
        BY <1>10, <3>1
      <4>2. OnlyWays(found, r + 1)
        BY <1>2, <1>4, <1>6, PassOverWay
      <4>3. QED
        BY <1>8, <3>1, <4>1, <4>2
    <3>2. CASE ~ IsMasked(w)
      BY <1>12, <1>13, <3>2
    <3>3. QED
      BY <3>1, <3>2
  <2>3. UNCHANGED <<opened, longMax, tile, query, block>> /\ InBlock'
    BY <1>1, <2>1 DEF InBlock
  <2>4. /\ Number' = Number /\ Entry(Number)' = b /\ AtBlock' /\ AllPois' = AllPois /\ AllWays' = all
        /\ PoisRead' = PoisRead /\ WaysRead' = r + 1 /\ WaysOfTile(Number)' = WaysOfTile(Number)
        /\ \A k : PoiOf(Number, k)' = PoiOf(Number, k) /\ WayOf(Number, k)' = WayOf(Number, k)
    <3>1. PoisRead' = AllPois - Len(pois) /\ WaysRead' = all - Len(Tail(ways))
      BY <1>4, <2>1, <2>3, SameBlock
    <3>2. QED
      BY <1>2, <1>4, <1>7, <2>3, <3>1, SameBlock
  <2>5. Rest'
    <3>1. Len(ways') \in 0..all /\ ways' = SubSeq(b.ways, (r + 1) + 1, all)
      BY <1>7, <2>1 DEF IsRest
    <3>2. Len(pois') \in 0..AllPois /\ pois' = SubSeq(b.pois, PoisRead + 1, AllPois) /\ pois' = <<>>
      BY <1>1, <1>2, <1>4, <2>1 DEF Rest
    <3>3. QED
      BY <2>4, <3>1, <3>2 DEF Rest
  <2>6. ReadReported'
    <3>1. ASSUME NEW k \in 1..(r + 1), k \in WaysOfTile(Number) PROVE WayOf(Number, k) \in ToSet(found')
      <4>1. k \in 1..r \/ k = r + 1
        BY <1>6
      <4>2. ASSUME k \in 1..r PROVE WayOf(Number, k) \in ToSet(found)
        BY <1>2, <1>4, <3>1, <4>2 DEF ReadReported
      <4>3. QED
        BY <2>2, <3>1, <4>1, <4>2
    <3>2. \A k \in 1..PoisRead : PoiOf(Number, k) \in ToSet(nodes')
      BY <1>1, <1>2 DEF ReadReported
    <3>3. QED
      BY <2>4, <3>1, <3>2 DEF ReadReported
  <2>7. OnlyPois(nodes', PoisRead') /\ OnlyWays(found', WaysRead')
    BY <1>9, <2>2, <2>4
  <2>8. QED
    BY <1>1, <1>2, <1>3, <1>9, <2>2, <2>3, <2>5, <2>6, <2>7, BlockGoesOn
<1>14. CASE ~ IsMasked(w) /\ outcome \in {"invalid", "late"}
  <2>1. NextBlock
    BY <1>14, <1>17
  <2>2. \E k : OnlyWays(found', k) /\ ToSet(found) \subseteq ToSet(found')
    <3>1. CASE outcome = "late"
      BY <1>12, <1>14, <3>1
    <3>2. CASE outcome = "invalid"
      BY <1>2, <1>10, <3>2
    <3>3. QED
      BY <1>14, <3>1, <3>2
  <2>3. QED
    BY <1>1, <1>2, <1>3, <1>9, <1>11, <1>14, <2>1, <2>2, BlockEnds
<1>15. CASE ~ IsMasked(w) /\ outcome = "cut"
  <2>1. EndQuery
    BY <1>15, <1>17
  <2>2. OnlyWays(found', r)
    BY <1>2, <1>4, <1>10, <1>15
  <2>3. QED
    BY <1>1, <1>2, <1>9, <1>11, <1>15, <2>1, <2>2, QueryEnds
<1>16. QED
  BY <1>13, <1>14, <1>15, <1>18

(* Where nothing is left, the block has been reported.                     *)
LEMMA FinishBlockKeeps ==
  ASSUME IInv, FinishBlock
  PROVE  IInv'
<1>1. InBlock /\ ways = <<>> /\ phase = "ways" /\ NextBlock /\ UNCHANGED <<opened, longMax, tile, query, water, nodes, found, background>>
  BY DEF FinishBlock, InBlock
<1>2. /\ InQuery /\ AtBlock /\ Rest /\ ReadReported /\ Queried /\ Number \in BlocksOfTile
      /\ OnlyPois(nodes, PoisRead) /\ OnlyWays(found, WaysRead) /\ PoisRead = AllPois - Len(pois) /\ WaysRead = AllWays - Len(ways)
  BY <1>1, InABlock
<1>3. KnowsWater
  BY <1>1, <1>2, WaterOfBlock
<1>4. AllPois \in Nat /\ AllWays \in Nat /\ PoisOfTile(Number) = 1..AllPois /\ WaysOfTile(Number) \subseteq 1..AllWays
  BY <1>2, ElementsOfBlock
<1>5. PoisRead = AllPois /\ WaysRead = AllWays
  <2>1. Len(pois) = 0 /\ Len(ways) = 0
    BY <1>1, <1>2, EmptySeq DEF Rest
  <2>2. QED
    BY <1>2, <1>4, <2>1
<1>6. PoisReported(Number, nodes') /\ WaysReported(Number, found')
  BY <1>1, <1>2, <1>4, <1>5 DEF ReadReported, PoisReported, WaysReported
<1>7. OnlyPois(nodes', PoisRead) /\ OnlyWays(found', WaysRead) /\ ToSet(nodes) \subseteq ToSet(nodes') /\ ToSet(found) \subseteq ToSet(found')
  BY <1>1, <1>2
<1>8. QED
  BY <1>1, <1>2, <1>3, <1>6, <1>7, BlockEnds

(* At the end all blocks have been passed.                                 *)
LEMMA FinishKeeps ==
  ASSUME IInv, Finish
  PROVE  IInv'
<1>1. /\ phase = "blocks" /\ ~ AtBlock /\ phase' = "done" /\ (background' <=> water.is /\ water.read)
      /\ UNCHANGED <<opened, longMax, tile, query, block, water, nodes, found>>
  BY DEF Finish, InLoop, AtBlock
<1>2. Queried /\ Loop /\ PassedReported /\ WaterSoFar /\ OnlyPois(nodes, PoisRead) /\ OnlyWays(found, WaysRead)
  BY <1>1 DEF IInv, InQuery, IsQueried
<1>3. \A n \in BlocksOfTile : Passed(n)
  BY <1>1, <1>2, LoopEnds
<1>4. /\ BlocksOfTile' = BlocksOfTile /\ Queried'
      /\ \A n : /\ Entry(n)' = Entry(n) /\ PoisOfTile(n)' = PoisOfTile(n) /\ WaysOfTile(n)' = WaysOfTile(n)
                /\ IsSound(n)' <=> IsSound(n)
  BY <1>1, <1>2, SameQuery
<1>5. OnlyWhatTheTileShows'
  <2>1. OnlyPois(nodes', PoisRead) /\ OnlyWays(found', WaysRead)
    BY <1>1, <1>2
  <2>2. QED
    BY <1>1, <2>1, WhatIsReported
<1>6. SoundBlocksAreReported'
  <2>1. ASSUME NEW n \in BlocksOfTile, IsSound(n)
        PROVE  /\ \A k \in PoisOfTile(n) : [id |-> Entry(n).pois[k].id, block |-> n] \in ToSet(nodes)
               /\ \A k \in WaysOfTile(n) : Entry(n).ways[k].id \in ToSet(found)
    <3>1. PoisReported(n, nodes) /\ WaysReported(n, found)
      BY <1>2, <1>3, <2>1 DEF PassedReported
    <3>2. QED
      BY <3>1 DEF PoisReported, WaysReported, PoiOf, WayOf
  <2>2. QED
    BY <1>1, <1>4, <2>1 DEF SoundBlocksAreReported
<1>7. BackgroundIsWater'
  <2>1. \A n \in BlocksOfTile : Visited(n)
    BY <1>3 DEF Visited
  <2>2. background' <=> BlocksOfTile # {} /\ \A n \in BlocksOfTile : IsWater(n)
    BY <1>1, <1>2, <2>1 DEF WaterSoFar
  <2>3. ASSUME NEW n \in BlocksOfTile PROVE IsWater(n) <=> Entry(n).water /\ EntryFits
    <3>1. IsPointer(Pointer(n))
      BY <1>2, <2>1 DEF WaterSoFar
    <3>2. n \in Nat /\ n + 1 \in DOMAIN SubFile.blocks
      BY <1>2, BlockOfTile
    <3>3. QED
      BY <1>2, <3>1, <3>2, EntryIs
  <2>4. (EntryFits' <=> EntryFits) /\ (IsQueried /\ IsQueried')
    BY <1>1 DEF EntryFits, IsQueried
  <2>5. background' <=> BlocksOfTile # {} /\ EntryFits /\ \A n \in BlocksOfTile : Entry(n).water
    BY <2>2, <2>3
  <2>6. QED
    BY <1>1, <1>4, <2>4, <2>5 DEF BackgroundIsWater
<1>8. phase' \in Phases /\ opened' \in DOMAIN Files /\ longMax' \in LongMaxima /\ ~ InBlock' /\ ~ InQuery'
  BY <1>1, <1>2 DEF Phases, InBlock, InQuery, Queried
<1>9. QED
  BY <1>4, <1>5, <1>6, <1>7, <1>8 DEF IInv

(* A query begins: nothing is reported, and no block passed.               *)
LEMMA ExecuteQueryKeeps ==
  ASSUME IInv, NEW t \in Tiles, ExecuteQuery(t)
  PROVE  IInv'
<1>1. /\ tile' = t /\ query' = QueryParameters(file, t) /\ opened' = opened /\ longMax' = longMax /\ opened \in DOMAIN Files /\ longMax \in LongMaxima
      /\ Covering(file, QueryZoomLevel(file, t.zoom)) # {}
      /\ phase' = "blocks" /\ block' = [row |-> query'.fromY, column |-> query'.fromX]
      /\ water' = [is |-> TRUE, read |-> FALSE] /\ nodes' = <<>> /\ found' = <<>> /\ background' = FALSE
  BY DEF ExecuteQuery, IInv
<1>2. Queried'
  <2>1. file' = file
    BY <1>1 DEF file
  <2>2. query'.zoom = QueryZoomLevel(file, t.zoom)
    BY <1>1 DEF QueryParameters
  <2>3. QED
    BY <1>1, <2>1, <2>2 DEF Queried
<1>3. Loop' /\ NonePassed'
  <2>1. AtFirst'
    BY <1>1 DEF AtFirst
  <2>2. (Queried /\ AtFirst => Loop /\ NonePassed)'
    BY LoopBegins, PTL
  <2>3. QED
    BY <1>2, <2>1, <2>2
<1>4. ~ InBlock' /\ PoisRead' = 0 /\ WaysRead' = 0
  BY <1>1 DEF InBlock, PoisRead, WaysRead
<1>5. /\ <<>> \in Seq(Range(<<>>)) /\ DOMAIN <<>> = {} /\ IsInjective(<<>>)
  BY EmptySeq DEF IsInjective
<1>6. OnlyPois(nodes, PoisRead)' /\ OnlyWays(found, WaysRead)' /\ OnlyWhatTheTileShows'
  BY <1>1, <1>5 DEF OnlyPois, OnlyWays, OnlyWhatTheTileShows
<1>7. PassedReported'
  BY <1>3 DEF PassedReported, NonePassed
<1>8. WaterSoFar'
  BY <1>1, <1>3, <1>4 DEF WaterSoFar, Visited, NonePassed
<1>9. SoundBlocksAreReported' /\ BackgroundIsWater'
  BY <1>1 DEF SoundBlocksAreReported, BackgroundIsWater
<1>10. phase' \in Phases /\ opened' \in DOMAIN Files /\ longMax' \in LongMaxima
  BY <1>1 DEF Phases
<1>11. QED
  BY <1>2, <1>3, <1>4, <1>6, <1>7, <1>8, <1>9, <1>10 DEF IInv

(* Nothing is said of what follows an undefined step.                      *)
LEMMA ExecuteQueryUncoveredKeeps ==
  ASSUME IInv, NEW t \in Tiles, ExecuteQueryUncovered(t)
  PROVE  IInv'
<1>1. phase' = "undefined" /\ opened' \in DOMAIN Files /\ longMax' \in LongMaxima
  BY DEF ExecuteQueryUncovered, IInv
<1>2. ~ IsQueried' /\ ~ InQuery' /\ ~ InBlock' /\ phase' \in Phases
  BY <1>1 DEF IsQueried, InQuery, InBlock, Phases
<1>3. OnlyWhatTheTileShows' /\ SoundBlocksAreReported' /\ BackgroundIsWater'
  BY <1>1, <1>2 DEF OnlyWhatTheTileShows, SoundBlocksAreReported, BackgroundIsWater
<1>4. QED
  BY <1>1, <1>2, <1>3 DEF IInv

(* It holds before the first query.                                        *)
LEMMA InitIs ==
  ASSUME Init
  PROVE  IInv
<1>1. phase = "idle" /\ opened \in DOMAIN Files /\ longMax \in LongMaxima
  BY DEF Init
<1>2. ~ IsQueried /\ ~ InQuery /\ ~ InBlock /\ phase \in Phases
  BY <1>1 DEF IsQueried, InQuery, InBlock, Phases
<1>3. OnlyWhatTheTileShows /\ SoundBlocksAreReported /\ BackgroundIsWater
  BY <1>1, <1>2 DEF OnlyWhatTheTileShows, SoundBlocksAreReported, BackgroundIsWater
<1>4. QED
  BY <1>1, <1>2, <1>3 DEF IInv

(* A step that changes nothing keeps it.                                   *)
LEMMA StutterKeeps ==
  ASSUME IInv, UNCHANGED vars
  PROVE  IInv'
<1>1. UNCHANGED <<opened, longMax, tile, query, phase, block, pois, ways, water, nodes, found, background>>
  BY DEF vars
<1>2. /\ BlocksOfTile' = BlocksOfTile /\ (Queried' <=> Queried) /\ Width' = Width
      /\ SubFile' = SubFile /\ file' = file
      /\ \A n : /\ Entry(n)' = Entry(n) /\ PoisOfTile(n)' = PoisOfTile(n) /\ WaysOfTile(n)' = WaysOfTile(n)
                /\ \A k : PoiOf(n, k)' = PoiOf(n, k) /\ WayOf(n, k)' = WayOf(n, k)
                /\ IsSound(n)' <=> IsSound(n)
      /\ \A rows, kind : Cumulated(rows, kind)' = Cumulated(rows, kind)
  BY <1>1, SameQuery
<1>3. /\ Number' = Number /\ (InBlock' <=> InBlock) /\ (InQuery' <=> InQuery) /\ (IsQueried' <=> IsQueried)
      /\ (AtBlock' <=> AtBlock) /\ (Loop' <=> Loop)
      /\ \A n : Passed(n)' <=> Passed(n)
  BY <1>1, <1>2 DEF Number, InBlock, InQuery, IsQueried, AtBlock, Loop, Passed
<1>4. AllPois' = AllPois /\ AllWays' = AllWays /\ PoisRead' = PoisRead /\ WaysRead' = WaysRead
  BY <1>1, <1>2, <1>3 DEF AllPois, AllWays, PoisRead, WaysRead
<1>5. /\ OnlyWhatTheTileShows' <=> OnlyWhatTheTileShows
      /\ BackgroundIsWater' <=> BackgroundIsWater
      /\ SoundBlocksAreReported' <=> SoundBlocksAreReported
  <2>1. OnlyWhatTheTileShows' <=> OnlyWhatTheTileShows
    BY <1>1, <1>2, <1>3 DEF OnlyWhatTheTileShows
  <2>2. BackgroundIsWater' <=> BackgroundIsWater
    BY <1>1, <1>2, <1>3 DEF BackgroundIsWater, EntryFits
  <2>3. SoundBlocksAreReported' <=> SoundBlocksAreReported
    BY <1>1, <1>2, <1>3 DEF SoundBlocksAreReported
  <2>4. QED
    BY <2>1, <2>2, <2>3
<1>6. /\ PassedReported' <=> PassedReported
      /\ WaterSoFar' <=> WaterSoFar
      /\ OnlyPois(nodes, PoisRead)' <=> OnlyPois(nodes, PoisRead)
      /\ OnlyWays(found, WaysRead)' <=> OnlyWays(found, WaysRead)
      /\ Rest' <=> Rest
      /\ ReadReported' <=> ReadReported
  <2>1. PassedReported' <=> PassedReported
    BY <1>1, <1>2, <1>3, SameBlocks DEF PassedReported
  <2>2. WaterSoFar' <=> WaterSoFar
    BY <1>1, <1>2, <1>3, SameQuery DEF WaterSoFar, Visited
  <2>3. OnlyPois(nodes, PoisRead)' <=> OnlyPois(nodes, PoisRead)
    BY <1>1, <1>2, <1>3, <1>4 DEF OnlyPois
  <2>4. OnlyWays(found, WaysRead)' <=> OnlyWays(found, WaysRead)
    BY <1>1, <1>2, <1>3, <1>4 DEF OnlyWays
  <2>5. Rest' <=> Rest
    BY <1>1, <1>2, <1>3, <1>4 DEF Rest
  <2>6. ReadReported' <=> ReadReported
    BY <1>1, <1>2, <1>3, <1>4 DEF ReadReported
  <2>7. QED
    BY <2>1, <2>2, <2>3, <2>4, <2>5, <2>6
<1>7. QED
  BY <1>1, <1>2, <1>3, <1>5, <1>6 DEF IInv

(* The invariant holds in each state.                                      *)
LEMMA SpecIInv == Spec => []IInv
<1>1. Init => IInv
  BY InitIs
<1>2. IInv /\ [Next]_vars => IInv'
  <2>1. SUFFICES ASSUME IInv, [Next]_vars PROVE IInv'
    OBVIOUS
  <2>2. CASE RefuseBlock
    BY <2>1, <2>2, RefuseBlockKeeps
  <2>3. CASE SkipBlock
    BY <2>1, <2>3, SkipBlockKeeps
  <2>4. CASE ProcessBlock
    BY <2>1, <2>4, ProcessBlockKeeps
  <2>5. CASE ReadPoi
    BY <2>1, <2>5, ReadPoiKeeps
  <2>6. CASE StartWays
    BY <2>1, <2>6, StartWaysKeeps
  <2>7. CASE ReadWay
    BY <2>1, <2>7, ReadWayKeeps
  <2>8. CASE FinishBlock
    BY <2>1, <2>8, FinishBlockKeeps
  <2>9. CASE Finish
    BY <2>1, <2>9, FinishKeeps
  <2>10. CASE \E t \in Tiles : ExecuteQuery(t) \/ ExecuteQueryUncovered(t)
    BY <2>1, <2>10, ExecuteQueryKeeps, ExecuteQueryUncoveredKeeps
  <2>11. CASE UNCHANGED vars
    BY <2>1, <2>11, StutterKeeps
  <2>12. QED
    BY <2>1, <2>2, <2>3, <2>4, <2>5, <2>6, <2>7, <2>8, <2>9, <2>10, <2>11 DEF Next
<1>3. QED
  BY <1>1, <1>2, PTL DEF Spec

-----------------------------------------------------------------------------
(* The calls of the loader by processPOIs and processWays: each element of *)
(* the file is reported at most once in a query, and only if the tile      *)
(* shows it, whatever is damaged.                                          *)
THEOREM SpecOnlyWhatTheTileShows == Spec => []OnlyWhatTheTileShows
<1>1. IInv => OnlyWhatTheTileShows
  BY DEF IInv
<1>2. QED
  BY <1>1, SpecIInv, PTL

(* executeQuery and processBlocks: a query that goes to its end has        *)
(* reported all that the tile shows of each sound block, and one that is   *)
(* broken off has met a block that is not sound.                           *)
THEOREM SpecSoundBlocksAreReported == Spec => []SoundBlocksAreReported
<1>1. IInv => SoundBlocksAreReported
  BY DEF IInv
<1>2. QED
  BY <1>1, SpecIInv, PTL

(* renderWaterBackground is called exactly where there are blocks for the  *)
(* tile, all of them of water, and the query goes to its end.              *)
THEOREM SpecBackgroundIsWater == Spec => []BackgroundIsWater
<1>1. IInv => BackgroundIsWater
  BY DEF IInv
<1>2. QED
  BY <1>1, SpecIInv, PTL
=============================================================================
