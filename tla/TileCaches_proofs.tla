-------------------------- MODULE TileCaches_proofs --------------------------
(***************************************************************************)
(* Proofs about TileCaches, for any sources, tiles, addresses, capacities  *)
(* and numbers of uses.                                                    *)
(***************************************************************************)
EXTENDS TileCaches, FiniteSetTheorems, TLAPS

Images == [source : Sources, tile : Tiles, web : BOOLEAN, of : Sources,
           state : ImageStates, used : 0..MaxTime]

-----------------------------------------------------------------------------
(* The inductive invariant.                                                *)

\* An image that may still load is waited for by the database cache of its
\* source, and loads the data of that source.
WaitedFor(im, a, waits) ==
  im[a].state \in {"loading", "retrying"} => <<im[a].source, a>> \in waits /\ im[a].of = im[a].source
Waited == \A a \in DOMAIN images : WaitedFor(images, a, observed)

ImagesTyped ==
  /\ DOMAIN images \subseteq Addresses
  /\ \A a \in DOMAIN images : images[a] \in Images
Held == screen \union left \union Range(memory) \subseteq DOMAIN images
OwnImages ==
  \A t \in DOMAIN memory : images[memory[t]].tile = t /\ images[memory[t]].source = source
ImagesInv == ImagesTyped /\ Held /\ OwnImages /\ NoCancelledImageCached /\ Waited

MemoryInv == IsFiniteSet(DOMAIN memory) /\ Cardinality(DOMAIN memory) <= MemoryCapacity

\* One database: its rows are typed, and within the capacity.
Table(f) ==
  /\ IsFiniteSet(DOMAIN f)
  /\ RowCapacity # 0 => Cardinality(DOMAIN f) <= RowCapacity
  /\ \A t \in DOMAIN f : t \in Tiles /\ f[t] \in [of : Sources, used : 0..MaxTime]
RowsInv == DOMAIN rows = Sources /\ \A s \in Sources : Table(rows[s])

Others == source \in Sources /\ clock \in 0..MaxTime /\ observed \subseteq Sources \X Addresses

IInv == Others /\ ImagesInv /\ MemoryInv /\ RowsInv

-----------------------------------------------------------------------------
(* Lemmas on the operators of the caches.                                  *)

(* The larger of two numbers.                                              *)
LEMMA MaxOfTwo ==
  ASSUME NEW a \in Int, NEW b \in Int
  PROVE  Max({a, b}) \in {a, b} /\ Max({a, b}) >= a /\ Max({a, b}) >= b
<1>1. \E x \in {a, b} : \A y \in {a, b} : x >= y
  <2>1. CASE a >= b
    BY <2>1
  <2>2. CASE b >= a
    BY <2>2
  <2>3. QED
    BY <2>1, <2>2
<1>2. Max({a, b}) \in {a, b} /\ \A y \in {a, b} : Max({a, b}) >= y
  BY <1>1 DEF Max
<1>3. QED
  BY <1>2

(* makeSpaceInCache leaves room for one more image.                        *)
LEMMA MakeSpaceLeavesRoom ==
  ASSUME MemoryInv, NEW kept \in MakeSpaceInCache
  PROVE  /\ kept \subseteq DOMAIN memory /\ IsFiniteSet(kept)
         /\ Cardinality(kept) \in Nat /\ Cardinality(kept) + 1 <= MemoryCapacity
<1> DEFINE n == Cardinality(DOMAIN memory)
<1>1. n \in Nat /\ n <= MemoryCapacity /\ MemoryCapacity \in Nat \ {0}
  BY FS_CardinalityType, TileCachesAssumption DEF MemoryInv
<1>2. kept \subseteq DOMAIN memory /\ Cardinality(kept) = IF n >= MemoryCapacity THEN MemoryCapacity - 1 ELSE n
  BY DEF MakeSpaceInCache, MostRecent, UsesInMemory
<1>3. IsFiniteSet(kept)
  BY <1>2, FS_Subset DEF MemoryInv
<1>4. QED
  BY <1>1, <1>2, <1>3

(* purgeTiles: leaves room for one more row.                               *)
LEMMA PurgeLeavesRoom ==
  ASSUME NEW s \in Sources, Table(rows[s]), NEW k \in KeptRows(s)
  PROVE  /\ k \subseteq DOMAIN rows[s] /\ IsFiniteSet(k) /\ Cardinality(k) \in Nat
         /\ RowCapacity # 0 => Cardinality(k) + 1 <= RowCapacity
<1> DEFINE n == Cardinality(DOMAIN rows[s])
           purge == IF RowCapacity # 0 /\ RowCapacity <= n
                    THEN Max({MinimalPurge, 1 + n - RowCapacity}) ELSE 0
<1>1. n \in Nat /\ RowCapacity \in Nat /\ MinimalPurge \in Nat
  BY FS_CardinalityType, TileCachesAssumption DEF Table
<1>2. k \subseteq DOMAIN rows[s] /\ Cardinality(k) = Less(n, purge)
  BY DEF KeptRows, MostRecent
<1>3. IsFiniteSet(k) /\ Cardinality(k) \in Nat
  BY <1>2, FS_Subset, FS_CardinalityType DEF Table
<1>4. ASSUME RowCapacity # 0 PROVE Less(n, purge) + 1 <= RowCapacity
  <2>1. CASE RowCapacity <= n
    <3>1. purge = Max({MinimalPurge, 1 + n - RowCapacity})
      BY <1>4, <2>1
    <3>2. purge \in {MinimalPurge, 1 + n - RowCapacity} /\ purge >= 1 + n - RowCapacity
      <4>1. MinimalPurge \in Int /\ 1 + n - RowCapacity \in Int
        BY <1>1
      <4>2. QED
        BY <3>1, <4>1, MaxOfTwo
    <3> HIDE DEF purge, n
    <3>3. QED
      BY <1>1, <1>4, <2>1, <3>2 DEF Less
  <2>2. CASE n < RowCapacity
    <3>1. purge = 0
      BY <1>1, <2>2
    <3>2. QED
      BY <1>1, <2>2, <3>1 DEF Less
  <2>3. QED
    BY <1>1, <2>1, <2>2
<1>5. QED
  BY <1>2, <1>3, <1>4

(* addImageData: stores the data of the image, within the capacity.        *)
LEMMA AddImageDataStores ==
  ASSUME NEW s \in Sources, Table(rows[s]), NEW a, images[a] \in Images, NEW f \in AddImageData(s, a)
  PROVE  Table(f) /\ images[a].tile \in DOMAIN f /\ f[images[a].tile].of = images[a].of
<1> DEFINE t == images[a].tile
           row == [of |-> images[a].of, used |-> images[a].used]
<1>1. PICK k \in KeptRows(s) : f = Put(Restrict(rows[s], k), t, row)
  BY DEF AddImageData
<1>2. t \in Tiles /\ row \in [of : Sources, used : 0..MaxTime] /\ row.of = images[a].of
  BY DEF Images
<1> HIDE DEF t, row
<1>3. DOMAIN f = k \union {t} /\ f[t] = row /\ \A u \in k : f[u] = IF u = t THEN row ELSE rows[s][u]
  BY <1>1 DEF Put, Restrict
<1>4. /\ k \subseteq DOMAIN rows[s] /\ IsFiniteSet(k) /\ Cardinality(k) \in Nat
      /\ RowCapacity # 0 => Cardinality(k) + 1 <= RowCapacity
  BY <1>1, PurgeLeavesRoom
<1>5. IsFiniteSet(DOMAIN f) /\ (RowCapacity # 0 => Cardinality(DOMAIN f) <= RowCapacity)
  <2>1. /\ IsFiniteSet(k \union {t})
        /\ Cardinality(k \union {t}) = IF t \in k THEN Cardinality(k) ELSE Cardinality(k) + 1
    BY <1>4, FS_AddElement
  <2>2. RowCapacity \in Nat
    BY TileCachesAssumption
  <2>3. QED
    BY <1>3, <1>4, <2>1, <2>2
<1>6. \A u \in DOMAIN f : u \in Tiles /\ f[u] \in [of : Sources, used : 0..MaxTime]
  BY <1>2, <1>3, <1>4 DEF Table
<1>7. QED
  BY <1>2, <1>3, <1>5, <1>6 DEF Table, t

(* What an action must show of the images im it leaves before those that   *)
(* nothing retains are freed.                                              *)
Leaves(im) ==
  /\ DOMAIN im \subseteq Addresses /\ \A a \in DOMAIN im : im[a] \in Images
  /\ screen' \union left' \union Range(memory') \subseteq DOMAIN im
  /\ \A t \in DOMAIN memory' : /\ im[memory'[t]].tile = t /\ im[memory'[t]].source = source'
                               /\ im[memory'[t]].state # "cancelled"
  /\ \A a \in DOMAIN im : WaitedFor(im, a, observed')

(* Freeing what nothing retains keeps what was shown of the images.        *)
LEMMA ImagesAreKept ==
  ASSUME NEW im, ImagesAre(im), Leaves(im)
  PROVE  ImagesInv'
<1>1. /\ DOMAIN images' \subseteq DOMAIN im /\ \A a \in DOMAIN images' : images'[a] = im[a]
      /\ \A a \in DOMAIN im : a \in screen' \union left' \union Range(memory') => a \in DOMAIN images'
  BY DEF ImagesAre, Restrict, Retained
<1>2. ImagesTyped' /\ Held'
  BY <1>1 DEF Leaves, ImagesTyped, Held
<1>3. \A t \in DOMAIN memory' : memory'[t] \in DOMAIN images' /\ images'[memory'[t]] = im[memory'[t]]
  BY <1>1, <1>2 DEF Held, Range
<1>4. OwnImages' /\ NoCancelledImageCached'
  BY <1>3 DEF Leaves, OwnImages, NoCancelledImageCached
<1>5. Waited'
  BY <1>1 DEF Leaves, Waited, WaitedFor
<1>6. QED
  BY <1>2, <1>4, <1>5 DEF ImagesInv

-----------------------------------------------------------------------------
(* Each action keeps the invariant.                                        *)

(* cancelLoading of some images, in whichever caches the map then has.     *)
LEMMA CancelKeeps ==
  ASSUME IInv, NEW as, NEW mem, Cancel(as, mem), source' \in Sources,
         (mem = memory /\ source' = source) \/ mem = Empty,
         as \subseteq DOMAIN images, screen' \subseteq screen, observed' = observed
  PROVE  ImagesInv' /\ MemoryInv'
<1> DEFINE tiles == {images[a].tile : a \in {b \in as : Announces(b)}}
           im == [a \in DOMAIN images |->
                    IF a \in as /\ images[a].state = "loading" THEN [images[a] EXCEPT !.state = "cancelled"]
                    ELSE images[a]]
           gone == IF mem = memory THEN {} ELSE Range(memory)
<1>1. /\ memory' = Restrict(mem, DOMAIN mem \ tiles)
      /\ left' = {a \in left \union gone : images[a].tile \notin tiles}
      /\ ImagesAre(im)
  BY DEF Cancel
<1>2. \A a \in as : images[a].state = "loading" => images[a].tile \in tiles
  BY DEF Announces
<1>3. /\ DOMAIN im = DOMAIN images
      /\ \A a \in DOMAIN images : /\ im[a] \in Images /\ im[a].tile = images[a].tile
                                  /\ im[a].source = images[a].source /\ im[a].of = images[a].of
                                  /\ im[a].state # images[a].state =>
                                       images[a].state = "loading" /\ a \in as /\ im[a].state = "cancelled"
  <2>1. ASSUME NEW a \in DOMAIN images
        PROVE  /\ im[a] \in Images /\ im[a].tile = images[a].tile
               /\ im[a].source = images[a].source /\ im[a].of = images[a].of
               /\ im[a].state # images[a].state =>
                    images[a].state = "loading" /\ a \in as /\ im[a].state = "cancelled"
    <3>1. images[a] \in Images
      BY DEF IInv, ImagesInv, ImagesTyped
    <3>2. CASE a \in as /\ images[a].state = "loading"
      <4>1. im[a] = [images[a] EXCEPT !.state = "cancelled"]
        BY <3>2
      <4> HIDE DEF im
      <4>2. QED
        BY <3>1, <3>2, <4>1 DEF Images, ImageStates
    <3>3. CASE ~(a \in as /\ images[a].state = "loading")
      BY <3>1, <3>3
    <3>4. QED
      BY <3>2, <3>3
  <2>2. QED
    BY <2>1
<1> HIDE DEF im, tiles, gone
<1>4. /\ DOMAIN memory' \subseteq DOMAIN mem /\ \A t \in DOMAIN memory' : memory'[t] = mem[t] /\ t \notin tiles
  BY <1>1 DEF Restrict
<1>5. DOMAIN memory' = {} \/ (mem = memory /\ source' = source)
  BY <1>4 DEF Empty
<1>6. gone \subseteq Range(memory)
  BY DEF gone
<1>7. Leaves(im)
  <2>1. DOMAIN im \subseteq Addresses /\ \A a \in DOMAIN im : im[a] \in Images
    BY <1>3 DEF IInv, ImagesInv, ImagesTyped
  <2>2. screen' \union left' \union Range(memory') \subseteq DOMAIN im
    <3>1. screen \union left \union Range(memory) \subseteq DOMAIN images
      BY DEF IInv, ImagesInv, Held
    <3>2. left' \subseteq left \union gone
      BY <1>1
    <3>3. Range(memory') \subseteq Range(memory)
      BY <1>4, <1>5 DEF Range
    <3>4. QED
      BY <1>3, <1>6, <3>1, <3>2, <3>3
  <2>3. ASSUME NEW t \in DOMAIN memory'
        PROVE  /\ im[memory'[t]].tile = t /\ im[memory'[t]].source = source'
               /\ im[memory'[t]].state # "cancelled"
    <3>1. t \in DOMAIN memory /\ memory'[t] = memory[t] /\ source' = source /\ t \notin tiles
      BY <1>4, <1>5
    <3>2. memory[t] \in DOMAIN images /\ images[memory[t]].tile = t /\ images[memory[t]].source = source
          /\ images[memory[t]].state # "cancelled"
      BY <3>1 DEF IInv, ImagesInv, OwnImages, NoCancelledImageCached, Held, Range
    <3>3. QED
      BY <1>2, <1>3, <3>1, <3>2
  <2>4. \A a \in DOMAIN im : WaitedFor(im, a, observed')
    BY <1>3 DEF IInv, ImagesInv, Waited, WaitedFor
  <2>5. QED
    BY <2>1, <2>2, <2>3, <2>4 DEF Leaves
<1>8. MemoryInv'
  <2>1. DOMAIN memory' \subseteq DOMAIN memory
    BY <1>4, <1>5
  <2>2. QED
    BY <2>1, FS_Subset, FS_CardinalityType, TileCachesAssumption DEF IInv, MemoryInv
<1>9. QED
  BY <1>1, <1>7, <1>8, ImagesAreKept

(* A use of an image changes the date only.                                *)
LEMMA UsedNow ==
  ASSUME NEW image \in Images, clock' \in 0..MaxTime
  PROVE  LET now == [image EXCEPT !.used = clock'] IN
         /\ now \in Images /\ now.tile = image.tile /\ now.source = image.source
         /\ now.of = image.of /\ now.state = image.state
BY DEF Images

(* A request answered by the memory cache.                                 *)
LEMMA FromMemoryKeeps ==
  ASSUME IInv, NEW t \in Tiles, NEW needed \in BOOLEAN, FromMemory(t, needed), Tick, UNCHANGED <<source, left>>
  PROVE  IInv'
<1>1. Others' /\ MemoryInv' /\ RowsInv' /\ clock' \in 0..MaxTime
  BY TileCachesAssumption DEF FromMemory, Tick, IInv, Others, MemoryInv, RowsInv
<1>2. CASE UNCHANGED <<screen, images>>
  BY <1>1, <1>2 DEF FromMemory, IInv, ImagesInv, ImagesTyped, Held, OwnImages, NoCancelledImageCached, Waited
<1>3. CASE screen' = screen \union {memory[t]} /\ ImagesAre([images EXCEPT ![memory[t]].used = clock'])
  <2> DEFINE im == [images EXCEPT ![memory[t]].used = clock']
  <2>1. t \in DOMAIN memory /\ UNCHANGED <<memory, observed, source, left>>
    BY DEF FromMemory
  <2>2. memory[t] \in DOMAIN images
    BY <2>1 DEF IInv, ImagesInv, Held, Range
  <2>3. /\ DOMAIN im = DOMAIN images
        /\ \A a \in DOMAIN images : im[a] = IF a = memory[t] THEN [images[a] EXCEPT !.used = clock'] ELSE images[a]
    BY <2>2
  <2>4. ImagesAre(im)
    BY <1>3
  <2> HIDE DEF im
  <2>5. \A a \in DOMAIN images : /\ im[a] \in Images /\ im[a].tile = images[a].tile
                                 /\ im[a].source = images[a].source
                                 /\ im[a].of = images[a].of /\ im[a].state = images[a].state
    <3>1. \A a \in DOMAIN images : images[a] \in Images
      BY DEF IInv, ImagesInv, ImagesTyped
    <3>2. clock' \in 0..MaxTime
      BY <1>1
    <3>3. QED
      BY ONLY <2>2, <2>3, <3>1, <3>2, UsedNow
  <2>6. Leaves(im)
    BY <1>3, <2>1, <2>2, <2>3, <2>5 DEF Leaves, WaitedFor, IInv, ImagesInv, ImagesTyped, Held, OwnImages,
       NoCancelledImageCached, Waited, Range
  <2>7. QED
    BY <1>1, <2>4, <2>6, ImagesAreKept DEF IInv
<1>4. QED
  BY <1>2, <1>3 DEF FromMemory

(* touchTile:withDate: changes at most the date of a row.                  *)
LEMMA TouchRowKeeps ==
  ASSUME IInv, NEW t, rows' = TouchRow(t), clock' \in 0..MaxTime
  PROVE  RowsInv'
<1> DEFINE u == TouchedTile(t)
<1>1. CASE rows' = rows
  BY <1>1 DEF IInv, RowsInv
<1>2. CASE u \in DOMAIN rows[source] /\ rows' = [rows EXCEPT ![source][u].used = clock']
  <2> HIDE DEF u
  <2>1. source \in Sources /\ DOMAIN rows = Sources /\ \A s \in Sources : Table(rows[s])
    BY DEF IInv, Others, RowsInv
  <2>2. /\ DOMAIN rows' = Sources /\ \A s \in Sources : s # source => rows'[s] = rows[s]
        /\ rows'[source] = [rows[source] EXCEPT ![u].used = clock']
    BY <1>2, <2>1
  <2>3. DOMAIN rows'[source] = DOMAIN rows[source]
        /\ \A v \in DOMAIN rows[source] : rows'[source][v] =
             IF v = u THEN [rows[source][u] EXCEPT !.used = clock'] ELSE rows[source][v]
    BY <2>2
  <2>4. \A v \in DOMAIN rows[source] : rows'[source][v] \in [of : Sources, used : 0..MaxTime]
    <3>1. \A v \in DOMAIN rows[source] : rows[source][v] \in [of : Sources, used : 0..MaxTime]
      BY <2>1 DEF Table
    <3>2. [rows[source][u] EXCEPT !.used = clock'] \in [of : Sources, used : 0..MaxTime]
      BY <1>2, <3>1
    <3>3. QED
      BY <2>3, <3>1, <3>2
  <2>5. Table(rows'[source])
    BY <2>1, <2>3, <2>4 DEF Table
  <2>6. QED
    BY <2>1, <2>2, <2>5 DEF RowsInv
<1>3. QED
  BY <1>1, <1>2 DEF TouchRow

(* A request answered by the database: the image is shown already.         *)
LEMMA FromDatabaseKeeps ==
  ASSUME IInv, NEW t \in Tiles, NEW needed \in BOOLEAN, FromDatabase(t, needed), Tick,
         UNCHANGED <<source, left>>
  PROVE  IInv'
<1>1. /\ t \in DOMAIN rows[source] /\ rows' = TouchRow(t) /\ UNCHANGED <<memory, observed, source, left>>
      /\ clock' \in 0..MaxTime
  BY TileCachesAssumption DEF FromDatabase, Tick, IInv, Others
<1>2. Others' /\ MemoryInv' /\ RowsInv'
  BY <1>1, TouchRowKeeps DEF IInv, Others, MemoryInv
<1>3. PICK a \in Addresses \ DOMAIN images :
        /\ screen' = IF needed THEN screen \union {a} ELSE screen
        /\ ImagesAre(Put(images, a, Image(source, t, FALSE, rows[source][t].of, "shown")))
  BY DEF FromDatabase
<1> DEFINE image == Image(source, t, FALSE, rows[source][t].of, "shown")
           im == Put(images, a, image)
<1>4. image \in Images /\ image.state = "shown"
  <2>1. rows[source][t].of \in Sources /\ source \in Sources
    BY <1>1 DEF IInv, Others, RowsInv, Table
  <2>2. QED
    BY <1>1, <2>1 DEF ImageStates, Image, Images
<1> HIDE DEF image
<1>5. /\ DOMAIN im = DOMAIN images \union {a} /\ im[a] = image
      /\ \A b \in DOMAIN images : im[b] = images[b]
  BY <1>3 DEF Put
<1>6. ImagesAre(im)
  BY <1>3 DEF image
<1> HIDE DEF im
<1>7. Leaves(im)
  BY <1>1, <1>3, <1>4, <1>5 DEF Leaves, WaitedFor, IInv, ImagesInv, ImagesTyped, Held, OwnImages,
     NoCancelledImageCached, Waited, Range
<1>8. QED
  BY <1>2, <1>6, <1>7, ImagesAreKept DEF IInv

(* A request answered by the source below: a new image, which loads, and   *)
(* for which the memory cache makes room.                                  *)
LEMMA FromSourceKeeps ==
  ASSUME IInv, NEW t \in Tiles, NEW needed \in BOOLEAN, FromSource(t, needed), Tick,
         UNCHANGED <<source, left>>
  PROVE  IInv'
<1>1. UNCHANGED <<source, left>> /\ clock' \in 0..MaxTime /\ source \in Sources
  BY TileCachesAssumption DEF Tick, IInv, Others
<1>2. PICK a \in Addresses \ DOMAIN images, kept \in MakeSpaceInCache :
        /\ screen' = IF needed THEN screen \union {a} ELSE screen
        /\ memory' = Put(Restrict(memory, kept), t, a)
        /\ observed' = observed \union {<<source, a>>}
        /\ ImagesAre(Put(images, a, Image(source, t, TRUE, source, "loading")))
  BY DEF FromSource
<1>0. RowsInv'
  <2>1. CASE t \in DOMAIN rows[source]
    BY <1>1, <2>1, TouchRowKeeps DEF FromSource, IInv
  <2>2. CASE rows' = rows
    BY <2>2 DEF IInv, RowsInv
  <2>3. QED
    BY <2>1, <2>2 DEF FromSource
<1>3. Others' /\ RowsInv'
  BY <1>0, <1>1, <1>2 DEF IInv, Others
<1> DEFINE image == Image(source, t, TRUE, source, "loading")
           im == Put(images, a, image)
<1>4. /\ image \in Images /\ image.state = "loading" /\ image.source = source /\ image.of = source
      /\ image.tile = t
  BY <1>1 DEF ImageStates, Image, Images
<1> HIDE DEF image
<1>5. /\ DOMAIN im = DOMAIN images \union {a} /\ im[a] = image
      /\ \A b \in DOMAIN images : im[b] = images[b]
  BY <1>2 DEF Put
<1>6. ImagesAre(im)
  BY <1>2 DEF image
<1> HIDE DEF im
<1>7. /\ kept \subseteq DOMAIN memory /\ IsFiniteSet(kept)
      /\ Cardinality(kept) \in Nat /\ Cardinality(kept) + 1 <= MemoryCapacity
  BY <1>2, MakeSpaceLeavesRoom DEF IInv
<1>8. /\ DOMAIN memory' = kept \union {t} /\ memory'[t] = a
      /\ \A u \in DOMAIN memory' : u = t \/ (u \in DOMAIN memory /\ memory'[u] = memory[u])
  BY <1>2, <1>7 DEF Put, Restrict
<1>9. Leaves(im)
  <2>1. screen' \union left' \union Range(memory') \subseteq DOMAIN im
    <3>1. Range(memory') \subseteq Range(memory) \union {a}
      BY <1>8 DEF Range
    <3>2. screen' \subseteq screen \union {a}
      BY <1>2
    <3>3. QED
      BY <1>1, <1>5, <3>1, <3>2 DEF IInv, ImagesInv, Held
  <2>2. ASSUME NEW u \in DOMAIN memory'
        PROVE  /\ im[memory'[u]].tile = u /\ im[memory'[u]].source = source'
               /\ im[memory'[u]].state # "cancelled"
    <3>1. CASE u = t
      BY <1>1, <1>4, <1>5, <1>8, <3>1
    <3>2. CASE u \in DOMAIN memory /\ memory'[u] = memory[u]
      BY <1>1, <1>5, <3>2 DEF IInv, ImagesInv, OwnImages, NoCancelledImageCached, Held, Range
    <3>3. QED
      BY <1>8, <3>1, <3>2
  <2>3. \A b \in DOMAIN im : WaitedFor(im, b, observed')
    BY <1>2, <1>4, <1>5 DEF WaitedFor, IInv, ImagesInv, Waited
  <2>4. DOMAIN im \subseteq Addresses /\ \A b \in DOMAIN im : im[b] \in Images
    BY <1>4, <1>5 DEF IInv, ImagesInv, ImagesTyped
  <2>5. QED
    BY <2>1, <2>2, <2>3, <2>4 DEF Leaves
<1>10. MemoryInv'
  <2>1. /\ IsFiniteSet(kept \union {t})
        /\ Cardinality(kept \union {t}) = IF t \in kept THEN Cardinality(kept) ELSE Cardinality(kept) + 1
    BY <1>7, FS_AddElement
  <2>2. MemoryCapacity \in Nat
    BY TileCachesAssumption
  <2>3. QED
    BY <1>7, <1>8, <2>1, <2>2 DEF MemoryInv
<1>11. QED
  BY <1>3, <1>6, <1>9, <1>10, ImagesAreKept DEF IInv

(* setScreenLocation: touches the images of the screen.                    *)
LEMMA MoveScreenKeeps ==
  ASSUME IInv, MoveScreen
  PROVE  IInv'
<1>1. clock' \in 0..MaxTime /\ UNCHANGED <<source, screen, memory, left, observed, rows>>
  BY TileCachesAssumption DEF MoveScreen, Tick, IInv, Others
<1>2. DOMAIN images' = DOMAIN images
      /\ \A a \in DOMAIN images : images'[a] =
           IF a \in screen THEN [images[a] EXCEPT !.used = clock'] ELSE images[a]
  BY DEF MoveScreen
<1>3. \A a \in DOMAIN images : /\ images'[a] \in Images /\ images'[a].tile = images[a].tile
                               /\ images'[a].source = images[a].source
                               /\ images'[a].of = images[a].of /\ images'[a].state = images[a].state
  <2>1. \A a \in DOMAIN images : images[a] \in Images
    BY DEF IInv, ImagesInv, ImagesTyped
  <2>2. QED
    BY <1>1, <1>2, <2>1, UsedNow
<1>4. ImagesInv'
  <2>1. ImagesTyped' /\ Held'
    BY <1>1, <1>2, <1>3 DEF IInv, ImagesInv, ImagesTyped, Held
  <2>2. \A t \in DOMAIN memory : memory[t] \in DOMAIN images
    BY DEF IInv, ImagesInv, Held, Range
  <2>3. OwnImages' /\ NoCancelledImageCached' /\ Waited'
    BY <1>1, <1>2, <1>3, <2>2 DEF IInv, ImagesInv, OwnImages, NoCancelledImageCached, Waited, WaitedFor
  <2>4. QED
    BY <2>1, <2>3 DEF ImagesInv
<1>5. QED
  BY <1>1, <1>4 DEF IInv, Others, MemoryInv, RowsInv

(* An image changes its state, and with its address nothing else.          *)
LEMMA StateChanges ==
  ASSUME IInv, NEW a \in DOMAIN images, NEW state \in ImageStates \ {"cancelled"},
         ImagesAre([images EXCEPT ![a].state = state]), UNCHANGED <<source, screen, memory, left>>,
         \A b \in DOMAIN images : IF b = a
            THEN state \in {"loading", "retrying"} =>
                   images[a].state \in {"loading", "retrying"} /\ observed' = observed
            ELSE <<images[b].source, b>> \in observed => <<images[b].source, b>> \in observed'
  PROVE  ImagesInv' /\ MemoryInv'
<1> DEFINE im == [images EXCEPT ![a].state = state]
<1>1. ImagesAre(im)
  OBVIOUS
<1>2. /\ DOMAIN im = DOMAIN images /\ im[a] = [images[a] EXCEPT !.state = state]
      /\ \A b \in DOMAIN images : b # a => im[b] = images[b]
  OBVIOUS
<1> HIDE DEF im
<1>3. images[a] \in Images
  BY DEF IInv, ImagesInv, ImagesTyped
<1>4. /\ im[a] \in Images /\ im[a].tile = images[a].tile /\ im[a].source = images[a].source
      /\ im[a].of = images[a].of /\ im[a].state = state
  BY <1>2, <1>3 DEF Images
<1>5. Leaves(im)
  <2>1. DOMAIN im \subseteq Addresses /\ \A b \in DOMAIN im : im[b] \in Images
    BY <1>2, <1>4 DEF IInv, ImagesInv, ImagesTyped
  <2>2. screen' \union left' \union Range(memory') \subseteq DOMAIN im
    BY <1>2 DEF IInv, ImagesInv, Held
  <2>3. ASSUME NEW t \in DOMAIN memory'
        PROVE  /\ im[memory'[t]].tile = t /\ im[memory'[t]].source = source'
               /\ im[memory'[t]].state # "cancelled"
    <3>1. /\ t \in DOMAIN memory /\ memory'[t] = memory[t] /\ source' = source
      OBVIOUS
    <3>2. /\ memory[t] \in DOMAIN images /\ images[memory[t]].tile = t
          /\ images[memory[t]].source = source /\ images[memory[t]].state # "cancelled"
      BY <3>1 DEF IInv, ImagesInv, OwnImages, NoCancelledImageCached, Held, Range
    <3>3. QED
      BY <1>2, <1>4, <3>1, <3>2
  <2>4. ASSUME NEW b \in DOMAIN im PROVE WaitedFor(im, b, observed')
    <3>1. WaitedFor(images, b, observed)
      BY <1>2, <2>4 DEF IInv, ImagesInv, Waited
    <3>2. CASE b = a
      BY <1>4, <3>1, <3>2 DEF WaitedFor
    <3>3. CASE b # a
      BY <1>2, <3>1, <3>3 DEF WaitedFor
    <3>4. QED
      BY <3>2, <3>3
  <2>5. QED
    BY <2>1, <2>2, <2>3, <2>4 DEF Leaves
<1>6. MemoryInv'
  BY DEF IInv, MemoryInv
<1>7. QED
  BY <1>1, <1>5, <1>6, ImagesAreKept

(* The database caches that waited for an image store its data.            *)
LEMMA LoadedKeeps ==
  ASSUME IInv, NEW a \in DOMAIN images, Loaded(a)
  PROVE  /\ IInv'
         /\ images[a].tile \in DOMAIN rows'[images[a].source]
         /\ rows'[images[a].source][images[a].tile].of = images[a].source
<1>1. /\ images[a].state = "loading" /\ observed' = {w \in observed : w[2] # a}
      /\ UNCHANGED <<source, screen, memory, left, clock>>
      /\ ImagesAre([images EXCEPT ![a].state = "shown"])
      /\ DOMAIN rows' = Sources
      /\ \A s \in Sources : IF <<s, a>> \in observed THEN rows'[s] \in AddImageData(s, a)
                             ELSE rows'[s] = rows[s]
  BY DEF Loaded
<1>2. images[a] \in Images /\ DOMAIN rows = Sources /\ \A s \in Sources : Table(rows[s])
  BY DEF IInv, ImagesInv, ImagesTyped, RowsInv
<1>3. \A s \in Sources : Table(rows'[s])
  BY <1>1, <1>2, AddImageDataStores
<1>4. Others' /\ RowsInv'
  BY <1>1, <1>3 DEF IInv, Others, RowsInv
<1>5. ImagesInv' /\ MemoryInv'
  <2>1. ASSUME NEW b \in DOMAIN images, b # a, <<images[b].source, b>> \in observed
        PROVE  <<images[b].source, b>> \in observed'
    BY <1>1, <2>1
  <2>2. "shown" \in ImageStates \ {"cancelled"}
    BY DEF ImageStates
  <2>3. QED
    BY <1>1, <2>1, <2>2, StateChanges
<1>6. images[a].source \in Sources /\ <<images[a].source, a>> \in observed /\ images[a].of = images[a].source
  BY <1>1, <1>2 DEF IInv, ImagesInv, Waited, WaitedFor, Images
<1>7. rows'[images[a].source] \in AddImageData(images[a].source, a)
  BY <1>1, <1>6
<1>8. QED
  BY <1>2, <1>4, <1>5, <1>6, <1>7, AddImageDataStores DEF IInv

(* A failure, and the attempt that follows it.                             *)
LEMMA BecomesKeeps ==
  ASSUME IInv, NEW a \in DOMAIN images, Failed(a) \/ StartLoading(a)
  PROVE  IInv'
<1>1. PICK state \in ImageStates \ {"cancelled"} :
        Becomes(a, state) /\ images[a].state \in {"loading", "retrying"}
  BY DEF Failed, StartLoading, ImageStates
<1>2. ImagesInv' /\ MemoryInv'
  BY <1>1, StateChanges DEF Becomes
<1>3. QED
  BY <1>1, <1>2 DEF Becomes, IInv, Others, RowsInv

(* Everything is dropped from the memory cache, and perhaps from a         *)
(* database.                                                               *)
LEMMA EmptyingKeeps ==
  ASSUME IInv, memory' = Empty, UNCHANGED <<source, screen, left, observed, clock>>, ImagesAre(images),
         rows' = rows \/ rows' = [rows EXCEPT ![source] = Empty]
  PROVE  IInv'
<1>1. DOMAIN Empty = {}
  BY DEF Empty
<1>2. Leaves(images)
  BY <1>1 DEF Leaves, IInv, ImagesInv, ImagesTyped, Held, Waited, Range
<1>3. MemoryInv'
  BY <1>1, FS_EmptySet, TileCachesAssumption DEF MemoryInv
<1>4. RowsInv'
  <2>1. Table(Empty)
    BY <1>1, FS_EmptySet, TileCachesAssumption DEF Table
  <2>2. QED
    BY <2>1 DEF IInv, RowsInv
<1>5. QED
  BY <1>2, <1>3, <1>4, ImagesAreKept DEF IInv, Others

(* The start of the program: again, with the rows of an earlier run, or    *)
(* for the first time.                                                     *)
LEMMA RestartKeeps == IInv /\ Restart => IInv'
<1> SUFFICES ASSUME IInv, Restart PROVE IInv'
  OBVIOUS
<1>1. DOMAIN Empty = {}
  BY DEF Empty
<1>2. ImagesInv'
  BY <1>1 DEF Restart, ImagesInv, ImagesTyped, Held, OwnImages, NoCancelledImageCached, Waited, Range
<1>3. MemoryInv'
  BY <1>1, FS_EmptySet, TileCachesAssumption DEF Restart, MemoryInv
<1>4. QED
  BY <1>2, <1>3 DEF Restart, IInv, Others, RowsInv

(* The invariant holds at the first start.                                 *)
LEMMA InitInv == Init => IInv
<1> SUFFICES ASSUME Init PROVE IInv
  OBVIOUS
<1>1. DOMAIN Empty = {}
  BY DEF Empty
<1>2. Table(Empty)
  BY <1>1, FS_EmptySet, TileCachesAssumption DEF Table
<1>3. RowsInv
  BY <1>2 DEF Init, RowsInv
<1>4. Others
  BY TileCachesAssumption DEF Init, Others
<1>5. ImagesInv
  BY <1>1 DEF Init, ImagesInv, ImagesTyped, Held, OwnImages, NoCancelledImageCached, Waited, Range
<1>6. MemoryInv
  BY <1>1, FS_EmptySet, TileCachesAssumption DEF Init, MemoryInv
<1>7. QED
  BY <1>3, <1>4, <1>5, <1>6 DEF IInv

(* The inductive invariant is kept by every step.                          *)
LEMMA NextInv == IInv /\ [Next]_vars => IInv'
<1> SUFFICES ASSUME IInv, [Next]_vars PROVE IInv'
  OBVIOUS
<1>1. ASSUME NEW t \in Tiles, TileImage(t) PROVE IInv'
  BY <1>1, FromMemoryKeeps, FromDatabaseKeeps, FromSourceKeeps DEF TileImage
<1>2. ASSUME NEW a \in DOMAIN images, RemoveTile(a) PROVE IInv'
  <2>1. Cancel({a}, memory) /\ screen' \subseteq screen /\ UNCHANGED <<source, observed, rows, clock>>
    BY <1>2 DEF RemoveTile
  <2>2. source' \in Sources
    BY <2>1 DEF IInv, Others
  <2>3. ImagesInv' /\ MemoryInv'
    BY <2>1, <2>2, CancelKeeps
  <2>4. QED
    BY <2>1, <2>3 DEF IInv, Others, RowsInv
<1>3. ASSUME NEW a \in DOMAIN images, Refused(a) PROVE IInv'
  <2>1. Cancel({a}, memory) /\ UNCHANGED <<source, screen, observed, rows, clock>>
    BY <1>3 DEF Refused
  <2>2. source' \in Sources
    BY <2>1 DEF IInv, Others
  <2>3. ImagesInv' /\ MemoryInv'
    BY <2>1, <2>2, CancelKeeps
  <2>4. QED
    BY <2>1, <2>3 DEF IInv, Others, RowsInv
<1>4. ASSUME NEW s \in Sources, SetTileSource(s) PROVE IInv'
  <2>1. /\ Cancel(screen, Empty) /\ source' = s /\ screen' = {} /\ UNCHANGED <<observed, rows, clock>>
    BY <1>4 DEF SetTileSource
  <2>2. screen \subseteq DOMAIN images
    BY DEF IInv, ImagesInv, Held
  <2>3. ImagesInv' /\ MemoryInv'
    BY <2>1, <2>2, CancelKeeps
  <2>4. QED
    BY <2>1, <2>3 DEF IInv, Others, RowsInv
<1>5. CASE DidReceiveMemoryWarning \/ RemoveAllCachedImages
  BY <1>5, EmptyingKeeps DEF DidReceiveMemoryWarning, RemoveAllCachedImages
<1>6. CASE UNCHANGED vars
  BY <1>6 DEF vars, IInv, Others, ImagesInv, ImagesTyped, Held, OwnImages, NoCancelledImageCached, Waited,
     MemoryInv, RowsInv
<1>7. QED
  BY <1>1, <1>2, <1>3, <1>4, <1>5, <1>6, MoveScreenKeeps, LoadedKeeps, BecomesKeeps, RestartKeeps DEF Next

(* The inductive invariant holds of every behaviour.                       *)
THEOREM Invariance == Spec => []IInv
BY InitInv, NextInv, PTL DEF Spec

-----------------------------------------------------------------------------
(* Neither cache grows beyond its capacity, for any capacities and however *)
(* many sources, tiles and images there are, and no image that was freed   *)
(* is on the screen or in a cache.                                         *)
THEOREM SpecWithinCapacity == Spec => []WithinCapacity
<1>1. IInv => WithinCapacity
  <2> SUFFICES ASSUME IInv PROVE WithinCapacity
    OBVIOUS
  <2>1. TypeOK
    BY DEF IInv, Others, ImagesInv, ImagesTyped, Images, Held, OwnImages, RowsInv, Table, TypeOK
  <2>2. QED
    BY <2>1 DEF IInv, MemoryInv, RowsInv, Table, WithinCapacity
<1>2. QED
  BY Invariance, <1>1, PTL

(* The memory cache never holds an image whose loading was cancelled,      *)
(* whoever cancelled it and whichever source it was of.                    *)
THEOREM SpecNoCancelledImageCached == Spec => []NoCancelledImageCached
<1>1. IInv => NoCancelledImageCached
  BY DEF IInv, ImagesInv
<1>2. QED
  BY Invariance, <1>1, PTL

(* Only an answer makes a loading image shown.                             *)
LEMMA ShownByAnswer ==
  ASSUME IInv, Next, NEW a \in DOMAIN images \intersect DOMAIN images',
         images[a].state = "loading", images'[a].state = "shown"
  PROVE  Loaded(a)
<1>1. ASSUME NEW im, ImagesAre(im), a \in DOMAIN im => im[a].state # "shown" PROVE FALSE
  BY <1>1 DEF ImagesAre, Restrict
<1>2. images[a] \in Images /\ \A b \in DOMAIN images : images[b] \in Images
  BY DEF IInv, ImagesInv, ImagesTyped
<1>3. ASSUME NEW t \in Tiles, TileImage(t) PROVE FALSE
  <2>1. PICK needed \in BOOLEAN : FromMemory(t, needed) \/ FromDatabase(t, needed) \/ FromSource(t, needed)
    BY <1>3 DEF TileImage
  <2>2. CASE FromMemory(t, needed)
    <3>1. CASE images' = images
      BY <3>1
    <3>2. CASE ImagesAre([images EXCEPT ![memory[t]].used = clock'])
      <4> DEFINE im == [images EXCEPT ![memory[t]].used = clock']
      <4>1. im[a].state # "shown"
        BY <1>2 DEF Images
      <4>2. ImagesAre(im)
        BY <3>2
      <4> HIDE DEF im
      <4>3. QED
        BY <1>1, <4>1, <4>2
    <3>3. QED
      BY <2>2, <3>1, <3>2 DEF FromMemory
  <2>3. ASSUME NEW b \in Addresses \ DOMAIN images, NEW image, ImagesAre(Put(images, b, image)) PROVE FALSE
    <3>1. Put(images, b, image)[a].state # "shown"
      BY DEF Put
    <3>2. QED
      BY <1>1, <2>3, <3>1
  <2>4. QED
    BY <2>1, <2>2, <2>3 DEF FromDatabase, FromSource
<1>4. CASE MoveScreen
  <2>1. images'[a] = IF a \in screen THEN [images[a] EXCEPT !.used = clock'] ELSE images[a]
    BY <1>4 DEF MoveScreen
  <2>2. QED
    BY <1>2, <2>1 DEF Images
<1>5. ASSUME NEW as, NEW mem, Cancel(as, mem) PROVE FALSE
  <2> DEFINE im == [b \in DOMAIN images |->
               IF b \in as /\ images[b].state = "loading" THEN [images[b] EXCEPT !.state = "cancelled"]
               ELSE images[b]]
  <2>1. im[a].state # "shown"
    BY <1>2 DEF Images
  <2>2. ImagesAre(im)
    BY <1>5 DEF Cancel
  <2> HIDE DEF im
  <2>3. QED
    BY <1>1, <2>1, <2>2
<1>6. ASSUME NEW b \in DOMAIN images, NEW state, ImagesAre([images EXCEPT ![b].state = state]),
             b # a \/ state # "shown"
      PROVE  FALSE
  <2> DEFINE im == [images EXCEPT ![b].state = state]
  <2>1. im[a].state # "shown"
    BY <1>2, <1>6 DEF Images
  <2>2. ImagesAre(im)
    BY <1>6
  <2> HIDE DEF im
  <2>3. QED
    BY <1>1, <2>1, <2>2
<1>7. ASSUME NEW b \in DOMAIN images, RemoveTile(b) \/ Refused(b) \/ Failed(b) \/ StartLoading(b) PROVE FALSE
  <2>1. CASE RemoveTile(b) \/ Refused(b)
    BY <1>5, <2>1 DEF RemoveTile, Refused
  <2>2. CASE Failed(b) \/ StartLoading(b)
    <3>1. PICK state : Becomes(b, state) /\ state # "shown"
      BY <2>2 DEF Failed, StartLoading
    <3>2. QED
      BY <1>6, <3>1 DEF Becomes
  <2>3. QED
    BY <1>7, <2>1, <2>2
<1>8. ASSUME NEW b \in DOMAIN images, Loaded(b) PROVE Loaded(a)
  <2>1. ImagesAre([images EXCEPT ![b].state = "shown"])
    BY <1>8 DEF Loaded
  <2>2. b = a
    BY <1>6, <2>1
  <2>3. QED
    BY <1>8, <2>2
<1>9. ASSUME NEW s \in Sources, SetTileSource(s) PROVE FALSE
  BY <1>5, <1>9 DEF SetTileSource
<1>10. CASE DidReceiveMemoryWarning \/ RemoveAllCachedImages
  BY <1>1, <1>10 DEF DidReceiveMemoryWarning, RemoveAllCachedImages
<1>11. CASE Restart
  BY <1>11 DEF Restart, Empty
<1>12. QED
  BY <1>3, <1>4, <1>7, <1>8, <1>9, <1>10, <1>11 DEF Next

(* The data of a tile are in the database of the tile's own source as soon *)
(* as they have come: the map may have changed its source while they came, *)
(* and the row is not the one the purge takes away.                        *)
THEOREM SpecLoadedIsStored == Spec => LoadedIsStored
<1>1. IInv /\ [Next]_vars =>
        [\A a \in DOMAIN images \intersect DOMAIN images' :
           images[a].state = "loading" /\ images'[a].state = "shown" =>
             /\ images[a].tile \in DOMAIN rows'[images[a].source]
             /\ rows'[images[a].source][images[a].tile].of = images[a].source]_vars
  <2> SUFFICES ASSUME IInv, Next, NEW a \in DOMAIN images \intersect DOMAIN images',
                      images[a].state = "loading", images'[a].state = "shown"
               PROVE  /\ images[a].tile \in DOMAIN rows'[images[a].source]
                      /\ rows'[images[a].source][images[a].tile].of = images[a].source
    OBVIOUS
  <2>1. QED
    BY ShownByAnswer, LoadedKeeps
<1>2. QED
  BY Invariance, <1>1, PTL DEF Spec, LoadedIsStored
=============================================================================
