----------------------------- MODULE TileCaches -----------------------------
(***************************************************************************)
(* RMCachedTileSource (MapView) with its caches: RMMemoryCache keeps tile  *)
(* images, loaded or not, RMDatabaseCache keeps the data of loaded ones.   *)
(* The tile source below is one whose images load over the web             *)
(* (RMWebTileImage, module WebTile); the screen (RMTileImageSet, modules   *)
(* TileImageSet and MapScreen) asks for images and drops them.             *)
(*                                                                         *)
(* An image is known by its address, which is used again once the image is *)
(* freed; the caches of a source the map has left live on, because         *)
(* RMTileImageSet retains each source and releases only the last one.      *)
(***************************************************************************)
EXTENDS Integers, FiniteSets, SequencesExt

CONSTANTS
  Sources, Tiles,  \* tiles: records [zoom, x, y]
  Addresses,
  MemoryCapacity, RowCapacity, MinimalPurge,
  LeastRecentlyUsed,  \* purgeStrategy is RMCachePurgeStrategyLRU
  MaxTime   \* bound: how often the time of a use is taken

ASSUME TileCachesAssumption ==
  /\ MemoryCapacity \in Nat \ {0}
  /\ RowCapacity \in Nat  \* 0: no limit
  /\ MinimalPurge \in Nat \ {0}
  /\ RowCapacity # 0 => MinimalPurge <= RowCapacity
  /\ LeastRecentlyUsed \in BOOLEAN /\ MaxTime \in Nat

VARIABLES
  source,   \* the map's tile source
  images,   \* the live images: a function from addresses
  screen,   \* the addresses of the images on the screen
  memory,   \* the source's memory cache: a function from tiles to addresses
  left,     \* the addresses of the images in memory caches of earlier sources
  observed, \* pairs <<s, a>>: the database cache of s waits for the image at a
  rows,     \* the databases: for each source a function from tiles
  clock

vars == <<source, images, screen, memory, left, observed, rows, clock>>

Empty == [t \in {} |-> t]
Put(f, k, v) == [x \in DOMAIN f \union {k} |-> IF x = k THEN v ELSE f[x]]

\* What RMWebTileImage makes of a request: it is connected, waits for the
\* timer of its next attempt, shows its data, shows the error tile, or was
\* cancelled (by the screen, or by an answer it does not try again after).
ImageStates == {"loading", "retrying", "shown", "error", "cancelled"}
Image(s, t, web, of, state) ==
  [source |-> s, tile |-> t, web |-> web, of |-> of, state |-> state, used |-> clock']

\* The connection and the timer retain an image, as screen and caches do.
Retained(im, a) ==
  \/ im[a].state \in {"loading", "retrying"}
  \/ a \in screen' \union left' \union Range(memory')

ImagesAre(im) == images' = Restrict(im, {a \in DOMAIN im : Retained(im, a)})

\* The sets of n keys with the latest uses, which a function gives.
MostRecent(n, used) ==
  {k \in SUBSET DOMAIN used : /\ Cardinality(k) = n
                              /\ \A x \in k, y \in DOMAIN used \ k : used[x] >= used[y]}
UsesInMemory == [t \in DOMAIN memory |-> images[memory[t]].used]

Less(n, k) == IF n > k THEN n - k ELSE 0

-----------------------------------------------------------------------------
\* makeSpaceInCache: what may be left of the memory cache.
\* Mutant: it makes room only when the capacity is exceeded.
MakeSpaceInCacheLate ==
  LET n == Cardinality(DOMAIN memory) IN
  MostRecent(IF n > MemoryCapacity THEN MemoryCapacity - 1 ELSE n, UsesInMemory)

MakeSpaceInCache ==
  LET n == Cardinality(DOMAIN memory) IN
  MostRecent(IF n >= MemoryCapacity THEN MemoryCapacity - 1 ELSE n, UsesInMemory)

\* addImageData: - the rows of s purgeTiles: may leave.
KeptRows(s) ==
  LET n == Cardinality(DOMAIN rows[s])
      purge == IF RowCapacity # 0 /\ RowCapacity <= n
               THEN Max({MinimalPurge, 1 + n - RowCapacity}) ELSE 0
  IN MostRecent(Less(n, purge), [t \in DOMAIN rows[s] |-> rows[s][t].used])

\* addImageData: and addData:LastUsed:ForTile:
\* Mutant: the purge follows the insertion.
AddImageDataFirst(s, a) ==
  LET image == images[a]
      full == Put(rows[s], image.tile, [of |-> image.of, used |-> image.used])
      n == Cardinality(DOMAIN full)
      purge == IF RowCapacity # 0 /\ RowCapacity < n THEN Max({MinimalPurge, n - RowCapacity}) ELSE 0
  IN {Restrict(full, k) : k \in MostRecent(Less(n, purge), [t \in DOMAIN full |-> full[t].used])}

AddImageData(s, a) ==
  LET image == images[a] IN
  {Put(Restrict(rows[s], k), image.tile, [of |-> image.of, used |-> image.used]) : k \in KeptRows(s)}

\* touchTile:withDate: - the key (zoom * 2^56 + x * 2^28 + y) is cut to its
\* lower 32 bits.
TouchedTile(t) == [zoom |-> 0, x |-> t.x % 16, y |-> t.y]
TouchRow(t) ==
  IF RowCapacity # 0 /\ LeastRecentlyUsed /\ TouchedTile(t) \in DOMAIN rows[source]
  THEN [rows EXCEPT ![source][TouchedTile(t)].used = clock'] ELSE rows

-----------------------------------------------------------------------------
Tick == clock < MaxTime /\ clock' = clock + 1

OnScreen == {images[a].tile : a \in screen}

\* tileImage:, asked by addTile:At: for a tile that has no image.  The image
\* goes on the screen unless (addTile:WithImage:At:) a loaded one makes it
\* superfluous.
FromMemory(t, needed) ==
  /\ t \in DOMAIN memory
  /\ UNCHANGED <<memory, observed, rows>>
  /\ IF needed THEN /\ screen' = screen \union {memory[t]}
                    /\ ImagesAre([images EXCEPT ![memory[t]].used = clock'])
               ELSE UNCHANGED <<screen, images>>

\* The image of a row is of the base class, and only the screen keeps it.
FromDatabase(t, needed) ==
  /\ t \notin DOMAIN memory /\ t \in DOMAIN rows[source]
  /\ rows' = TouchRow(t)
  /\ \E a \in Addresses \ DOMAIN images :
       /\ screen' = IF needed THEN screen \union {a} ELSE screen
       /\ UNCHANGED <<memory, observed>>
       /\ ImagesAre(Put(images, a, Image(source, t, FALSE, rows[source][t].of, "shown")))

\* A new image has begun to load when the caches get it.  There may be a row
\* whose data are no image: what a request brings is not looked at before it
\* is stored.
FromSource(t, needed) ==
  /\ t \notin DOMAIN memory
  /\ rows' = IF t \in DOMAIN rows[source] THEN TouchRow(t) ELSE rows
  /\ \E a \in Addresses \ DOMAIN images, kept \in MakeSpaceInCache :
       /\ screen' = IF needed THEN screen \union {a} ELSE screen
       /\ memory' = Put(Restrict(memory, kept), t, a)
       /\ observed' = observed \union {<<source, a>>}
       /\ ImagesAre(Put(images, a, Image(source, t, TRUE, source, "loading")))

TileImage(t) ==
  /\ t \notin OnScreen
  /\ Tick
  /\ UNCHANGED <<source, left>>
  /\ \E needed \in BOOLEAN :
       FromMemory(t, needed) \/ FromDatabase(t, needed) \/ FromSource(t, needed)

\* setScreenLocation: touches each image of the screen.
MoveScreen ==
  /\ Tick
  /\ images' = [a \in DOMAIN images |->
                 IF a \in screen THEN [images[a] EXCEPT !.used = clock'] ELSE images[a]]
  /\ UNCHANGED <<source, screen, memory, left, observed, rows>>

-----------------------------------------------------------------------------
\* cancelLoading of images: one that loads over the web loses its connection,
\* and unless it has none its cancellation is announced; every memory cache
\* then removes the tile.
Announces(a) == images[a].web => images[a].state = "loading"

\* Mutant: the announcement is not observed.
CancelUnheard(as, mem) ==
  /\ memory' = mem
  /\ left' = IF mem = memory THEN left ELSE left \union Range(memory)
  /\ ImagesAre([a \in DOMAIN images |->
       IF a \in as /\ images[a].state = "loading" THEN [images[a] EXCEPT !.state = "cancelled"]
       ELSE images[a]])

Cancel(as, mem) ==
  LET tiles == {images[a].tile : a \in {b \in as : Announces(b)}}
      gone == IF mem = memory THEN {} ELSE Range(memory)
  IN /\ memory' = Restrict(mem, DOMAIN mem \ tiles)
     /\ left' = {a \in left \union gone : images[a].tile \notin tiles}
     /\ ImagesAre([a \in DOMAIN images |->
          IF a \in as /\ images[a].state = "loading" THEN [images[a] EXCEPT !.state = "cancelled"]
          ELSE images[a]])

\* removeTile:
RemoveTile(a) ==
  /\ a \in screen
  /\ screen' = screen \ {a}
  /\ Cancel({a}, memory)
  /\ UNCHANGED <<source, observed, rows, clock>>

\* setTileSource: of RMMapContents and of RMTileImageSet
SetTileSource(s) ==
  /\ s # source /\ source' = s
  /\ screen' = {}
  /\ Cancel(screen, Empty)
  /\ UNCHANGED <<observed, rows, clock>>

\* The answers to a request.  Loaded: every database cache that waits for the
\* address stores the data; then it waits no longer.
Loaded(a) ==
  /\ images[a].state = "loading"
  /\ \E new \in [Sources -> UNION {AddImageData(s, a) : s \in Sources} \union Range(rows)] :
       /\ \A s \in Sources : IF <<s, a>> \in observed THEN new[s] \in AddImageData(s, a)
                             ELSE new[s] = rows[s]
       /\ rows' = new
  /\ observed' = {w \in observed : w[2] # a}
  /\ UNCHANGED <<source, screen, memory, left, clock>>
  /\ ImagesAre([images EXCEPT ![a].state = "shown"])

Becomes(a, state) ==
  /\ UNCHANGED <<source, screen, memory, left, observed, rows, clock>>
  /\ ImagesAre([images EXCEPT ![a].state = state])

Failed(a) == images[a].state = "loading" /\ (Becomes(a, "retrying") \/ Becomes(a, "error"))
StartLoading(a) == images[a].state = "retrying" /\ Becomes(a, "loading")

\* Answers that are not tried again end in cancelLoading.
Refused(a) ==
  /\ images[a].state = "loading"
  /\ UNCHANGED <<source, screen, observed, rows, clock>>
  /\ Cancel({a}, memory)

-----------------------------------------------------------------------------
DidReceiveMemoryWarning ==
  /\ memory' = Empty
  /\ UNCHANGED <<source, screen, left, observed, rows, clock>>
  /\ ImagesAre(images)

RemoveAllCachedImages ==
  /\ memory' = Empty
  /\ rows' = [rows EXCEPT ![source] = Empty]
  /\ UNCHANGED <<source, screen, left, observed, clock>>
  /\ ImagesAre(images)

\* The application ends, and starts with any source.
Restart ==
  /\ source' \in Sources
  /\ images' = Empty /\ screen' = {} /\ memory' = Empty /\ left' = {} /\ observed' = {}
  /\ UNCHANGED <<rows, clock>>

Init ==
  /\ source \in Sources
  /\ images = Empty /\ screen = {} /\ memory = Empty /\ left = {} /\ observed = {}
  /\ rows = [s \in Sources |-> Empty]
  /\ clock = 0

Next ==
  \/ \E t \in Tiles : TileImage(t)
  \/ MoveScreen
  \/ \E a \in DOMAIN images :
       RemoveTile(a) \/ Loaded(a) \/ Failed(a) \/ StartLoading(a) \/ Refused(a)
  \/ \E s \in Sources : SetTileSource(s)
  \/ DidReceiveMemoryWarning
  \/ RemoveAllCachedImages
  \/ Restart

Spec == Init /\ [][Next]_vars

-----------------------------------------------------------------------------
(***************************************************************************)
(* Every variable keeps its type, and no address is held that was freed.   *)
(***************************************************************************)
TypeOK ==
  /\ source \in Sources /\ clock \in 0..MaxTime
  /\ DOMAIN images \subseteq Addresses
  /\ \A a \in DOMAIN images :
       images[a] \in [source : Sources, tile : Tiles, web : BOOLEAN, of : Sources,
                      state : ImageStates, used : 0..MaxTime]
  /\ screen \union left \union Range(memory) \subseteq DOMAIN images
  /\ \A t \in DOMAIN memory : images[memory[t]].tile = t /\ images[memory[t]].source = source
  /\ observed \subseteq Sources \X Addresses
  /\ \A s \in Sources : \A t \in DOMAIN rows[s] : t \in Tiles /\ rows[s][t] \in [of : Sources, used : 0..MaxTime]

\* Neither cache grows beyond its capacity, whatever becomes of the images
\* that are added, moved, cancelled or stored late, and none holds an image that
\* was freed (TypeOK).
WithinCapacity ==
  /\ TypeOK
  /\ Cardinality(DOMAIN memory) <= MemoryCapacity
  /\ \A s \in Sources : RowCapacity # 0 => Cardinality(DOMAIN rows[s]) <= RowCapacity

\* The memory cache hands out no image whose loading was cancelled: it would
\* stay blank for as long as it is shown (imageLoadingCancelled: is what takes
\* it out, whoever cancelled it, and for whatever source).
NoCancelledImageCached ==
  \A t \in DOMAIN memory : images[memory[t]].state # "cancelled"

\* The data of a tile are in the database of its source as soon as they have
\* come, however long they took and whatever the purge then took away.
LoadedIsStored ==
  [][\A a \in DOMAIN images \intersect DOMAIN images' :
       images[a].state = "loading" /\ images'[a].state = "shown" =>
         /\ images[a].tile \in DOMAIN rows'[images[a].source]
         /\ rows'[images[a].source][images[a].tile].of = images[a].source]_vars

\* A database serves the tiles of its own source ("Returns the cached image if
\* it exists.  nil otherwise.", RMTileCache.h).
RowsAreOwn ==
  \A s \in Sources : \A t \in DOMAIN rows[s] : rows[s][t].of = s
=============================================================================
