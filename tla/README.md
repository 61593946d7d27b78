# Formal models of Mapsforge_iOS

Mapsforge_iOS shows maps on an iPhone or iPad: tiles fetched over HTTP or rendered
from vector data that comes from an OpenStreetMap server or from a binary map file.
It is a port and a combination of four code bases (under `src/`):

| library | what it is |
|---|---|
| `MapView` (route-me) | the slippy map: gestures, tiles on screen, tile sources and caches |
| `OpenStreetPad` | vector maps: download, parsing, an in-memory map, MapCSS styles, rendering |
| `CoreParse` | tokenisers and LR parsers, used here for MapCSS |
| `MapsforgeReader` | reader of the binary map files, ported from Java |

These modules model the parts of it that keep state and that several threads, callbacks
or long sequences of calls act on. Paths below are relative to `src/`.

- [Inventory](#inventory) - the parts, what they keep, how they interact, what is hard
- [Modules](#modules) - which module models what, and how it corresponds to the code
- [Runs](#runs) - what TLC checks, with which bounds and which fairness
- [Proofs](#proofs) - what TLAPS proves, from which assumptions, along which argument
- [What the models say against the code](#what-the-models-say-against-the-code)
- [Not modelled](#not-modelled) and [Plan](#plan)

## Inventory

`PROJECT.json` lists every part under `components`, with its files and what is modelled of
it, and under `hazards` the places where it can go wrong in a way that a test would hardly reach,
with the properties that would catch it.

### CoreParse

| part | state | operations | correct when |
|---|---|---|---|
| `CPTokenStream` | array of tokens, closed flag, condition lock | peek, pop, push, pushTokens, close | a reader gets every token once and in order, and wakes up when there is something to read |
| `CPTokeniser` | recognisers; offset into the text | `tokenise:into:`, the delegate's consume, produce, error and finish calls | each part of the text becomes the tokens the delegate wants, nothing follows EOF; the stream is closed in the end |
| `CPShiftReduceParser` | stack of states and objects | shift, reduce, accept, recover, unwind | answers what the grammar says of the whole text, and returns |
| `CPGrammar` and the table builders | rules, caches of FIRST and FOLLOW | construction of SLR, LALR(1), LR(1) tables | the tables recognise the grammar |

The tokeniser runs on a global dispatch queue, the parser on the caller's thread
(`-[OSPMapCSSParser parse:]`, `-[CPParser parse:]`); they share the stream. Hard: the order of
their steps, the condition the lock is left in, errors on either side, recoveries that insert or
remove tokens, a tokeniser that stops early, a parser that returns early.

### OpenStreetPad

| part | state | operations | correct when |
|---|---|---|---|
| `OSPMapView` | map area, four meta tile views | pan, zoom, reload, deliver the data source's news | the views cover the screen, each at the place of its meta tile |
| `OSPCoordinateRect`, `OSPNonRectangularArea` | none | tiles for a rectangle, subtraction | nothing left out, nothing twice |
| `OSPTileArray` | quad tree of tiles | add, contains, not included subtiles | behaves as a set of cells |
| `OSPMapServer` | requested tiles, queue, running connections | `loadObjectsInBounds:`, URL and stream callbacks, parser callbacks, pop of the queue | each area is downloaded once, a few at a time, none is forgotten, "loaded" means parsed |
| `OSPMap`, `OSPQuadTree` | objects; tree of nodes | add object, search | a search finds what was added |
| MapCSS | rules, style cache | parse, match, cascade | the specification of MapCSS |
| renderers, file readers, OSM values | little | draw, read | (pictures and formats) |

The map view asks the server for the tiles that the visible area needs; the server asks its
delegate, the map view, whether a tile is still wanted when its turn comes. An answer is
written to one end of a stream pair by the main thread while an XML parser reads the other
on a thread of its own; it adds objects to `OSPMap`, which the main thread searches meanwhile. Hard: two kinds of
threads start and end connections; data, room in the stream and the end of the answer come
in any order; the tree changes its shape under a search.

### MapView

| part | state | operations | correct when |
|---|---|---|---|
| `RMWebTileImage` | connection, retries left, timer, data | request, callbacks, cancel | the tile is retrieved or an error said why not, with bounded retries |
| `RMTileImageSet`, `RMTileLoader` | images on screen, loaded bounds and zoom | add tiles, remove redundant ones, pan and zoom | the screen is covered when everything has loaded |
| `RMMapContents` | projections, zoom animation timers | move, zoom, exchange of tile source | the zoom stays within its limits and an animation ends |
| memory and database caches | images, rows with dates of use | add, find, purge | an image found is the tile's, capacity holds, the oldest goes first |
| `RMOSPTileSource` | images not yet written | render, write to the database | no tile twice |

All of it runs on the main thread except the rendered tile sources. Hard: callbacks of
connections that were given up, timers that fire after a removal, caches that learn of an
image only when it has loaded.

### MapsforgeReader

A query for a tile computes the blocks of a sub-file and a bitmask, reads the index through
a cache and then block after block (`MapDatabase`, `QueryCalculations`, `IndexCache`,
`ReadBuffer`, `MapFileHeader`). It is sequential; what is hard are boundaries: the bitmasks,
widths of integers, an invalid pointer in the middle of a query.

### Hazards of the parts not modelled

Those of the modelled parts are in `PROJECT.json`.

- `RMMapContents.m:541`: overlapping zoom animations undo each other's steps. `:533`: the increment comes from the zoom asked for, not from the clamped one.
- `RMMemoryCache.m:98`: the image to remove is chosen under the lock and removed outside it (the caches of web tiles are used from the main thread alone).
- `RMOSPTileSource.m:163`: `shouldCache` is uninitialised after a hit in the database. `:188`: one lock is held during the whole write.
- `CPGrammarInternal.m:195`, `CPGrammarPrivate.m:97`: FIRST and FOLLOW with symbols that may be empty or are recursive.
- `OSPMapView.m:151`, `:178`: a second touch resets the start of a pan; views added by a pan outlive the next zoom. `OSPCoordinateRect.m:177`: an overspill of 0 splits tiles for ever. `OSPQuadTree.m:74`: objects at one place expand the tree one level for each.
- `CPShiftReduceParser.m:217`: a recovery that removes a token after one that inserted a token pops the stream's innocent head; the delegate of this repository bails instead.

## Modules

| module | code | state and actions |
|---|---|---|
| `TokenStream` | `CPTokenStream.m` | array, closed flag, condition value; each method one operator |
| `ParallelParse` | `CPTokeniser.m`, `CPShiftReduceParser.m`, `CPRecoveryAction.m` | extends `TokenStream` with the thread of the tokeniser (`pcT`) and the one of the parser (`pcP`) |
| `BlockGrammar` | `OSPMapCSSParser.m` | no state: the tables of a declaration block, what the parser's delegate builds and how it recovers, and what a parse should answer; extends `ParallelParse` |
| `WebTile` | `RMWebTileImage.m` | all connections ever started, the one held, retries, timers; one action per callback |
| `MetaTiles` | `OSPMapView.m` | map area, four views; `Pan` (all of `pan:`), `ZoomEnded` |
| `TileGeometry` | `OSPCoordinateRect.m` | tiles, rectangles and the cells of the world; no state |
| `Areas`, `AreaQueries` | `OSPCoordinateRect.m`, `OSPNonRectangularArea.m` | tiles for a rectangle, subtraction; no state. `AreaQueries` asks them one question and keeps the answer |
| `TileCover` | what `OSPTileArray` promises | abstract: the set of covered cells |
| `TileArray` | `OSPTileArray.m` | the quad tree, a function from the tiles that have a node; implements `TileCover` |
| `MapServer` | `OSPMapServer.m` | composes `Areas` and (an instance of) `TileCover` with connections, streams, parsers and two kinds of threads |
| `QuadTree` | `OSPQuadTree.m`, `OSPMap.m` | nodes, call frames of each adding thread, the search under way |
| `TileImageSet` | `RMTileImageSet.m`, `RMTile.c` | the operations on a set of tile images (a function from tiles); no state |
| `MapScreen` | `RMMapContents.m`, `RMTileLoader.m`, projections | composes `TileImageSet` with the screen, the loaded bounds and the suspension of expensive operations; one action per gesture, answer and timer |
| `TileCaches` | `RMCachedTileSource.m`, `RMTileCache.m`, `RMMemoryCache.m`, `RMDatabaseCache.m`, `RMTileCacheDAO.m` | images by address, memory cache, database rows, who observes which address; one action per message of the screen and per answer |
| `MapFile` | `MapDatabase.m`, `QueryCalculations.m`, `MapFileHeader.m`, `SubFileParameter.m` | the query under way: block, elements left, water, what was reported; one action per turn of each loop |
| `MC*` | - | instances for TLC |
| `*_proofs` | - | theorems |

**Steps.** An Objective-C call is a step when a lock or the main thread's run loop makes it
one. Every method of `CPTokenStream` takes the condition lock and waits for nothing while it holds it,
so it is a step, guarded by the condition it waits for. `OSPTileTree` locks each node from its parent's
lock on, so a call holds the root from end to end. A callback on the main thread is a step; the loops
of `loadObjectsInBounds:` and `popConnectionQueue` take one step for each turn, because other threads
act in between. `-[OSPQuadTree expand]` takes no lock: its steps are those at which another thread can see a difference.

**Parse.** A text is, for each offset, the sequence of matches in the order of the recognisers (`Inputs`); the delegates are constants:
which tokens may be refused (`MayReject`), what is pushed for one (`Replacement`), where the
tokeniser goes on after an error (`ErrorOffsets`), what the parser's delegate answers to one
(`Recovery`). Tokeniser actions: `Recognise`, `HandleError`, `GiveUp`, `WillFinish`, `PushEOF`,
`Close`; parser actions: `Peek`, `Shift`, `Pop`, `Reduce`, `Accept` and those of `Recover`. `produced` and
`consumed` are histories. `offset` may pass the end of the text (`NotFound` is larger than any).

**Web tile.** `conns` holds every connection with its phase, since one that was released and not
cancelled still calls back. The bytes received are the set of the statuses they came with: that is
what the properties tell apart. A timer is a number: nothing invalidates one.

**Meta tiles.** Lengths are pixels. `Recycle` is one check-and-replace of the four in `pan:`; the
second pair sees the result of the first. The number of a meta tile passes a float (`OSPMapView.m:159`), whose 24 bits no longer tell
the pixels of the world apart from zoom 16 on, as at the view's default zoom (`:60`, `:72`). `Granularity` is the spacing of that float at each place,
`RoundToFloat` rounds to it, to the nearest and from half way to even; `Rounding` is the furthest a place is off, so that 0 stands for the zooms below 16. `TruncatingDiv` is the cast to `int`.

**Server.** An answer is a sequence of chunks, each an object or broken. A connection record
holds what `OSPConnection` holds, and where its URL connection, stream and parser stand. An
error of the parser is handled on the parser's own thread; the end of a document posts a block to the
main queue. `contents` is the set of objects that `OSPMap` guards with a lock (`OSPMap.m:58-62`), so that adding to it is one step whatever
the number of parsers; the tree of `OSPMap`, which has no lock, is `QuadTree`'s. `history` variables say what was asked, dropped, started and loaded.

**Tile array.** A node is known by the tile it represents, since a leaf that expands makes the nodes of its quarters and nothing else makes one. A call goes down the way
to its tile (`Path`) as far as `Depth`; `addTile:` makes the nodes missing on the way (`Expanded`), puts the tile in the place of what was below it (`Included`) and folds the nodes of the way
from the bottom up (`Folded`), which is the loop after the recursive call returns.

**Quad tree.** `frames[a]` is the call stack of an adding thread: `AddObject`, `Insert`,
`PlaceObjectInChild`, `Split`, `EmptyContents`, `MoveObject`, `Expanded`. The search visits nodes
one at a time (`SearchContents`, `SearchChildren`).

**Map screen.** Everything is in units of the world: a place on the screen is the place of the map it
shows, so `moveBy:` changes the screen alone, and what the code does to images and loaded bounds otherwise than to the projection
(`Jump`: `setZoom:`, `setMapCenter:`, `setFrame:`) moves *them*. `UpdateLoadedImages` is the tail of every gesture: it returns early, waits for
expensive operations, or adds the tiles of the screen (`AddTiles`, in the order of the spiral), removes what they make useless (`RemoveTilesWorseThan`) and
what is far away (`RemoveTilesOutsideOf`). `aligned` says that no `setZoom:` has displaced images since they were last placed.

**Caches.** An image is an address, because `RMDatabaseCache` observes an object it does not retain; an image is freed when the screen, a memory cache, its
connection and its timer have let go (`Retained`), and the address is used again. `MostRecent` is the purge: any set of the right size
with the latest uses, so that equal dates are a choice. `TouchedTile` is the key as 32 bits are left of it. `Restart` keeps the databases only. What an image's request
does is `WebTile`, seen here as four outcomes. A row whose data are no image (`FromSource`) has been used and is asked for again from the network. `Loaded` is an answer to the image's current request: the connection that a busy
server leaves behind, which may load an image while it waits for its next attempt, is `WebTile`'s.

**Map file.** A file is what reading it gives: blocks with their index entry, head, zoom table and elements, each of which may be damaged. `ReadPoi` and `ReadWay` are turns
of the loops of `processPOIs` and `processWays`; a return of NO finishes the block, an exception or a bad index entry the query (`EndQuery`). An index entry of 40 bits is returned as a `long` (`IndexCache.m:56`): `AsLong` keeps
the bits that the build's `long` has (`longMax`), and `GetIndexEntry` answers -1 where the cache does. The integers of an element are read without a look at the buffer's size (`ReadBuffer.m:125`, `:148`), so an element that is cut off may pass, come out invalid or raise (`Outcomes`). The second half of the module says what a file *means*
(which tile meets which block and subtile), without bitmasks and shifts, and the properties compare the two.

Definitions named as *mutants* in comments (`PopTokenGreedy`, `RecycleForgetting`, ...) are plausible wrong
versions of the definition after them. Nothing uses them; `PROJECT.json` pairs each with a property that
TLC then finds violated, which shows that the property depends on that code.

## Runs

| run | instance and bounds | checks |
|---|---|---|
| `parallel_blocks` | every text of up to 6 tokens, grammar of a declaration block, the MapCSS delegate's recovery | `ParallelParseIsCorrect`, `ParserReturns` |
| `parallel_errors` | texts of up to 3 offsets with unrecognised parts and ambiguous matches, delegates that refuse, drop and skip, any recovery, at most 9 tokens | `TypeOK`, `Fifo`, `ConditionMatchesContents`, `PeekedTokenStays`, `EndIsFinal`, `StreamIsClosed` |
| `webtile` | 2 retries, at most 4 connections, every status, connections that fail to start | `OneAtATime`, `RetrievedOnce`, `OnlyImagesAreLoaded`, `NoSilentFailure`, `TileIsRetrieved` |
| `webtile_gaveup` | 1 retry | `NoMoreRetries`: violated |
| `metatiles` | meta tiles of 8, view of 7 by 7, pans of up to 2 along the x axis, origins 4..20, a float of three bits, off by up to 2 | `ViewsInOrder`, `ViewsInPlace`, `OnlyCracksBlank`, `NoneSkipped` |
| `metatiles_diagonal` | the same with an exact float, pans in any direction | `ViewsInOrder`: violated |
| `tiles` | world of 4 by 4 cells; a behaviour asks about any rectangle in and around it, with two overspills or two areas to cut out, or adds tiles in any order | `TilesCover`, `RestIsDifference`, `TreeIsReduced`, `AnswersAsTheSet`, `ImplementsCover` |
| `mapserver` | world of 2 by 2 tiles, limit of 2 connections, 3 calls of `loadObjectsInBounds:`, answers of 2 chunks through a stream that holds 1, that end, fail or do not parse | `ConnectionLimit`, `NoTileTwice`, `NothingForgotten`, `NoIdleSlot`, `LoadedIsHandedOver` |
| `quadtree` | 5 objects, limit of 2 in a leaf, 4 levels, one adding thread and a searcher | `OnePlace`, `LeafWithinLimit`, `SearchMissesOnlyMoved` |
| `mapscreen` | world of zooms 1 to 3, screen of 3 by 1 or 3 by 4 pixels across its eastern end; 3 of any moves, zooms about a point or the centre, jumps, frames, tile sources, with touches and answers between them | `ScreenIsTiled`, `NothingRedundant`, `NothingFarAway`, `EventuallyShown` |
| `caches` | 2 sources, 3 tiles of which one has a key that fits 32 bits, 3 addresses, capacities of 2, dates 0 to 3, LRU | `WithinCapacity`, `NoCancelledImageCached`, `LoadedIsStored` |
| `mapfile` | a sub-file of 2 by 2 blocks with zooms below and above its base, sound or with one of 51 damages, and a file of two sub-files, a `long` that holds every index entry and a shorter one; tiles of zoom 0 to 6, one query after another | `OnlyWhatTheTileShows`, `SoundBlocksAreReported`, `BackgroundIsWater` |

The type invariants of `WebTile`, `MapServer`, `QuadTree`, `MapScreen` and `TileCaches` are conjuncts of `OneAtATime`, `ConnectionLimit`, `LeafWithinLimit`, `ScreenIsTiled` and `WithinCapacity`;
that of `MetaTiles` is proved.

**Why the bounds are enough.** Six tokens hold a block with a declaration and a half more, so that every rule, the recovery and
every error are reached while the tokeniser is anywhere behind or ahead; three offsets suffice for a long
match, its short rival and an error between them, and the properties of that run are proved without a
bound. Four connections are the first attempt, two retries and one that a busy server's leftover starts. In `metatiles` the origins
lie in three meta tiles, so that views are recycled each way, and the float of three bits has a spacing of 1, 2 and 4 there: views placed with different roundings meet, and numbers are rounded up over the next boundary; the theorems remove the bounds and take any float. With two slots and up to four tiles at a time
the queue is filled, tiles wait, and a tile is queued twice before it starts; an answer of two chunks fills the stream, so that the second is written by its event. Five objects make a leaf expand, expand again (two objects at
one place), keep one across a boundary and one outside the world. The 4 by 4 world has three levels: a tile two
levels below its node, and a node that folds because its children did. In `mapscreen` three gestures zoom out and in again around a move or a jump, past images that have and have not loaded; the
screen shows one or two columns, at the end of the world the last and the first. With three tiles and capacities of two both caches purge, and with three addresses one is used again while
its tile's first image is still waited for. In `mapfile` tiles lie from two levels above the base zoom of a sub-file to three below (from two on the bitmask is the one bit of the subtile it lies in), in, across
and outside the box; each damage is in each kind of place, and the queries that follow one another show that none leaves anything behind. Index entries have 7 bits there, of which the shorter `long` keeps 5, as that of armv7 keeps 32 of 40; one pointer has its sign.

**Fairness.** `ParallelParse`: weak fairness of each thread; the operating system schedules both, and neither is enabled
again and again only to be disabled, since only the parser takes tokens and only the tokeniser adds them. `WebTile`: a
connection ends (requests have a timeout of 30 seconds) and a timer fires. `MapScreen`: initialisation ends, the timer that resumes expensive operations fires (0.4 seconds after the last touch), and requests are answered, which
is what `TileIsRetrieved` says of each; the user's gestures are bounded, not fair. There is none anywhere else. `parallel_blocks` asks for an
end without error tokens from the tokeniser's delegate: with `OSPMapCSSOffsets` the tokeniser need not end at all, see below.

**Deadlock.** `CHECK_DEADLOCK FALSE` where the system comes to rest: the parse is done, the tile retrieved, everything asked for
downloaded or shown, the bound on dates or gestures reached, or nothing is defined any more (`MapFile`). That nobody waits for ever is then a property of its own: `ParserReturns`, `StreamIsClosed`, `TileIsRetrieved`, `NoIdleSlot`, `EventuallyShown`. The meta tile views never
come to rest, and there deadlock is checked.

**Conditions in the properties.** `Busy` in `WebTile` excludes runs in which the server answered 500 or 503: then a connection is left
behind and the properties with `~Busy` do not hold (`webtile_gaveup`). `SearchMissesOnlyMoved` excuses objects that an `expand` has in hand. `ScreenIsTiled` and `NothingFarAway` hold while `aligned`, the second for loaded bounds with an area; `NothingRedundant` is about images that
show data, since a proxy (the error tile) does not take away what lies under it. `LoadedIsStored` says that the source's own database gets an image, not that no other does.

## Proofs

`ParallelParse_proofs`, for every text, every table, every delegate and without a bound on the tokens (`MaxProduced` is any
number): `TypeCorrect`, `FifoCorrect`, `ConditionCorrect`, `PeekedTokenCorrect`, `EndIsFinalCorrect`. They follow from one inductive invariant,
`IInv == TypeOK /\ StreamInv /\ PeekedTokenStays /\ EOFInv`, proved action by action for each thread. `PeekedTokenStays` needs nothing but that the
tokeniser only appends. The order of the tokens needs `TypeOK` and that the head that is popped is the one that was peeked at. That nothing
follows what the parser takes for the end is not inductive as it stands: `EOFInv` says for each place the tokeniser is at whether it has left the text and whether an EOF has been pushed. It leaves a text whose end it has read and one that its
delegate told it to stop in alike, by an offset that is not in it; an EOF does not tell them apart, and the theorem does not say that the whole text was tokenised (`ParallelParse_eof.cfg` below).
Assumed: `NilAssumption` (nil is no token), `TokenAssumption` (EOF is pushed by the tokeniser alone, never by a delegate, and what a delegate pushes are tokens),
`TextAssumption` (matches have positive length and lie inside the text), `TableAssumption` (tables map states to
states). The code relies on each; the instances satisfy them, and TLC evaluates them.

`SpecParallelParseIsCorrect`, in the same module, is about the tables of `BlockGrammar` and the recovery of `OSPMapCSSParser` (`BlockParse`), for every text, every tokeniser delegate and
blocks of any number of declarations: the parse answers the object of a block exactly when the tokens are a block (`ParallelParseIsCorrect`). The property says nothing until the parse returns, so
its invariant, `ParseInv`, says where in a block the parser is at any time: the stack is the one of that point (`StackAt`) and what was popped is the text up to it (`Read`), or that text without a
`;` that the delegate has supplied for a `}` which is the head of the stream (`BeforeClose`) or was popped (`AfterClose`). A parse that gave up returned on a text that is `Doomed`: no continuation that the
tokeniser may still push makes it a block. That is shown from what may follow what in a block (`Follows`, `BlockFollows`), so that a wrong
answer given before the text ends is excluded as well. Accepting needs the theorem on EOF: one at the head of the stream is all that is left of it (`OnlyEOFLeft`). `CountInv` bounds the tokens, and with them
the declarations: TLC needs the objects to be a finite set (`MaxLength`, any number). `BlockParse` asks that this set is large enough for `MaxProduced` tokens; the instance of `parallel_blocks` has 6 for 9 tokens, and TLC evaluates
the part of the hypothesis on tables and objects (`InstanceAssumption`).

`MetaTiles_proofs`, for views, meta tiles and pans of any size:

- `PlaceCorrect`: every view stays where its meta tile is, off by no more than `Rounding`, whatever the pans and the precision of the float: what the views are off by does not add up. The invariant is
  that property with types (`PlaceInv`).
- `SidewaysOrder`, `SidewaysNeighbours`, `SidewaysCoverage`: panned along the x axis, east and north of the world's origin, with a view no larger than a meta tile and steps smaller than the view by
  twice the rounding (`SidewaysPans`), the assertions of `pan:` hold, the four views are a grid that skips no meta tile (`NoneSkipped`) and leave blank no more than a crack of twice the rounding between two of them, nothing with an exact float (`OnlyCracksBlank`). A number that
  is rounded up over a boundary gives the new view the meta tile of the one it joins, which is why neighbours may have the same number. The invariant, `SquareInv`, says that each row is two columns which cover
  the width but for the crack (`Row`), that the rows have the same column, and that the map area's origin lies in the lower row. The arithmetic of a check is in `ShiftedColumn`; integer division enters by
  `DivUnique` only. For diagonal pans the invariant fails because the assertion does.
- `UprightOrder`, `UprightNeighbours`, `UprightCoverage`: the same along the y axis (`UprightPans`). The proof is not the mirror image of the other: `pan:` runs the two checks of the x axis first, which must be
  shown to recycle nothing (`RecycleXKeepsUpright`), and those of the y axis then move a pair of rows (`ShiftedRow`). `UprightInv` is `SquareInv` with rows for columns.

`WebTile_proofs`, for any number of retries and any answers of the server: `SpecOneAtATime`, `SpecRetrievedOnce`, `SpecOnlyImagesAreLoaded`, `SpecNoSilentFailure`.
The properties speak of a server that was never busy, and so does the invariant: `Undisturbed` says that only the connection the tile holds is alive, that a
timer runs only while it holds none, and that connections started, retries left and timers never add up to more than the first budget (`Budget`) - it is this sum, not the
count of connections, that each step keeps. `NoSilentFailure` is kept on top of the types: every path that ends a connection shows something, posts an error or
asks again (`RequestTileIsHeard`, `CallbackIsHeard`). `NoMoreRetries` is the finding below and cannot be proved.

`TileCaches_proofs`, for any sources, tiles, addresses, capacities and policy: `SpecWithinCapacity`, `SpecNoCancelledImageCached`, `SpecLoadedIsStored`. `Waited` is the part that is
not visible in the properties: an image that may still load is observed, at its address, by the database cache of its own source. `RowsInv` needs
`MinimalPurge` to be at least 1 (`RMTileCacheDAO` then really makes room) and at most the capacity.

`MapServer_proofs`, for worlds of any depth, any documents and capacities, any number of connections: `SpecConnectionLimit`, `SpecNoTileTwice`, `SpecNothingForgotten`, `SpecNoIdleSlot`,
`SpecLoadedIsHandedOver`, and, step by step, `SpecImplementsTileCover`: the requested tiles step as the abstract cover does. `NoTileTwice` is about tiles that were asked for wholly before: a larger tile of which a part was is downloaded again. `LoadedIsHandedOver` is about the contents of the
`OSPMap`; whether its tree has the objects is `QuadTree`'s. The invariant adds to the
properties where a connection is kept and how far it has come (`Stage`, `Kept`), and that parsed objects, stream, data and
what is to be received make up the document in order (`Transit`, `Flow`). Assumed: `LoadsAssumption`, that what is asked for are rectangles, with an outset of at least the finest tile's
side; that what `TilesFromRect` answers for them are tiles, each once, is proved. The module holds two more components, whose lemmas on tiles it shares:

- `SpecTilesCover`, `SpecRestIsDifference`: the algorithms of `Areas`, for worlds of any depth and any rectangles. All rests on the tiles being nested: `Below` compares the edges of two tiles in cells, and of two tiles
  with a cell in common the finer one lies in the other (`TilesNest`, `CellsBelow`). The recursion over tiles is a recursive function, whose existence and whose values follow from well-founded minima
  on the zoom (`AnswersExist`, `TilesFromRectIs`): the answer for a tile is the `Largest` tiles in it, the quarters' answers have nothing in common. A tile of the finest zoom is not split as long as the outset
  is not below its side (`CellsAreNotSplit`), which is where the code's recursion ends. The subtraction is four chops (`SubtractIs`), flattened and folded over the rectangles to cut out (`FlattenIs`, `FoldIs`).
- `SpecTreeIsReduced`, `SpecAnswersAsTheSet`, `SpecArrayImplementsCover`: the tree of `TileArray`, for worlds of any depth and any tiles added. The invariant, `IsReduced`, is a tree (`IsTree`) in which each node that is no leaf is needed
  (`IsNeeded`): one quarter is not included, one is not untouched. `addTile:` breaks it on its way, as the new nodes down to the tile are all untouched; `IsKept` says what the way back up keeps: the nodes still to be passed
  are the only ones that may be there in vain, and the one just left has been touched. A quarter that was replaced lies on the way (`ParentOnWay`), so that no other node is affected. The answers need more than the cells: an
  included node lies below each node that was touched (`Touched`), something is open below each that is not included (`SomethingOpen`), so that the open leaves of a node are the fewest tiles that complete it (`MaximalIs`).

`QuadTree_proofs`, for any objects, areas and limit and any number of adding threads that add one at a time (`[]OneAtATime`, a hypothesis on the run): `SpecOnePlace`, `SpecLeafWithinLimit`, `SpecSearchMissesOnlyMoved`, the last for
areas that meet the world too. `OSPOSMFile` has one parser for ever (`dispatch_once`, `OSPOSMFile.m:61`); the downloads of `OSPMapServer` and the loads of `OSPPBFFile` (`OSPPBFFile.m:76`) satisfy the hypothesis as long as
they do not overlap. Nothing in the code sees to that, and where they do overlap the properties fail, as `hazards` says. The invariant is that of one thread, handed on when the next one begins (`TakeTurns`); it
follows the calls on the stack of the adder (`Shape`): a leaf that splits has room for what it
has in hand; every node hangs below an older one, within its bounds (`Tree`). The search is followed by sets of nodes: whatever is closed under
the search's next steps and holds what is ahead of it holds a node of each object that it has to find (`Search`). `PowerAssumption` says that 2^n is a positive number: the provers know nothing of powers.

`MapScreen_proofs`, for any world, tile source, cache, gestures in any order and number:

- `SpecNothingRedundant`, without hypotheses. It is inductive with types (`Neat`): `WorseThanCurrent` and `CurrentIsNotWorse` say what `isTile:worseThanTile:` is for, and
  `AddedTiles`, `SetZoomCleans`, `RemovedAreWorse` what each method that adds or removes keeps.
- `SpecScreenIsTiled`, for any limits of the zoom and any moves: in every run in which the screen stays between the north and south ends of the world and narrower than it by the rest of a tile (`[]OnTheMap`) each tile it
  shows has its image at its place, unless an update is put off. The code does not keep a run there: a pan may pass an end, which is the finding of `MapScreen_south.cfg`; and at the default minimum zoom 0 (`RMMapContents.h:49`)
  a screen may show a tile twice, for which the image set has one image only - `adjustZoomForBoundingMask:` keeps the world no narrower than the screen, not wider. The invariant, `Tiled`, says that the loaded bounds are those of whole tiles, every cell of which has its image at its place (`Covered`), and that the
  screen lies within them or an update is to come. A fresh load needs that the walk of `addTiles:` passes every cell of its rectangle (`SpiralCovers`, by the rounds of the spiral; `WalkCovers`), that
  no tile of the rectangle is met twice (`ColumnsDiffer`), and that `removeTilesOutsideOf:` leaves each of them however the columns wrap (`CellStaysInside`). What
  moves round the world stays covered (`RoundTheWorld`).
- `SpecNothingFarAway`, without hypotheses: wherever the screen is, and whatever its size, while `aligned` every image meets the loaded bounds, if they have an area. The invariant,
  `Gathered`, says that every image meets the loaded bounds (`Near`) while `aligned`, and that there are none before tiles were loaded. It needs what `addTiles:` adds on the coarser zooms in closed form: each of its
  rectangles lies over the first one, to within one tile on either side (`IsAbove`, `LevelsAreAbove`, `CellMeets`), round the end of the world too (`MetRoundTheWorld`); and that what `removeTilesOutsideOf:` leaves, comparing
  tiles of different zooms by shifting the finer one's numbers, meets the bounds (`InsideMeets`).

`InstanceAssumption` of `MCMapScreen` says that no screen of the instance is too wide, so that its runs leave `OnTheMap` at an end of the world only.

Assumed there: the provers know nothing of powers, so that `TileImageSetAssumption` says that 2^z is positive and divides the world's side, and `PowerAssumption` how powers multiply; every scale rounds to a zoom
(`ScalesAssumption`); and no screen shows more columns or rows than the bound `MaxSpan` (`SpanAssumption`).

`MapFile_proofs`, for any files, tiles and damages: `SpecOnlyWhatTheTileShows`, `SpecSoundBlocksAreReported`, `SpecBackgroundIsWater`. Two arguments meet there:

- What the arithmetic means. The blocks of a query's rectangle are those that meet the tile (`BaseTilesAre`, `QueryIs`, `BlocksOfTileAre`, above the base zoom by multiplying,
  below it by dividing), the bits of `TileBitmask` are the subtiles of the block that do (`BitmaskIs`: the four quarters with one level between, one bit with two or more), so
  that the mask lets exactly the tile's ways pass (`MaskIs`), and the rows of the zoom table count exactly the elements of its zoom level (`ElementsOfTile`).
- What the loops do. The invariant says that the loop is in the rectangle or past its end (`Loop`), that in a block the elements left are the rest of those the tile shows (`Rest`), that what is reported
  is of blocks passed or of elements read (`OnlyPois`, `OnlyWays`), all of them as far as they are sound (`PassedReported`, `ReadReported`), and what is known of water (`WaterSoFar`). A step leaves its
  block for the next one, ends the query, or reads on (`BlockEnds`, `QueryEnds`, `BlockGoesOn`); the properties alone are not inductive, since they say nothing of where a query stands.

`SpecBackgroundIsWater` holds for a `long` of any width that takes an index entry (`EntryFits`: the 64-bit builds) with a background exactly where all blocks are water, and for a shorter one (the armv7 build) without any background:
the water bit is lost, and a sign in its place comes with a pointer that ends the query (`IsWater`).

Assumed there: the laws of powers of two (`PowerAssumption`), that a `long` is one or the other (`IndexAssumption`), and what every writer makes (`FilesAssumption`): a sub-file has the blocks of its grid, a block's elements are in the order of their zoom levels and counted by
its zoom table, ids tell elements apart, and where the index leaves no bytes for a block there are no elements. Index entries, heads and elements may be damaged in any combination.

Only model-checked:

- liveness, of every module: the prover has no rules for fairness or `ENABLED`.

## What the models say against the code

| run | what |
|---|---|
| `webtile_gaveup` | after "No more retries" (`RMWebTileImage.m:84`) the released connection still calls back, and an empty body starts a new connection. |
| `metatiles_diagonal` | after pans along both axes two views get the same meta tile and an assertion of `OSPMapView.m:232-235` fails. |

Further configurations are not among the runs of `PROJECT.json`: they are there to be run by hand (`tlc -config ParallelParse_eof.cfg MCParallelParse`; the module is `MC` and the first part of the
configuration's name). TLC ends each with the property violated that the table names:

| configuration | property | what |
|---|---|---|
| `ParallelParse_eof.cfg` | `EOFMeansTokenised` | a delegate that stops the tokeniser answers NSNotFound, which passes the test for the end of the text (`CPTokeniser.m:185`): EOF is pushed with text left over. `CPTokeniser.h:163` and `:173` and `CPTokenStream.h:18` say that there is an EOF only if the entire input was tokenised. |
| `ParallelParse_peek_blocks.cfg` | `PeekNeverBlocks` | `peekToken` waits for a token on an open empty stream; `CPTokenStream.h:51` says that it does not block. The parser relies on the waiting. |
| `ParallelParse_mapcss_restart.cfg` | `ErrorsAreSkipped` | `OSPMapCSSParser.m:177` answers offset 1 to any error, so the tokeniser goes back over what it has tokenised; `CPTokeniser.h:62` asks for a new location to go on from. |
| `MapScreen_setzoom.cfg` | `TiledAfterSetZoom` | `setMetersPerPixel:` zooms images and loaded bounds about the pixel (0, 0) (`RMMapContents.m:839`), the projection about the centre (`RMMercatorToScreenProjection.m:328`): the picture is displaced, and the bounds may hide that until the next move. |
| `MapScreen_south.cfg` | `ScreenIsTiled` | a tile outside the world makes the walk of `addTiles:` skip its step (`RMTileImageSet.m:357`): it stands still there and the rest of a screen over the southern edge gets no tiles. |
| `TileCaches_foreign.cfg` | `RowsAreOwn` | the database cache of a source that was left still observes an address (`RMDatabaseCache.m:113`) and stores the picture of the next source's image that comes to live there. |
| `MapFile_zoom.cfg` | `QueryZoomIsCovered` | the unsigned `zoomLevelMaximum` starts at 128 (`MapFileHeader.m:131`): a zoom above all sub-files, or between two, finds none; `MapFileHeader.m:31` promises "the closest possible zoom level which is covered by a sub-file". |
| `MapFile_tags.cfg` | `PoiTagsAreOwn` | all points of interest of a block share one dictionary of tags (`MapDatabase.m:522`), where the Java original clears its list for each. |

Two more observations are outside the runs' bounds and are listed under `hazards` only. With two threads that add at the same time `LeafWithinLimit` and `OnePlace` of
`QuadTree` fail (both threads read the same count, or both expand one node); `OSPMapServer` does run two parsers. And west or south of the world's
origin the truncating cast gives a meta tile one too high, so that the views no longer cover the screen. A third is in the models: on armv7 no tile ever gets a background of water (`IndexCache.m:56`), which `BackgroundIsWater` says.

## Not modelled

- Pictures: the renderers, layers, markers, paths and tiles' images. No property here could tell a right picture from a wrong one.
- Projections and other functions of doubles.
- Formats read in one pass: OSM XML and PBF, property lists, URLs; of a map file the decoding of integers and the deltas of coordinates, of which an element's damage is all that is left.
- `RMOSPTileSource`, which renders tiles and writes them to its own database: what it draws is a picture, and its list of images to write follows from the renderer.
- The grammar and table builders of CoreParse, and the cascade of MapCSS: pure functions, which `ParallelParse` takes as constants.
- Animated zooms: their steps are functions of times and floats.
- Generated and vendored code: protocol buffers, FMDB, SQLite, PROJ.4, and the Java originals of the reader.
- Applications and user interface code.
- External, modelled only from how `src/` uses it: `NSURLConnection`, `NSTimer`, `NSStream`, `NSXMLParser`, `NSConditionLock`, dispatch queues.

Undefined behaviour: the unlocked writes to `connectionQueue` and `currentConnections` in `OSPMapServer` are modelled as atomic; a torn write of an Objective-C collection has no outcome that a model could enumerate.

## Plan

The order puts first what several threads share and what a wrong step breaks for the user.

Done: `TokenStream`, `ParallelParse` and its proofs; `BlockGrammar`; `WebTile`; `MetaTiles` and its proofs along both axes; `TileGeometry`, `Areas`, `TileCover`, `TileArray`; `MapServer`; `QuadTree`; `TileImageSet` and `MapScreen`; `TileCaches`; `MapFile`.

Done too: the proofs of `WebTile`, `TileCaches`, `Areas`, `TileArray` and `MapServer` with both refinements of `TileCover`, `QuadTree`, `MapScreen` and `MapFile`.

Modules that could follow: `Grammar`, FIRST, FOLLOW and closures as recursive functions against their definitions, over small grammars, composed with `ParallelParse`, whose tables it would build; the cascade of
MapCSS and its cache; overlapping zoom animations over the zoom levels alone.
