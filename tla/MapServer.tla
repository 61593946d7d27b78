------------------------------ MODULE MapServer ------------------------------
(***************************************************************************)
(* OSPMapServer (OpenStreetPad): downloads the tiles of the map area that  *)
(* were not requested before, a few at a time, and parses each answer on a *)
(* thread of its own while it arrives.                                     *)
(*                                                                         *)
(* The main thread runs loadObjectsInBounds:, the callbacks of             *)
(* NSURLConnection and of the streams, and the block that ends a download; *)
(* each parser runs on a thread of a global queue, which also handles a    *)
(* parse error.  popConnectionQueue is called from both and locks self;    *)
(* each turn of its loop is a step.                                        *)
(*                                                                         *)
(* External: NSURLConnection and the stream pair call back on the run loop *)
(* of the thread that started them, and a parser's thread runs none;       *)
(* NSOutputStream announces space once, and again only after something has *)
(* been written (a write to a full stream blocks: here its callback comes  *)
(* later); writing to a stream whose reader has closed answers -1.         *)
(* Abstracted: an answer is a sequence of chunks, an object each (numbered *)
(* from 1) or Broken; requestedTiles is the set that TileArray implements, *)
(* which leaves the order of the subtiles of a tile open.  Of the OSPMap   *)
(* only the set of its contents is kept, which its lock guards; the tree   *)
(* that addObject: fills after it, without a lock, is QuadTree's.          *)
(***************************************************************************)
EXTENDS Areas

CONSTANTS
  MaxSimultaneousConnections,  \* OSPMapServerMaxSimultaneousConnections
  Capacity,                    \* chunks the stream pair holds
  Documents,                   \* the server's answers
  Loads,                       \* arguments of loadObjectsInBounds:withOutset:
  MaxLoads                     \* bound on the calls of it

Broken == 0
Main == 0
NoThread == -1

ASSUME MapServerAssumption ==
  /\ MaxSimultaneousConnections \in Nat \ {0} /\ Capacity \in Nat \ {0} /\ MaxLoads \in Nat
  /\ Documents \subseteq Seq(Nat)

\* A tile of MaxZoom need not be split for any outset.
ASSUME LoadsAssumption ==
  \A l \in Loads : l.bounds \in Rectangles /\ l.outset \in Nat /\ l.outset >= Unit

VARIABLES
  conns,            \* every OSPConnection made
  connectionQueue, currentConnections, requestedTiles,
  contents,         \* of the OSPMap, its cache: objects <<connection, object>>
  tiles, subTiles,  \* the loops of loadObjectsInBounds: still to do
  popping,          \* threads inside popConnectionQueue: Main, or the connection
                    \* whose parser's thread it is
  lock,             \* who holds @synchronized(self)
  finishing,        \* blocks dispatched to the main queue
  mapArea,          \* of the map view, the delegate
  crashed,          \* an NSRangeException was raised
  loads,            \* counts loadObjectsInBounds:
  asked, dropped,   \* history: cells load was called for, cells the delegate refused
  started, loaded   \* history: connections started, connections that ended well

vars == <<conns, connectionQueue, currentConnections, requestedTiles, contents, tiles, subTiles,
          popping, lock, finishing, mapArea, crashed, loads, asked, dropped, started, loaded>>
history == <<loads, asked, dropped, started, loaded>>

Requested == INSTANCE TileCover WITH covered <- requestedTiles

CellsOf(ts) == UNION {Cells[t] : t \in ts}
Ids == 1..Len(conns)

OSPConnection ==
  [tile : Tiles, document : Documents, http : {"queued", "running", "ended", "failed"},
   onMain : BOOLEAN, todo : Seq(Nat), data : Seq(Nat), pipe : Seq(Nat),
   armed : BOOLEAN, open : BOOLEAN,
   parser : {"none", "parsing", "ended", "failed", "abandoned"}]

TypeOK ==
  /\ conns \in Seq(OSPConnection)
  /\ connectionQueue \in Seq(Ids) /\ IsInjective(connectionQueue)
  /\ currentConnections \subseteq Ids \ ToSet(connectionQueue)
  /\ requestedTiles \subseteq TilesOfZoom(MaxZoom)
  /\ contents \subseteq Ids \X Nat
  /\ tiles \in Seq(Tiles) /\ subTiles \subseteq Tiles
  /\ popping \subseteq {Main} \cup Ids
  /\ lock \in {NoThread} \cup popping
  /\ finishing \in Seq(Ids) /\ IsInjective(finishing)
  /\ crashed \in BOOLEAN /\ loads \in 0..MaxLoads
  /\ started \in Seq(Ids) /\ IsInjective(started)
  /\ \A c \in Ids : Len(conns[c].pipe) <= Capacity

MainIsIdle == ~crashed /\ tiles = <<>> /\ subTiles = {} /\ Main \notin popping

-----------------------------------------------------------------------------
(* OSPConnection.                                                          *)

\* attemptToWriteToStream
AttemptToWriteToStream(rec) ==
  LET written == Min({Len(rec.data), Capacity - Len(rec.pipe)}) IN
  [rec EXCEPT !.pipe = @ \o SubSeq(rec.data, 1, written),
              !.data = SubSeq(@, written + 1, Len(@)),
              !.armed = @ \/ written > 0]

MayWrite(rec) == rec.data = <<>> \/ (rec.open /\ Len(rec.pipe) < Capacity)

\* A callback of NSURLConnection or of the stream, on the main thread.
Update(c, rec) ==
  /\ MayWrite(rec)
  /\ conns' = [conns EXCEPT ![c] = AttemptToWriteToStream(rec)]
  /\ UNCHANGED crashed

Running(c) == MainIsIdle /\ c \in Ids /\ conns[c].http = "running" /\ conns[c].onMain

\* connection:didReceiveData:  To a closed stream write answers -1, and the
\* range of that many bytes to replace raises an exception.
DidReceiveData(c) ==
  /\ Running(c) /\ conns[c].todo # <<>>
  /\ \E n \in 1..Len(conns[c].todo) :
       LET d == SubSeq(conns[c].todo, 1, n)
           rec == [conns[c] EXCEPT !.todo = SubSeq(@, n + 1, Len(@)), !.data = @ \o d] IN
       IF rec.parser = "failed"
       THEN crashed' = TRUE /\ UNCHANGED conns
       ELSE Update(c, rec)
  /\ UNCHANGED <<connectionQueue, currentConnections, requestedTiles, contents, tiles, subTiles,
                 popping, lock, finishing, mapArea, history>>

\* connectionDidFinishLoading:
DidFinishLoading(c) ==
  /\ Running(c) /\ conns[c].todo = <<>>
  /\ Update(c, [conns[c] EXCEPT !.http = "ended"])
  /\ UNCHANGED <<connectionQueue, currentConnections, requestedTiles, contents, tiles, subTiles,
                 popping, lock, finishing, mapArea, history>>

\* connection:didFailWithError: of the map server, on thread t, is its first
\* half: the connection leaves currentConnections; the second is
\* popConnectionQueue.  Mutant: the second half is left out.
RemoveConnectionOnly(c, t) ==
  /\ currentConnections' = currentConnections \ {c}
  /\ UNCHANGED popping

RemoveConnection(c, t) ==
  /\ currentConnections' = currentConnections \ {c}
  /\ popping' = popping \cup {t}

\* connection:didFailWithError: - with its connection gone nobody holds the
\* OSPConnection, and its parser has no delegate any more.
DidFailWithError(c) ==
  /\ Running(c)
  /\ conns' = [conns EXCEPT ![c].http = "failed",
                            ![c].parser = IF @ = "parsing" THEN "abandoned" ELSE @,
                            ![c].armed = FALSE]
  /\ RemoveConnection(c, Main)
  /\ UNCHANGED <<connectionQueue, requestedTiles, contents, tiles, subTiles, lock, finishing,
                 mapArea, crashed, history>>

\* Mutant of stream:handleEvent: - closes before the answer has ended.
HasSpaceCloseEarly(c) ==
  /\ MainIsIdle /\ c \in Ids /\ conns[c].onMain
  /\ conns[c].armed /\ conns[c].open /\ Len(conns[c].pipe) < Capacity
  /\ conns[c].parser = "parsing"
  /\ conns' = [conns EXCEPT ![c] =
       LET rec == [@ EXCEPT !.armed = FALSE] IN
       IF rec.data = <<>> THEN [rec EXCEPT !.open = FALSE] ELSE AttemptToWriteToStream(rec)]
  /\ UNCHANGED <<connectionQueue, currentConnections, requestedTiles, contents, tiles, subTiles,
                 popping, lock, finishing, mapArea, crashed, history>>

\* stream:handleEvent:
HasSpaceAvailable(c) ==
  /\ MainIsIdle /\ c \in Ids /\ conns[c].onMain
  /\ conns[c].armed /\ conns[c].open /\ Len(conns[c].pipe) < Capacity
  /\ conns[c].parser = "parsing"
  /\ conns' = [conns EXCEPT ![c] =
       LET rec == [@ EXCEPT !.armed = FALSE] IN
       IF rec.http = "ended" /\ rec.data = <<>>
       THEN [rec EXCEPT !.open = FALSE]
       ELSE AttemptToWriteToStream(rec)]
  /\ UNCHANGED <<connectionQueue, currentConnections, requestedTiles, contents, tiles, subTiles,
                 popping, lock, finishing, mapArea, crashed, history>>

-----------------------------------------------------------------------------
(* The parser's thread.                                                    *)

Parsing(c) == ~crashed /\ c \in Ids /\ conns[c].parser = "parsing"

\* parser:didFindAPIObject: addObject: of the OSPMap adds the object to its
\* contents under the lock (and then to its tree).
DidFindAPIObject(c) ==
  /\ Parsing(c) /\ conns[c].pipe # <<>> /\ Head(conns[c].pipe) # Broken
  /\ contents' = contents \cup {<<c, Head(conns[c].pipe)>>}
  /\ conns' = [conns EXCEPT ![c].pipe = Tail(@)]
  /\ UNCHANGED <<connectionQueue, currentConnections, requestedTiles, tiles, subTiles,
                 popping, lock, finishing, mapArea, crashed, history>>

\* parser:didFailWithError:
ParserFails(c) ==
  /\ Parsing(c) /\ conns[c].pipe # <<>> /\ Head(conns[c].pipe) = Broken
  /\ conns' = [conns EXCEPT ![c].parser = "failed"]
  /\ RemoveConnection(c, c)
  /\ UNCHANGED <<connectionQueue, requestedTiles, contents, tiles, subTiles, lock, finishing,
                 mapArea, crashed, history>>

\* parserDidEndDocument:
ParserDidEndDocument(c) ==
  /\ Parsing(c) /\ conns[c].pipe = <<>> /\ ~conns[c].open
  /\ conns' = [conns EXCEPT ![c].parser = "ended"]
  /\ finishing' = Append(finishing, c)
  /\ UNCHANGED <<connectionQueue, currentConnections, requestedTiles, contents, tiles, subTiles,
                 popping, lock, mapArea, crashed, history>>

-----------------------------------------------------------------------------
(* OSPMapServer.                                                           *)

\* The delegate's dataSource:shouldLoadObjectsInArea:
ShouldLoadObjectsInArea(t) == IntersectsRect(mapArea, RectFromTile(t))

\* loadObjectsInBounds:withOutset: - the map view has set its map area to the
\* bounds before the call.
LoadObjectsInBounds(l) ==
  /\ MainIsIdle /\ loads < MaxLoads
  /\ loads' = loads + 1
  /\ mapArea' = l.bounds
  /\ tiles' = TilesFromRect(l.bounds, l.outset)
  /\ asked' = asked \cup CellsOf(ToSet(tiles'))
  /\ UNCHANGED <<conns, connectionQueue, currentConnections, requestedTiles, contents, subTiles,
                 popping, lock, finishing, crashed, dropped, started, loaded>>

\* The next tile of the outer loop: its subtiles that were not requested.
NextTile ==
  /\ ~crashed /\ tiles # <<>> /\ subTiles = {} /\ Main \notin popping
  /\ tiles' = Tail(tiles)
  /\ subTiles' = Requested!NotIncluded(requestedTiles, Head(tiles))
  /\ UNCHANGED <<conns, connectionQueue, currentConnections, requestedTiles, contents,
                 popping, lock, finishing, mapArea, crashed, history>>

\* requestDataInTile: of the inner loop, up to popConnectionQueue.
RequestDataInTile ==
  /\ ~crashed /\ Main \notin popping
  /\ \E t \in subTiles, document \in Documents :
       /\ subTiles' = subTiles \ {t}
       /\ conns' = Append(conns,
            [tile |-> t, document |-> document, http |-> "queued", onMain |-> FALSE,
             todo |-> document, data |-> <<>>, pipe |-> <<>>,
             armed |-> FALSE, open |-> FALSE, parser |-> "none"])
  /\ connectionQueue' = Append(connectionQueue, Len(conns'))
  /\ popping' = popping \cup {Main}
  /\ UNCHANGED <<currentConnections, requestedTiles, contents, tiles, lock, finishing,
                 mapArea, crashed, history>>

\* The body of popConnectionQueue's loop.  A started connection belongs to
\* the run loop of the thread that pops.
StartIf(wanted, c, t, marked) ==
  IF wanted
  THEN /\ requestedTiles' = marked
       /\ currentConnections' = currentConnections \cup {c}
       /\ conns' = [conns EXCEPT ![c].http = "running", ![c].onMain = (t = Main),
                                 ![c].armed = TRUE, ![c].open = TRUE, ![c].parser = "parsing"]
       /\ started' = Append(started, c)
       /\ UNCHANGED dropped
  ELSE /\ dropped' = IF ShouldLoadObjectsInArea(conns[c].tile) THEN dropped
                     ELSE dropped \cup Cells[conns[c].tile]
       /\ UNCHANGED <<conns, requestedTiles, currentConnections, started>>

\* Mutant: containsTile: is not asked.
StartUnchecked(c, t) ==
  StartIf(ShouldLoadObjectsInArea(conns[c].tile), c, t,
          Requested!AddTo(requestedTiles, conns[c].tile))

Start(c, t) ==
  StartIf(/\ ShouldLoadObjectsInArea(conns[c].tile)
          /\ ~Requested!Contains(requestedTiles, conns[c].tile), c, t,
          Requested!AddTo(requestedTiles, conns[c].tile))

\* A turn of the loop on thread t, or its end, which unlocks.
PopTurn(t, more) ==
  /\ ~crashed /\ t \in popping /\ lock \in {NoThread, t}
  /\ \/ /\ more
        /\ lock' = t
        /\ connectionQueue' = Tail(connectionQueue)
        /\ Start(Head(connectionQueue), t)
        /\ UNCHANGED popping
     \/ /\ ~more
        /\ lock' = NoThread /\ popping' = popping \ {t}
        /\ UNCHANGED <<conns, connectionQueue, currentConnections, requestedTiles,
                       dropped, started>>
  /\ UNCHANGED <<contents, tiles, subTiles, finishing, mapArea, crashed, loads, asked, loaded>>

\* Mutants: one connection more; takes the connection before it counts.
PopOneMore(t) ==
  PopTurn(t, connectionQueue # <<>>
               /\ Cardinality(currentConnections) <= MaxSimultaneousConnections)

PopBeforeCounting(t) ==
  IF connectionQueue # <<>> /\ Cardinality(currentConnections) = MaxSimultaneousConnections
  THEN /\ ~crashed /\ t \in popping /\ lock \in {NoThread, t}
       /\ connectionQueue' = Tail(connectionQueue)
       /\ lock' = NoThread /\ popping' = popping \ {t}
       /\ UNCHANGED <<conns, currentConnections, requestedTiles, dropped, started,
                      contents, tiles, subTiles, finishing, mapArea, crashed, loads, asked, loaded>>
  ELSE PopTurn(t, connectionQueue # <<>>)

PopConnectionQueue(t) ==
  PopTurn(t, connectionQueue # <<>>
               /\ Cardinality(currentConnections) < MaxSimultaneousConnections)

\* connectionDidFinishLoading: of the map server, the block of
\* parserDidEndDocument:, up to popConnectionQueue.
ConnectionDidFinishLoading ==
  /\ MainIsIdle /\ finishing # <<>>
  /\ finishing' = Tail(finishing)
  /\ loaded' = Append(loaded, Head(finishing))
  /\ RemoveConnection(Head(finishing), Main)
  /\ UNCHANGED <<conns, connectionQueue, requestedTiles, contents, tiles, subTiles, lock,
                 mapArea, crashed, loads, asked, dropped, started>>

-----------------------------------------------------------------------------
\* initWithURL:
Init ==
  /\ conns = <<>> /\ connectionQueue = <<>> /\ currentConnections = {}
  /\ requestedTiles = {} /\ contents = {}
  /\ tiles = <<>> /\ subTiles = {} /\ popping = {} /\ lock = NoThread /\ finishing = <<>>
  /\ mapArea = RectFromTile(World)
  /\ crashed = FALSE /\ loads = 0
  /\ asked = {} /\ dropped = {} /\ started = <<>> /\ loaded = <<>>

\* Bound: requests made by MaxLoads calls.
MaxConnections == MaxLoads * 4^MaxZoom

Download(c) ==
  \/ DidReceiveData(c)
  \/ DidFinishLoading(c)
  \/ DidFailWithError(c)
  \/ HasSpaceAvailable(c)
  \/ DidFindAPIObject(c)
  \/ ParserFails(c)
  \/ ParserDidEndDocument(c)
  \/ PopConnectionQueue(c)

Next ==
  \/ \E l \in Loads : LoadObjectsInBounds(l)
  \/ NextTile
  \/ RequestDataInTile
  \/ PopConnectionQueue(Main)
  \/ ConnectionDidFinishLoading
  \/ \E c \in 1..MaxConnections : Download(c)

Spec == Init /\ [][Next]_vars

-----------------------------------------------------------------------------
(* Never more connections at work than OSPMapServerMaxSimultaneous-        *)
(* Connections, although two threads count and start them; what they share *)
(* stays consistent (TypeOK: no connection is both queued and at work).    *)
ConnectionLimit ==
  TypeOK /\ Cardinality(currentConnections) <= MaxSimultaneousConnections

(* No tile is downloaded that was all requested before, even when it was   *)
(* queued before it was requested: the check is made when it is started.   *)
NoTileTwice ==
  \A i \in 1..Len(started) :
    ~ Cells[conns[started[i]].tile] \subseteq CellsOf({conns[started[j]].tile : j \in 1..(i - 1)})

(* Nothing loadObjectsInBounds: was called for is forgotten: it has been   *)
(* requested, is still to be, or was refused by the delegate.  And what is *)
(* held to be requested (it is not asked for again) was asked for.         *)
NothingForgotten ==
  /\ asked \subseteq requestedTiles \cup dropped \cup CellsOf(ToSet(tiles)) \cup CellsOf(subTiles)
                      \cup CellsOf({conns[c].tile : c \in ToSet(connectionQueue)})
  /\ requestedTiles = CellsOf({conns[c].tile : c \in ToSet(started)})

(* A connection waits only while all the others allowed are at work, or a  *)
(* thread is about to start it.                                            *)
NoIdleSlot ==
  connectionQueue # <<>> /\ Cardinality(currentConnections) < MaxSimultaneousConnections
    => popping # {}

(* When the delegate is told that an area is loaded, every object of the   *)
(* answer has been handed over: it is in the contents of the OSPMap.  (Not *)
(* so, it may be, in its tree: there two parsers lose objects.)            *)
LoadedIsHandedOver ==
  \A i \in 1..Len(loaded) :
    LET c == loaded[i] IN
    \A n \in 1..Len(conns[c].document) : <<c, conns[c].document[n]>> \in contents
=============================================================================
