------------------------------- MODULE WebTile -------------------------------
(***************************************************************************)
(* RMWebTileImage (MapView): one tile fetched over HTTP, with its retries. *)
(*                                                                         *)
(* NSURLConnection and NSTimer are outside src/: a connection retains its  *)
(* delegate and calls it back until it has ended, whether or not the       *)
(* delegate still holds it, unless it is cancelled; a timer fires once.    *)
(* Everything happens on the main thread, one callback at a time.          *)
(*                                                                         *)
(* Abstracted: the bytes received are the set of the statuses of the       *)
(* answers they came with.                                                 *)
(***************************************************************************)
EXTENDS Naturals, Sequences, FiniteSets

CONSTANTS
  Retries,     \* kWebTileRetries
  Statuses,    \* what the server may answer: "ok" (< 400), "notFound" (404),
               \* "unavailable" (500, 503), "refused" (any other)
  MayNotStart, \* NSURLConnection's init may answer nil
  MaxStarted   \* bound on the connections started

AllStatuses == {"ok", "notFound", "unavailable", "refused"}

ASSUME WebTileAssumption ==
  /\ Retries \in Nat /\ MaxStarted \in Nat
  /\ Statuses \subseteq AllStatuses /\ MayNotStart \in BOOLEAN

VARIABLES
  conns,       \* every connection started: its phase, the status it answered,
               \* whether its request had an url
  connection,  \* index of the one the tile holds, 0 for nil
  retries,     \* retries left
  timers,      \* timers set and not yet fired
  data,        \* the bytes received
  released,    \* data and url were released and set to nil
  contents,    \* what the tile's layer shows
  retrieved,   \* history: RMTileRetrieved notifications
  errors,      \* history: an RMTileError was posted
  loaded,      \* history: the bytes of RMMapImageLoadedNotification
  gaveUp,      \* history: the retries were used up
  removed      \* history: the tile was removed from the screen

vars == <<conns, connection, retries, timers, data, released, contents,
          retrieved, errors, loaded, gaveUp, removed>>

TypeOK ==
  /\ conns \in Seq([phase : {"waiting", "receiving", "over"},
                   status : AllStatuses \cup {"none"}, hasURL : BOOLEAN])
  /\ connection \in 0..Len(conns)
  /\ retries \in 0..Retries
  /\ timers \in Nat
  /\ data \in SUBSET AllStatuses
  /\ released \in BOOLEAN
  /\ contents \in {"blank", "missingTile", "errorTile", "image", "nothing"}
  /\ retrieved \in Nat
  /\ errors \in BOOLEAN
  /\ loaded \in Seq(SUBSET AllStatuses)
  /\ gaveUp \in BOOLEAN /\ removed \in BOOLEAN

Live == {c \in 1..Len(conns) : conns[c].phase # "over"}

-----------------------------------------------------------------------------
(* The methods of the tile, on the connections cs a callback found.        *)

\* startLoading:
StartLoading(cs) ==
  \/ /\ Len(cs) < MaxStarted
     /\ conns' = Append(cs, [phase |-> "waiting", status |-> "none", hasURL |-> ~released])
     /\ connection' = Len(conns')
     /\ UNCHANGED <<contents, retrieved>>
  \/ /\ MayNotStart
     /\ conns' = cs
     /\ connection' = 0
     /\ contents' = "errorTile"
     /\ retrieved' = retrieved + 1

\* Mutants of requestTile: the end of the retries is passed over in silence;
\* the tile does not wait.
RequestTileQuietly(cs) ==
  \/ connection = 0 /\ StartLoading(cs) /\ UNCHANGED <<retries, timers, errors, gaveUp>>
  \/ /\ connection # 0 /\ retries = 0
     /\ connection' = 0 /\ conns' = cs /\ gaveUp' = TRUE
     /\ UNCHANGED <<retries, timers, contents, retrieved, errors>>
  \/ /\ connection # 0 /\ retries > 0
     /\ connection' = 0 /\ conns' = cs
     /\ retries' = retries - 1
     /\ timers' = timers + 1
     /\ UNCHANGED <<contents, retrieved, errors, gaveUp>>

RequestTileTwice(cs) ==
  \/ connection = 0 /\ StartLoading(cs) /\ UNCHANGED <<retries, timers, errors, gaveUp>>
  \/ /\ connection # 0
     /\ StartLoading(cs)
     /\ retries' = IF retries = 0 THEN 0 ELSE retries - 1
     /\ timers' = timers + 1
     /\ UNCHANGED <<errors, gaveUp>>

RequestTile(cs) ==
  \/ connection = 0 /\ StartLoading(cs) /\ UNCHANGED <<retries, timers, errors, gaveUp>>
  \/ /\ connection # 0 /\ retries = 0
     /\ connection' = 0 /\ conns' = cs
     /\ contents' = "errorTile"
     /\ retrieved' = retrieved + 1
     /\ errors' = TRUE /\ gaveUp' = TRUE
     /\ UNCHANGED <<retries, timers>>
  \/ /\ connection # 0 /\ retries > 0
     /\ connection' = 0 /\ conns' = cs
     /\ retries' = retries - 1
     /\ timers' = timers + 1
     /\ UNCHANGED <<contents, retrieved, errors, gaveUp>>

\* Mutants of cancelLoading: the connection is kept; it is only released.
CancelKeeping(cs) ==
  IF connection = 0 THEN conns' = cs /\ UNCHANGED <<connection, retrieved>>
  ELSE /\ conns' = [cs EXCEPT ![connection].phase = "over"]
       /\ UNCHANGED connection
       /\ retrieved' = retrieved + 1

CancelReleasing(cs) ==
  IF connection = 0 THEN conns' = cs /\ UNCHANGED <<connection, retrieved>>
  ELSE /\ conns' = cs
       /\ connection' = 0
       /\ retrieved' = retrieved + 1

\* cancelLoading does nothing when the tile holds no connection.
CancelLoading(cs) ==
  IF connection = 0 THEN conns' = cs /\ UNCHANGED <<connection, retrieved>>
  ELSE /\ conns' = [cs EXCEPT ![connection].phase = "over"]
       /\ connection' = 0
       /\ retrieved' = retrieved + 1

-----------------------------------------------------------------------------
(* Callbacks.                                                              *)

Waiting(c)   == c <= Len(conns) /\ conns[c].phase = "waiting"
Receiving(c) == c <= Len(conns) /\ conns[c].phase = "receiving"
Phase(c, phase) == [conns EXCEPT ![c].phase = phase]

\* connection:didReceiveResponse:
DidReceiveResponse(c, status) ==
  /\ Waiting(c) /\ conns[c].hasURL
  /\ LET cs == [conns EXCEPT ![c].phase = "receiving", ![c].status = status] IN
     \/ /\ status = "ok"
        /\ conns' = cs
        /\ UNCHANGED <<connection, retries, timers, contents, retrieved, errors, gaveUp>>
     \/ /\ status \in {"notFound", "refused"}
        /\ CancelLoading(cs)
        /\ contents' = IF status = "notFound" THEN "missingTile" ELSE contents
        /\ errors' = TRUE
        /\ UNCHANGED <<retries, timers, gaveUp>>
     \/ status = "unavailable" /\ RequestTile(cs)
  /\ data' = {}
  /\ UNCHANGED <<released, loaded, removed>>

\* connection:didReceiveData:
DidReceiveData(c) ==
  /\ Receiving(c)
  /\ data' = IF released THEN data ELSE data \cup {conns[c].status}
  /\ UNCHANGED <<conns, connection, retries, timers, released, contents,
                 retrieved, errors, loaded, gaveUp, removed>>

\* connection:didFailWithError: - a request without url fails as one with an
\* unsupported url does, with an error that is worth a retry.
DidFailWithError(c, retry) ==
  /\ Waiting(c) \/ Receiving(c)
  /\ ~conns[c].hasURL => retry
  /\ IF retry THEN RequestTile(Phase(c, "over"))
     ELSE /\ CancelLoading(Phase(c, "over"))
          /\ errors' = TRUE
          /\ UNCHANGED <<retries, timers, contents, gaveUp>>
  /\ UNCHANGED <<data, released, loaded, removed>>

\* connectionDidFinishLoading: - what is no image shows as nothing.
DidFinishLoading(c) ==
  /\ Receiving(c)
  /\ IF released \/ data = {}
     THEN RequestTile(Phase(c, "over")) /\ UNCHANGED <<data, released, loaded>>
     ELSE /\ loaded' = Append(loaded, data)
          /\ contents' = IF data = {"ok"} THEN "image" ELSE "nothing"
          /\ data' = {} /\ released' = TRUE
          /\ conns' = Phase(c, "over") /\ connection' = 0
          /\ retrieved' = retrieved + 1
          /\ UNCHANGED <<retries, timers, errors, gaveUp>>
  /\ UNCHANGED removed

\* The timer of requestTile: startLoading:
TimerFires ==
  /\ timers > 0
  /\ timers' = timers - 1
  /\ StartLoading(conns)
  /\ UNCHANGED <<retries, data, released, errors, loaded, gaveUp, removed>>

\* tileRemovedFromScreen:
TileRemovedFromScreen ==
  /\ removed' = TRUE
  /\ CancelLoading(conns)
  /\ UNCHANGED <<retries, timers, data, released, contents, errors, loaded, gaveUp>>

-----------------------------------------------------------------------------
\* initWithTile:FromURL:
Init ==
  /\ \/ conns = <<[phase |-> "waiting", status |-> "none", hasURL |-> TRUE]>> /\ connection = 1
        /\ contents = "blank" /\ retrieved = 0
     \/ MayNotStart /\ conns = <<>> /\ connection = 0 /\ contents = "errorTile" /\ retrieved = 1
  /\ retries = Retries /\ timers = 0
  /\ data = {} /\ released = FALSE
  /\ errors = FALSE /\ loaded = <<>> /\ gaveUp = FALSE /\ removed = FALSE

Callback(c) ==
  \/ \E status \in Statuses : DidReceiveResponse(c, status)
  \/ DidReceiveData(c)
  \/ \E retry \in BOOLEAN : DidFailWithError(c, retry)
  \/ DidFinishLoading(c)

Next ==
  \/ \E c \in 1..MaxStarted : Callback(c)
  \/ TimerFires
  \/ TileRemovedFromScreen

Spec == Init /\ [][Next]_vars

\* A connection ends sooner or later (timeoutInterval:30.0), a timer fires.
Ends(c) ==
  \/ DidFinishLoading(c)
  \/ \E retry \in BOOLEAN : DidFailWithError(c, retry)
  \/ \E status \in Statuses : DidReceiveResponse(c, status)

FairSpec ==
  /\ Spec
  /\ \A c \in 1..MaxStarted : WF_vars(Ends(c))
  /\ WF_vars(TimerFires)

-----------------------------------------------------------------------------
(* A tile that was requested is eventually retrieved: RMTileRequested is   *)
(* always followed by an RMTileRetrieved, whatever the server answers.     *)
TileIsRetrieved == <>(retrieved > 0)

Quiescent == Live = {} /\ timers = 0

(* When nothing more is under way for a tile it shows something, or an     *)
(* RMTileError told why not, or it was removed before.                     *)
NoSilentFailure == Quiescent => contents # "blank" \/ errors \/ removed

\* A 500 or 503 makes the tile leave a connection behind that still calls back.
Busy == \E c \in 1..Len(conns) : conns[c].status = "unavailable"

(* Unless the server is busy at most one connection or timer works for the *)
(* tile at a time, and the tile makes the first attempt and                *)
(* kWebTileRetries more.                                                   *)
OneAtATime ==
  /\ TypeOK
  /\ ~Busy => Cardinality(Live) + timers <= 1 /\ Len(conns) <= Retries + 1

(* ... RMTileRequested is answered by one RMTileRetrieved.                 *)
RetrievedOnce == ~Busy => retrieved <= 1

(* However many connections a busy server made the tile leave behind, the  *)
(* listeners (the caches that store it) get at most one image for it, and  *)
(* unless the server was busy it is one.                                   *)
OnlyImagesAreLoaded ==
  /\ Len(loaded) <= 1
  /\ ~Busy => \A i \in 1..Len(loaded) : loaded[i] = {"ok"}

(* RMWebTileImage.m:84, on retries == 0: "No more retries".  Once they are *)
(* used up the tile starts no connection again.                            *)
NoMoreRetries == [][gaveUp => Len(conns') <= Len(conns)]_vars
=============================================================================
