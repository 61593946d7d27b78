------------------------------ MODULE MapScreen ------------------------------
(***************************************************************************)
(* RMMapContents and RMTileLoader (MapView): the part of the map the       *)
(* screen shows, and the tile images loaded for it.                        *)
(*                                                                         *)
(* A screen is [x, y, mpp, w, h]: x is the west end and y the south end    *)
(* of the map it shows (the origin of RMMercatorToScreenProjection is its  *)
(* lower left corner), mpp the metersPerPixel, w and h its size in pixels. *)
(* Gestures, answers to the images' requests and the timer that resumes    *)
(* expensive operations interleave; each is one turn of the main run loop. *)
(***************************************************************************)
EXTENDS TileImageSet

CONSTANTS
  TilePixels,    \* tileSideLength
  MinMpp, MaxMpp,  \* the scales of the maximum and the minimum zoom
  FirstScreen,   \* what init leaves on the screen
  Steps,         \* the deltas of moveBy:, records [x, y] in pixels
  Factors,       \* the scales zoomByFactor: and setZoom: are asked for
  Pivots,        \* the pixels zoomed about
  Centers,       \* the points of setMapCenter:, records [x, y]
  Frames,        \* the sizes of setFrame:, records [w, h]
  Cached,        \* the tiles the caches of the tile source hold
  NotLoadedStates,  \* what a request ends with that brings no image: proxy, failed
  MaxGestures,   \* bound: how often the user or the application moves the screen
  Overscroll     \* bound: how far the screen goes beyond the north and south ends of the world

VARIABLES
  screen,
  images,        \* imagesOnScreen: a function from tiles to images
  zoom,          \* its zoom
  loadedBounds,  \* of the tile loader: a place of the map, or NoBounds
  loadedZoom,
  loadedTiles,   \* FALSE: the dummy tile
  suppressLoading,
  expensive,     \* performExpensiveOperations
  waiting,       \* the loader observes RMResumeExpensiveOperations
  aligned,       \* history: no setZoom: since the images were last placed
  gestures

loader == <<loadedBounds, loadedZoom, loadedTiles>>
vars == <<screen, images, zoom, loader, suppressLoading, expensive, waiting, aligned, gestures>>

\* The screens of a map whose scale is within the limits of the zoom.
Screens == [x : Int, y : Int, mpp : MinMpp..MaxMpp, w : Nat, h : Nat]

ASSUME MapScreenAssumption ==
  /\ MinMpp \in Nat \ {0} /\ MaxMpp \in Nat
  /\ FirstScreen \in Screens
  /\ Steps \subseteq [x : Int, y : Int] /\ Factors \subseteq Int
  /\ Pivots \subseteq [x : Int, y : Int] /\ Centers \subseteq [x : Int, y : Int]
  /\ Frames \subseteq [w : Nat, h : Nat]
  /\ NotLoadedStates \subseteq ImageStates \ {"loading", "shown"}

Rect(x, y, w, h) == [x |-> x, y |-> y, w |-> w, h |-> h]
NoBounds == Rect(0, 0, 0, 0)

-----------------------------------------------------------------------------
\* roundf(log2(...)) of a scale, normaliseZoom: to the source's zooms.
RoundsTo(mpp, z) ==
  LET pixels == TilePixels * mpp * 2^(z + 1) IN
  pixels * pixels <= 8 * WorldSide * WorldSide /\ 2 * WorldSide * WorldSide < pixels * pixels
RoundedZoom(mpp) == CHOOSE z \in -1..(MaxTileZoom + 1) : RoundsTo(mpp, z)
\* The limits of the zoom are such that it can be rounded.
ASSUME ScalesAssumption ==
  \A mpp \in MinMpp..MaxMpp : \E z \in -1..(MaxTileZoom + 1) : RoundsTo(mpp, z)
NormalisedZoom(mpp) == Max({MinTileZoom, Min({MaxTileZoom, RoundedZoom(mpp)})})

\* MaxSpan bounds what a screen of any size shows at any scale.
ScreenSizes == {[w |-> FirstScreen.w, h |-> FirstScreen.h]} \union Frames
ASSUME SpanAssumption ==
  \A f \in ScreenSizes, mpp \in MinMpp..MaxMpp :
    LET side == TileSide(NormalisedZoom(mpp)) IN
    f.w * mpp + side - 1 <= MaxSpan * side /\ f.h * mpp + side - 1 <= MaxSpan * side

\* wrapPointHorizontally: and constrainPointHorizontally:
Wrap(x) == IF x < 0 THEN x % WorldSide ELSE IF x > WorldSide THEN 1 + ((x - 1) % WorldSide) ELSE x

Top(s) == s.y - s.h * s.mpp
Bounds(s) == Rect(s.x, Top(s), s.w * s.mpp, s.h * s.mpp)

\* tileBounds.  The cast of a negative row to unsigned gives row 0.
TileBounds(s) ==
  LET z == NormalisedZoom(s.mpp)
      row == Max({0, Top(s) \div TileSide(z)})
  IN [zoom |-> z, x |-> Wrap(s.x) \div TileSide(z), y |-> row,
      dx |-> Wrap(s.x) % TileSide(z), dy |-> Top(s) - row * TileSide(z),
      w |-> s.w * s.mpp, h |-> s.h * s.mpp, left |-> s.x, top |-> Top(s)]

ContainsRect(a, b) ==
  a.x <= b.x /\ a.x + a.w >= b.x + b.w /\ a.y <= b.y /\ a.y + a.h >= b.y + b.h

\* screenIsLoaded
\* Mutant: the zoom is not compared.
ScreenIsLoadedAnyZoom(s, bounds, z) == ContainsRect(bounds, Bounds(s))

ScreenIsLoaded(s, bounds, z) == ContainsRect(bounds, Bounds(s)) /\ NormalisedZoom(s.mpp) = z

\* updateLoadedImages, once the screen is s, the images and the loaded bounds
\* have moved with it (together: all alike), and tiles says whether loadedTiles
\* is real.
UpdateLoadedImages(s, moved, bounds, tiles, together) ==
  /\ screen' = s
  /\ \/ /\ suppressLoading' \/ ~ expensive' \/ ScreenIsLoaded(s, bounds, loadedZoom)
        /\ waiting' = IF suppressLoading' THEN waiting ELSE ~ expensive'
        /\ images' = moved
        /\ loadedBounds' = bounds
        /\ loadedTiles' = tiles
        /\ aligned' = together
        /\ UNCHANGED <<zoom, loadedZoom>>
     \/ /\ ~ suppressLoading' /\ expensive' /\ ~ ScreenIsLoaded(s, bounds, loadedZoom)
        /\ waiting' = FALSE
        /\ LET r == TileBounds(s) IN
           /\ zoom' = r.zoom
           /\ LET added == AddTiles(r.zoom, SetZoomTo(zoom, moved, r.zoom), r, Cached) IN
              images' = IF tiles THEN RemoveTilesOutsideOf(added, r) ELSE added
           /\ loadedBounds' = WholeTiles(r)
           /\ loadedZoom' = r.zoom
        /\ loadedTiles' = TRUE
        /\ aligned' = TRUE

-----------------------------------------------------------------------------
ShiftImages(dx, dy) == [t \in DOMAIN images |-> [images[t] EXCEPT !.at = [x |-> @.x + dx, y |-> @.y + dy]]]
ShiftBounds(dx, dy) ==
  IF loadedBounds = NoBounds THEN NoBounds
  ELSE [loadedBounds EXCEPT !.x = @ + dx, !.y = @ + dy]

Allowed(s) == Top(s) >= -Overscroll /\ s.y <= WorldSide + Overscroll

\* A change of the screen that images and loaded bounds follow, up to the
\* wrapping of the origin.
Follow(s) ==
  LET wrapped == [s EXCEPT !.x = Wrap(s.x)]
      dx == wrapped.x - s.x
  IN /\ Allowed(s)
     /\ UNCHANGED <<suppressLoading, expensive>>
     /\ UpdateLoadedImages(wrapped, ShiftImages(dx, 0), ShiftBounds(dx, 0), loadedTiles, aligned)

\* moveBy:
MoveBy(delta) ==
  Follow([screen EXCEPT !.x = @ - delta.x * screen.mpp, !.y = @ - delta.y * screen.mpp])

\* adjustZoomForBoundingMask: - the world is never narrower than the screen.
BoundedMpp(mpp) == IF WorldSide < mpp * screen.w THEN WorldSide \div screen.w ELSE mpp

\* zoomByFactor:near: (no-op outside of the zoom's limits)
ZoomByFactor(asked, pivot) ==
  LET mpp == BoundedMpp(asked)
      above == screen.h - pivot.y
  IN /\ MinMpp < mpp /\ mpp < MaxMpp
     /\ Follow([screen EXCEPT !.mpp = mpp,
                  !.x = @ + pivot.x * (screen.mpp - mpp),
                  !.y = @ - above * (screen.mpp - mpp)])

-----------------------------------------------------------------------------
\* setProjectedCenter:
Centered(s, x, y) ==
  [s EXCEPT !.x = Wrap(x) - (s.w * s.mpp) \div 2, !.y = y + (s.h * s.mpp) \div 2]

\* A change of the screen that leaves images and loaded bounds at their
\* pixels.  reload: the loaded bounds are cleared.
Jump(s, reload, tiles, set) ==
  LET dx == s.x - screen.x
      dy == Top(s) - Top(screen)
  IN /\ Allowed(s)
     /\ UNCHANGED <<suppressLoading, expensive>>
     /\ UpdateLoadedImages(s, Restrict(ShiftImages(dx, dy), set),
          IF reload THEN NoBounds ELSE ShiftBounds(dx, dy), tiles, reload /\ aligned)

\* setMapCenter:, moveToProjectedPoint:
SetMapCenter(c) == Jump(Centered(screen, c.x, c.y), TRUE, loadedTiles, DOMAIN images)

\* setZoom: and setMetersPerPixel: - the screen keeps its centre, the images
\* and the loaded bounds are zoomed about the pixel (0, 0).
SetZoom(asked) ==
  LET mpp == Max({MinMpp, Min({MaxMpp, asked})}) IN
  Jump(Centered([screen EXCEPT !.mpp = mpp], screen.x + (screen.w * screen.mpp) \div 2,
                screen.y - (screen.h * screen.mpp) \div 2),
       FALSE, loadedTiles, DOMAIN images)

\* setFrame: - the lower left corner stays.
SetFrame(f) == Jump([screen EXCEPT !.w = f.w, !.h = f.h], TRUE, loadedTiles, DOMAIN images)

\* setTileSource: - and reset and reload of the loader.
SetTileSource == Jump(screen, TRUE, FALSE, {})

\* The end of initWithView:..., setSuppressLoading:NO
FinishInit ==
  /\ suppressLoading
  /\ suppressLoading' = FALSE
  /\ UNCHANGED <<expensive, gestures>>
  /\ UpdateLoadedImages(screen, images, loadedBounds, loadedTiles, aligned)

\* touchesBegan: sets performExpensiveOperations to NO, and 0.4 seconds after
\* the last touch it becomes YES again and the loader hears of it.
Suspend ==
  /\ expensive /\ ~ suppressLoading
  /\ expensive' = FALSE
  /\ UNCHANGED <<screen, images, zoom, loader, suppressLoading, waiting, aligned, gestures>>
\* Mutant: the notification is not observed.
ResumeUnheard ==
  /\ ~ expensive
  /\ expensive' = TRUE /\ waiting' = FALSE
  /\ UNCHANGED <<screen, images, zoom, loader, aligned, suppressLoading, gestures>>

Resume ==
  /\ ~ expensive
  /\ expensive' = TRUE
  /\ UNCHANGED <<suppressLoading, gestures>>
  /\ IF waiting THEN UpdateLoadedImages(screen, images, loadedBounds, loadedTiles, aligned)
     ELSE UNCHANGED <<screen, images, zoom, loader, waiting, aligned>>

\* The answers to an image's request.  RMMapImageLoadedNotification reaches
\* tileImageLoaded: only when the image got its data.
ImageLoaded(t) ==
  /\ images[t].state = "loading"
  /\ images' = RemoveTilesWorseThan(zoom, [images EXCEPT ![t].state = "shown"], {t})
  /\ UNCHANGED <<screen, zoom, loader, suppressLoading, expensive, waiting, aligned, gestures>>
ImageNotLoaded(t) ==
  /\ images[t].state = "loading"
  /\ \E state \in NotLoadedStates : images' = [images EXCEPT ![t].state = state]
  /\ UNCHANGED <<screen, zoom, loader, suppressLoading, expensive, waiting, aligned, gestures>>

Answer == \E t \in DOMAIN images : ImageLoaded(t) \/ ImageNotLoaded(t)

Init ==
  /\ screen = FirstScreen
  /\ images = [t \in {} |-> t] /\ zoom = 0
  /\ loadedBounds = NoBounds /\ loadedZoom = 0 /\ loadedTiles = FALSE
  /\ suppressLoading = TRUE
  /\ expensive = TRUE /\ waiting = FALSE
  /\ aligned = TRUE /\ gestures = 0

\* While loading is suppressed init sets zoom and centre.
Gesture ==
  /\ gestures < MaxGestures /\ gestures' = gestures + 1
  /\ \/ \E mpp \in Factors : SetZoom(mpp)
     \/ \E c \in Centers : SetMapCenter(c)
     \/ /\ ~ suppressLoading
        /\ \/ \E delta \in Steps : MoveBy(delta)
           \/ \E mpp \in Factors, pivot \in Pivots : ZoomByFactor(mpp, pivot)
           \/ \E f \in Frames : SetFrame(f)
           \/ SetTileSource

Next ==
  \/ FinishInit \/ Gesture \/ Suspend \/ Resume
  \/ Answer

\* init ends, the timer that resumes expensive operations fires (a step of
\* FinishInit, of Resume), and requests are answered (WebTile).
InitEnds == suppressLoading /\ suppressLoading' = FALSE
TimerFires == ~ expensive /\ expensive' = TRUE
Fairness == WF_suppressLoading(InitEnds) /\ WF_expensive(TimerFires) /\ WF_vars(Answer)

Spec == Init /\ [][Next]_vars /\ Fairness

-----------------------------------------------------------------------------
Images == [at : [x : Int, y : Int], state : ImageStates]

\* Every variable keeps its type.
TypeOK ==
  /\ screen \in Screens
  /\ DOMAIN images \subseteq Tiles /\ \A t \in DOMAIN images : images[t] \in Images
  /\ zoom \in 0..MaxTileZoom /\ loadedZoom = zoom
  /\ loadedBounds \in [x : Int, y : Int, w : Nat, h : Nat]
  /\ {loadedTiles, suppressLoading, expensive, waiting, aligned} \subseteq BOOLEAN
  /\ waiting => ~ expensive

\* The places of the map where the screen shows tiles of its zoom.
OnScreen ==
  LET z == NormalisedZoom(screen.mpp)
      side == TileSide(z)
  IN [x : (screen.x \div side)..((screen.x + screen.w * screen.mpp - 1) \div side),
      y : ((Top(screen) \div side)..((screen.y - 1) \div side)) \intersect 0..(2^z - 1),
      zoom : {z}]
IsAtItsPlace(c) ==
  LET t == [x |-> c.x % 2^c.zoom, y |-> c.y, zoom |-> c.zoom] IN
  /\ t \in DOMAIN images
  /\ images[t].at = [x |-> c.x * TileSide(c.zoom), y |-> c.y * TileSide(c.zoom)]

\* Unless an update is put off, every tile the screen shows has an image, at
\* its place - whatever was moved, zoomed, wrapped around the world or taken
\* away since the loader last placed the images.
ScreenIsTiled ==
  /\ TypeOK
  /\ ~ suppressLoading /\ ~ waiting /\ aligned => \A c \in OnScreen : IsAtItsPlace(c)

\* setMetersPerPixel: of the projection keeps the middle of the screen where
\* it is ("We need to adjust the origin - since the origin is in the corner,
\* it will change when we change the scale"), and the images stay with it.
TiledAfterSetZoom ==
  ~ suppressLoading /\ ~ waiting => \A c \in OnScreen : IsAtItsPlace(c)

\* Where a tile of the screen's zoom is shown no image of another zoom is
\* kept, whichever of them came, was zoomed past, or loaded, first.
NothingRedundant ==
  \A o \in DOMAIN images : o.zoom = zoom /\ images[o].state = "shown" =>
    \A s \in DOMAIN images : Overlap(s, o) => s.zoom \in (zoom - TileDepth)..zoom

\* No image is kept that lies off the loaded bounds, so that the set stays
\* as small as the screen.  (Cleared bounds, and those of a screen that shows
\* no tile, have no area.)
HasArea(bounds) == bounds.w > 0 /\ bounds.h > 0
NothingFarAway ==
  aligned /\ HasArea(loadedBounds) => \A t \in DOMAIN images :
    LET side == TileSide(t.zoom) IN
    /\ t.y * side < loadedBounds.y + loadedBounds.h /\ loadedBounds.y < (t.y + 1) * side
    /\ \/ (t.x * side - loadedBounds.x) % WorldSide < loadedBounds.w
       \/ (loadedBounds.x - t.x * side) % WorldSide < side

\* Once the user lets go, every tile of the screen gets an image and every
\* image its answer: no update is lost while expensive operations are off.
EventuallyShown ==
  <>[](aligned => \A c \in OnScreen : IsAtItsPlace(c) /\ images[NormalisedTile(c)].state # "loading")
=============================================================================
