------------------------------ MODULE MapPage ------------------------------
(* Loading, drawing and zooming of the simulator's page, from initialize   *)
(* to debouncedResize of useAgvPathPlanning.js.                            *)
(*                                                                         *)
(* The static canvas holds the map as it was when it was drawn last; the   *)
(* dynamic one is drawn anew in every animation frame and lies above, so   *)
(* that the mouse reaches it only.  Every handler is one step: JavaScript  *)
(* does not interrupt it, but an exception ends it half-way (a field of    *)
(* mapInfo or agvResponse is read that is null).                           *)
EXTENDS MapZoom

CONSTANTS
  Sizes,       \* the sizes the window may have
  Deltas,      \* how far one event turns the wheel, up (-) or down (+)
  MaxResizes,  \* bound: how often the window changes its size
  MaxZooms     \* bound: how often the zoom changes

ASSUME PageAssumption == /\ Sizes \subseteq Nat \ {0} /\ Deltas \subseteq Int
                         /\ MaxResizes \in Nat /\ MaxZooms \in Nat

VARIABLES
  stage,       \* where initialize is: image, info, done, or thrown
  image, info, \* dataView and mapInfo: whether they are loaded
  zoom,        \* zoomState
  window,      \* the size of the container on the screen
  canvas,      \* the size of both canvases, 0 until it is set
  picture,     \* what the static canvas shows
  resizeTimer, \* whether debounce's timer is running
  status,      \* agvResponse: unknown, without a position, or located
  frames,      \* the frames requested, one for each loop of drawDynamicMap
  resizes, zooms

page == <<stage, image, info, zoom, window, canvas, picture, resizeTimer, status, frames,
          resizes, zooms>>

Blank == [level |-> 0, size |-> 0]
MaxFrames == 3 \* bound: loops are counted up to here

PageTypeOK ==
  /\ stage \in {"image", "info", "done", "thrown"}
  /\ {image, info, resizeTimer} \subseteq BOOLEAN /\ zoom \in Zooms
  /\ window \in Sizes /\ canvas \in Sizes \cup {0}
  /\ picture \in [level : Least..Most, size : Sizes] \cup {Blank}
  /\ status \in {"unknown", "nowhere", "located"} /\ frames \in 0..MaxFrames
  /\ resizes \in 0..MaxResizes /\ zooms \in 0..MaxZooms

PageInit ==
  /\ stage = "image" /\ image = FALSE /\ info = FALSE /\ zoom = Unzoomed
  /\ window \in Sizes /\ canvas = 0 /\ picture = Blank /\ resizeTimer = FALSE
  /\ status = "unknown" /\ frames = 1 /\ resizes = 0 /\ zooms = 0

-----------------------------------------------------------------------------
(* drawStaticMap: nothing without the image; without the map's data        *)
(* calculateBounds throws, and nothing is drawn either.                    *)
Drawn(level, size, hasInfo) ==
  IF image /\ hasInfo THEN [level |-> level, size |-> size] ELSE Blank

(* The answer to loadMapImage, or an error. *)
ImageArrives(ok) ==
  /\ stage = "image" /\ stage' = "info" /\ image' = ok
  /\ UNCHANGED <<info, zoom, window, canvas, picture, resizeTimer, status, frames, resizes, zooms>>

(* The answer to loadMapInfo, or an error; initialize goes on at once with *)
(* the polling and the canvas and throws if there is an image to be drawn  *)
(* without the map's data.                                                 *)
InfoArrives(ok) ==
  /\ stage = "info" /\ info' = ok
  /\ stage' = IF image /\ ~ok THEN "thrown" ELSE "done"
  /\ canvas' = window /\ picture' = Drawn(zoom.level, window, ok)
  /\ UNCHANGED <<image, zoom, window, resizeTimer, status, frames, resizes, zooms>>

(* Mutant: a call only stops the timer that is running. *)
TimerToggled(running) == ~running

(* debounce: the timer is stopped and started. *)
TimerStarted(running) == TRUE

WindowResizes(size) ==
  /\ size # window /\ resizes < MaxResizes /\ resizes' = resizes + 1
  /\ window' = size /\ resizeTimer' = TimerStarted(resizeTimer)
  /\ UNCHANGED <<stage, image, info, zoom, canvas, picture, status, frames, zooms>>

(* resizeCanvas: to set a canvas' size clears it. *)
ResizeCanvas ==
  /\ resizeTimer /\ resizeTimer' = FALSE
  /\ canvas' = window /\ picture' = Drawn(zoom.level, window, info)
  /\ UNCHANGED <<stage, image, info, zoom, window, status, frames, resizes, zooms>>

(* Mutant: polling starts before the map is there. *)
PollingAtOnce == stage # "image"

Polling == stage \in {"done", "thrown"}

StatusArrives(s) ==
  /\ Polling /\ status' = s
  /\ UNCHANGED <<stage, image, info, zoom, window, canvas, picture, resizeTimer, frames, resizes, zooms>>

(* detectAgvAt reads the status, and the map when there is a position. *)
DetectThrows == status = "unknown" \/ (status = "located" /\ ~info)

(* Mutant: the dynamic canvas' next frame is expected to show the zoom. *)
RedrawnNever(deltaY) == FALSE

Redrawn(deltaY) == Reached(zoom, deltaY)

(* handleDynamicWheel, not on the AGV. *)
Wheel(deltaY) ==
  /\ ~DetectThrows /\ zooms < MaxZooms
  /\ zooms' = IF Reached(zoom, deltaY) THEN zooms + 1 ELSE zooms
  /\ zoom' = Turned(zoom, deltaY)
  /\ picture' = IF Redrawn(deltaY) /\ image /\ info THEN Drawn(zoom'.level, canvas, info) ELSE picture
  /\ UNCHANGED <<stage, image, info, window, canvas, resizeTimer, status, frames, resizes>>

(* drawDynamicMap asks for the next frame unless it throws: a position is  *)
(* drawn without the map's data.                                           *)
DrawingThrows == status = "located" /\ ~info

BrokenFrame ==
  /\ frames > 0 /\ DrawingThrows
  /\ frames' = frames - 1
  /\ UNCHANGED <<stage, image, info, zoom, window, canvas, picture, resizeTimer, status, resizes, zooms>>

(* The sliders of the laser scan call drawDynamicMap too, and each call    *)
(* starts a loop of its own.                                               *)
Slider ==
  /\ ~DrawingThrows /\ frames < MaxFrames /\ frames' = frames + 1
  /\ UNCHANGED <<stage, image, info, zoom, window, canvas, picture, resizeTimer, status, resizes, zooms>>

PageNext ==
  \/ \E ok \in BOOLEAN : ImageArrives(ok) \/ InfoArrives(ok)
  \/ \E size \in Sizes : WindowResizes(size)
  \/ ResizeCanvas
  \/ \E s \in {"nowhere", "located"} : StatusArrives(s)
  \/ \E deltaY \in Deltas : Wheel(deltaY)
  \/ BrokenFrame \/ Slider

Loads == \E ok \in BOOLEAN : ImageArrives(ok) \/ InfoArrives(ok)

(* Requests are answered or fail, and the timer runs out. *)
PageFairness == WF_page(Loads) /\ WF_page(ResizeCanvas)

PageSpec == PageInit /\ [][PageNext]_page /\ PageFairness

-----------------------------------------------------------------------------
(* Once the page is loaded the static canvas shows the map with the zoom   *)
(* and in the size it has, after every wheel and every resize.             *)
PictureCurrent ==
  stage = "done" /\ image /\ info => picture = [level |-> zoom.level, size |-> canvas]

(* However the window's changes come together with loading: in the end the *)
(* canvases have its size (0: initialize has not come to them).            *)
ResizeSettles == <>[](canvas \in {window, 0})

(* The animation goes on for ever, unless the map's data could not be      *)
(* loaded: no position reaches the page before mapInfo (initialize's       *)
(* order).  When they could not, the first position ends it for good.      *)
AnimationGoesOn == frames = 0 => Polling /\ ~info
=============================================================================
