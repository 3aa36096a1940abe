--------------------------- MODULE DispatchPage ---------------------------
(* The dispatcher's page: the map with the route asked for and the AGVs    *)
(* polled every 1300 ms (useAgvPathPlanning.js of the dispatcher).         *)
(*                                                                         *)
(* Two canvases lie over each other: the static one shows map and route,   *)
(* the dynamic one the AGVs; each is drawn by some handlers only.  Answers *)
(* come in any order and nothing tells them apart.                         *)
EXTENDS MapZoom, FiniteSets

CONSTANTS
  Routes,       \* the routes that may be asked for
  NoRoute,
  Turns,        \* how far one event turns the wheel
  MaxAsked,     \* bound: how often the user asks for a route or clears it
  MaxPolls,     \* bound: how many polls are under way at once
  MaxChanges,   \* bound: how often what the dispatcher knows changes
  MaxPollFailures, \* bound: how many polls fail
  MaxNotches    \* bound: how often the zoom changes

ASSUME DispatchAssumption == /\ Turns \subseteq Int /\ MaxPolls \in Nat \ {0}
                             /\ MaxAsked \in Nat /\ MaxChanges \in Nat /\ MaxNotches \in Nat
                             /\ MaxPollFailures \in Nat

VARIABLES
  loading,        \* where initialize is: image, info, done, or thrown
  mapImage, map,  \* dataView and mapInfo with its nodes: whether loaded
  scale,          \* zoomState
  currentRoute,
  routeRequests,  \* the requests for a route under way
  wanted, hasty,  \* the route last asked for; whether that was while an
                  \* earlier request was under way (history)
  agvList,        \* what the dispatcher knows of its AGVs: a version of it
  agvStatusList,  \* what the page knows: a version, 0 for the empty list
  polls,          \* the polls under way: the version each has been answered with
  staticLayer, dynamicLayer, \* what the canvases show
  asked, notches, pollFailures

dispatch == <<loading, mapImage, map, scale, currentRoute, routeRequests, wanted, hasty, agvList,
              agvStatusList, polls, staticLayer, dynamicLayer, asked, notches, pollFailures>>

Shown == Routes \cup {NoRoute}
NoMap == [route |-> NoRoute, level |-> 0]  \* a cleared static canvas
NoAgvs == [list |-> 0, level |-> 0]        \* a cleared dynamic one
NoPoll == MaxChanges + 2
NotRead == MaxChanges + 1 \* of a poll the dispatcher has not answered yet

DispatchTypeOK ==
  /\ loading \in {"image", "info", "done", "thrown"} /\ {mapImage, map, hasty} \subseteq BOOLEAN
  /\ scale \in Zooms /\ {currentRoute, wanted} \subseteq Shown
  /\ routeRequests \subseteq [route : Routes, number : 1..MaxAsked] /\ polls \in [1..MaxPolls -> {NoPoll, NotRead} \cup 0..MaxChanges]
  /\ {agvList, agvStatusList} \subseteq 0..MaxChanges
  /\ staticLayer \in [route : Shown, level : Least..Most] \cup {NoMap}
  /\ dynamicLayer \in [list : 1..MaxChanges, level : Least..Most] \cup {NoAgvs}
  /\ asked \in 0..MaxAsked /\ notches \in 0..MaxNotches /\ pollFailures \in 0..MaxPollFailures

DispatchInit ==
  /\ loading = "image" /\ mapImage = FALSE /\ map = FALSE /\ scale = Unzoomed
  /\ currentRoute = NoRoute /\ routeRequests = {} /\ wanted = NoRoute /\ hasty = FALSE
  /\ agvList = 0 /\ agvStatusList = 0 /\ polls = [n \in 1..MaxPolls |-> NoPoll]
  /\ staticLayer = NoMap /\ dynamicLayer = NoAgvs /\ asked = 0 /\ notches = 0
  /\ pollFailures = 0

-----------------------------------------------------------------------------
(* drawStaticMap: without the map's data it throws if there is an image.   *)
StaticThrows(hasMap) == mapImage /\ ~hasMap
StaticDrawn(route, level, hasMap) ==
  IF mapImage /\ hasMap THEN [route |-> route, level |-> level] ELSE staticLayer

(* drawDynamicMap: the canvas is cleared, then the AGVs are drawn; without *)
(* the map's data that throws.  An empty list leaves the canvas cleared.   *)
DynamicDrawn(list, level) ==
  IF map /\ list # 0 THEN [list |-> list, level |-> level] ELSE NoAgvs

(* Mutant: the AGVs are left to the next poll. *)
StaticOnlyDrawn(route, level) ==
  staticLayer' = StaticDrawn(route, level, map) /\ UNCHANGED dynamicLayer

(* Both, one after the other: what throws in the first ends the second. *)
BothDrawn(route, level) ==
  /\ staticLayer' = StaticDrawn(route, level, map)
  /\ dynamicLayer' = IF StaticThrows(map) THEN dynamicLayer ELSE DynamicDrawn(agvStatusList, level)

(* resizeCanvas clears both canvases and draws the static one. *)
Resized(hasMap) ==
  /\ staticLayer' = IF mapImage /\ hasMap THEN [route |-> currentRoute, level |-> scale.level]
                    ELSE NoMap
  /\ dynamicLayer' = NoAgvs

MapImageArrives(ok) ==
  /\ loading = "image" /\ loading' = "info" /\ mapImage' = ok
  /\ UNCHANGED <<map, scale, currentRoute, routeRequests, wanted, hasty, agvList, agvStatusList,
                 polls, staticLayer, dynamicLayer, asked, notches, pollFailures>>

(* The rest of initialize once loadMapInfo has its answer: the first poll  *)
(* is sent, and the canvases get their size.                               *)
MapArrives(ok) ==
  /\ loading = "info" /\ map' = (map \/ ok)
  /\ loading' = IF StaticThrows(map') THEN "thrown" ELSE "done"
  /\ polls' = [polls EXCEPT ![1] = NotRead]
  /\ Resized(map')
  /\ UNCHANGED <<mapImage, scale, currentRoute, routeRequests, wanted, hasty, agvList,
                 agvStatusList, asked, notches, pollFailures>>

(* The button that loads the map's data draws nothing. *)
LoadMapInfo ==
  /\ map' = TRUE
  /\ UNCHANGED <<loading, mapImage, scale, currentRoute, routeRequests, wanted, hasty, agvList,
                 agvStatusList, polls, staticLayer, dynamicLayer, asked, notches, pollFailures>>

ResizeCanvases ==
  /\ Resized(map)
  /\ UNCHANGED <<loading, mapImage, map, scale, currentRoute, routeRequests, wanted, hasty,
                 agvList, agvStatusList, polls, asked, notches, pollFailures>>

-----------------------------------------------------------------------------
(* What the user asks for. *)
Asks(route) ==
  /\ asked < MaxAsked /\ asked' = asked + 1
  /\ wanted' = route /\ hasty' = (routeRequests # {})

VisualizeRoute(route) ==
  /\ Asks(route)
  /\ routeRequests' = routeRequests \cup {[route |-> route, number |-> asked + 1]}
  /\ UNCHANGED <<loading, mapImage, map, scale, currentRoute, agvList, agvStatusList, polls,
                 staticLayer, dynamicLayer, notches, pollFailures>>

(* Mutant: a route that is shown stays. *)
RouteKept(q) == IF currentRoute = NoRoute THEN q.route ELSE currentRoute

RouteFrom(q) == q.route

RouteArrives(q) ==
  /\ q \in routeRequests /\ routeRequests' = routeRequests \ {q}
  /\ currentRoute' = RouteFrom(q)
  /\ BothDrawn(currentRoute', scale.level)
  /\ UNCHANGED <<loading, mapImage, map, scale, wanted, hasty, agvList, agvStatusList, polls,
                 asked, notches, pollFailures>>

(* No route, or no answer: the page goes on showing what it shows. *)
RouteFails(q) ==
  /\ q \in routeRequests /\ routeRequests' = routeRequests \ {q}
  /\ wanted' = IF hasty THEN wanted ELSE currentRoute
  /\ UNCHANGED <<loading, mapImage, map, scale, currentRoute, hasty, agvList, agvStatusList, polls,
                 staticLayer, dynamicLayer, asked, notches, pollFailures>>

(* Mutant: the route goes with the next drawing. *)
ClearedLater(level) == UNCHANGED <<staticLayer, dynamicLayer>>

ClearedDrawn(level) == BothDrawn(NoRoute, level)

ClearRoute ==
  /\ Asks(NoRoute) /\ currentRoute' = NoRoute /\ ClearedDrawn(scale.level)
  /\ UNCHANGED <<loading, mapImage, map, scale, routeRequests, agvList, agvStatusList, polls,
                 notches, pollFailures>>

(* handleDynamicWheel: detectAgvAt throws when there are AGVs and no map. *)
DispatchWheel(deltaY) ==
  /\ map \/ agvStatusList = 0
  /\ notches < MaxNotches /\ notches' = IF Reached(scale, deltaY) THEN notches + 1 ELSE notches
  /\ scale' = Turned(scale, deltaY)
  /\ IF Reached(scale, deltaY) THEN BothDrawn(currentRoute, scale'.level)
     ELSE UNCHANGED <<staticLayer, dynamicLayer>>
  /\ UNCHANGED <<loading, mapImage, map, currentRoute, routeRequests, wanted, hasty, agvList,
                 agvStatusList, polls, asked, pollFailures>>

-----------------------------------------------------------------------------
(* The AGVs. *)

AgvsChange ==
  /\ agvList < MaxChanges /\ agvList' = agvList + 1
  /\ UNCHANGED <<loading, mapImage, map, scale, currentRoute, routeRequests, wanted, hasty,
                 agvStatusList, polls, staticLayer, dynamicLayer, asked, notches, pollFailures>>

(* Mutant: the timer is started after the canvases are drawn, which throws. *)
PollsIfDrawn == loading = "done"

(* The interval timer is never stopped while the page is open. *)
Polls == loading \in {"done", "thrown"}

LoadAgvPositions(n) ==
  /\ Polls /\ polls[n] = NoPoll /\ polls' = [polls EXCEPT ![n] = NotRead]
  /\ UNCHANGED <<loading, mapImage, map, scale, currentRoute, routeRequests, wanted, hasty,
                 agvList, agvStatusList, staticLayer, dynamicLayer, asked, notches, pollFailures>>

(* The dispatcher answers; the answer is on its way. *)
ReadAgvs(n) ==
  /\ polls[n] = NotRead /\ polls' = [polls EXCEPT ![n] = agvList]
  /\ UNCHANGED <<loading, mapImage, map, scale, currentRoute, routeRequests, wanted, hasty,
                 agvList, agvStatusList, staticLayer, dynamicLayer, asked, notches, pollFailures>>

(* Whichever answer comes is taken, and drawn if there is a map. *)
AgvsArrive(n) ==
  /\ polls[n] \in 0..MaxChanges /\ polls' = [polls EXCEPT ![n] = NoPoll]
  /\ agvStatusList' = polls[n]
  /\ dynamicLayer' = IF map THEN DynamicDrawn(polls[n], scale.level) ELSE dynamicLayer
  /\ UNCHANGED <<loading, mapImage, map, scale, currentRoute, routeRequests, wanted, hasty,
                 agvList, staticLayer, asked, notches, pollFailures>>

(* The poll fails, on its way there or back: catch writes to the console. *)
PollFails(n) ==
  /\ polls[n] # NoPoll /\ polls' = [polls EXCEPT ![n] = NoPoll]
  /\ pollFailures < MaxPollFailures /\ pollFailures' = pollFailures + 1
  /\ UNCHANGED <<loading, mapImage, map, scale, currentRoute, routeRequests, wanted, hasty,
                 agvList, agvStatusList, staticLayer, dynamicLayer, asked, notches>>

DispatchNext ==
  \/ \E ok \in BOOLEAN : MapImageArrives(ok) \/ MapArrives(ok)
  \/ LoadMapInfo \/ ResizeCanvases \/ ClearRoute \/ AgvsChange
  \/ \E route \in Routes : VisualizeRoute(route)
  \/ \E q \in routeRequests : RouteArrives(q) \/ RouteFails(q)
  \/ \E deltaY \in Turns : DispatchWheel(deltaY)
  \/ \E n \in 1..MaxPolls : LoadAgvPositions(n) \/ ReadAgvs(n) \/ AgvsArrive(n) \/ PollFails(n)

DispatchLoads == \E ok \in BOOLEAN : MapImageArrives(ok) \/ MapArrives(ok)
Polled(n) == LoadAgvPositions(n) \/ ReadAgvs(n) \/ AgvsArrive(n) \/ PollFails(n)

(* Requests are answered or fail, and the timer goes on; polls do not fail *)
(* for ever.                                                               *)
DispatchFairness == WF_dispatch(DispatchLoads) /\ \A n \in 1..MaxPolls : WF_dispatch(Polled(n))

DispatchSpec == DispatchInit /\ [][DispatchNext]_dispatch /\ DispatchFairness

-----------------------------------------------------------------------------
(* Whatever arrives and in whichever order: the static canvas shows the    *)
(* route the page has in the page's zoom, or nothing, the latter only when *)
(* image or data were missing at first.                                    *)
StaticCurrent ==
  LET current == [route |-> currentRoute, level |-> scale.level]
  IN /\ staticLayer \in {current, NoMap}
     /\ loading = "done" /\ mapImage /\ map => staticLayer = current

(* The AGVs are never shown as they were before what the page knows, nor   *)
(* in another zoom than the map below them.                                *)
DynamicCurrent ==
  dynamicLayer \in {[list |-> agvStatusList, level |-> scale.level], NoAgvs}

(* The route shown is the one last asked for, unless the user asked or     *)
(* cleared while an earlier request was under way, whose answer may come   *)
(* later and is shown then.                                                *)
RouteAsWanted == routeRequests = {} /\ ~hasty => currentRoute = wanted

(* Although an old answer may replace a newer one, the page catches up.    *)
StatusCatchesUp == <>[](agvStatusList = agvList)
=============================================================================
