------------------------------ MODULE MCPages ------------------------------
(* The two services' web pages on small instances.  The parts share no     *)
(* state: each behaviour is one of a single part, while the others wait in *)
(* their initial states (of which every part's properties hold), so that   *)
(* one run goes through all of them.                                       *)
EXTENDS PositionFeed, AgvAnimation, Toasts, StationMenu, MapPage, DispatchPage

VARIABLE part \* which part's behaviour this is

Parts == {"feed", "animation", "toasts", "menu", "page", "dispatch"}
pages == <<part, feed, animation, toasts, menu, page, dispatch>>

MCHeadings == {-3, 1, 4} \* to both sides and back
MCDeltas == {-60, 60, 120}

PagesInit ==
  /\ part \in Parts
  /\ FeedInit /\ AnimationInit /\ ToastsInit /\ MenuInit /\ PageInit /\ DispatchInit
  /\ part = "page" \/ window = 1 \* one window will do for the other parts

PagesNext ==
  \/ part = "feed" /\ FeedNext
       /\ UNCHANGED <<part, animation, toasts, menu, page, dispatch>>
  \/ part = "animation" /\ AnimationNext
       /\ UNCHANGED <<part, feed, toasts, menu, page, dispatch>>
  \/ part = "toasts" /\ ToastsNext
       /\ UNCHANGED <<part, feed, animation, menu, page, dispatch>>
  \/ part = "menu" /\ MenuNext
       /\ UNCHANGED <<part, feed, animation, toasts, page, dispatch>>
  \/ part = "page" /\ PageNext
       /\ UNCHANGED <<part, feed, animation, toasts, menu, dispatch>>
  \/ part = "dispatch" /\ DispatchNext
       /\ UNCHANGED <<part, feed, animation, toasts, menu, page>>

(* Each part's fairness, asked of its own behaviours only. *)
PagesFairness ==
  /\ WF_feed(part = "feed" /\ Fill) /\ WF_feed(part = "feed" /\ Poll)
  /\ WF_feed(part = "feed" /\ (Answer \/ Shows \/ Fails))
  /\ WF_animation(part = "animation" /\ Tick) /\ WF_animation(part = "animation" /\ Frame)
  /\ WF_toasts(part = "toasts" /\ Timer) /\ WF_toasts(part = "toasts" /\ TimeOut)
  /\ WF_menu(part = "menu" /\ AnswerToCommand)
  /\ WF_page(part = "page" /\ Loads) /\ WF_page(part = "page" /\ ResizeCanvas)
  /\ WF_dispatch(part = "dispatch" /\ DispatchLoads)
  /\ \A n \in 1..MaxPolls : WF_dispatch(part = "dispatch" /\ Polled(n))

PagesSpec == PagesInit /\ [][PagesNext]_pages /\ PagesFairness

-----------------------------------------------------------------------------
(* The state of every part has its type. *)
PagesTypeOK ==
  /\ part \in Parts
  /\ FeedTypeOK /\ AnimationTypeOK /\ ToastsTypeOK /\ MenuTypeOK /\ PageTypeOK /\ DispatchTypeOK

(* What the screen shows is right at every moment: the canvases agree with *)
(* what the page knows, the route is the one asked for, the animation goes *)
(* on, and no message covers another (each part says what it excludes).    *)
ScreensRight ==
  /\ PictureCurrent /\ AnimationGoesOn
  /\ StaticCurrent /\ DynamicCurrent /\ RouteAsWanted
  /\ NoOverlap

(* The three places that keep positions in order do so, each under its own *)
(* condition: the page by the stamps it is given (torn answers aside), the *)
(* server while its handlers do not overlap, and the drawer between two    *)
(* answers.  Outside of these conditions positions do go back.             *)
KeepsOrder == StampsShownGrow /\ ServerGoesForward /\ NoStepBack

(* Everything comes to its end: messages go, menus close, the canvases     *)
(* have the window's size, the list of AGVs is the dispatcher's.           *)
PagesSettle == AllGone /\ MenuCloses /\ ResizeSettles /\ StatusCatchesUp
=============================================================================
