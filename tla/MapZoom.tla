------------------------------ MODULE MapZoom ------------------------------
(* The zoom of both services' pages: zoomState and handleZoom of           *)
(* useAgvPathPlanning.js.  The level is counted in thousandths, rounded    *)
(* down; wheel is how far the wheel has turned since the last change.      *)
EXTENDS Integers

Least == 500
Most == 8000
Threshold == 100
Unzoomed == [level |-> 1000, wheel |-> 0]
Zooms == [level : Least..Most, wheel : 0..(Threshold - 1)]

Absolute(deltaY) == IF deltaY < 0 THEN -deltaY ELSE deltaY

(* Whether the wheel has turned far enough, by whatever way. *)
Reached(zoom, deltaY) == zoom.wheel + Absolute(deltaY) >= Threshold

Clamped(level) == IF level < Least THEN Least ELSE IF level > Most THEN Most ELSE level

(* The direction of the last turn decides; what exceeds the threshold is   *)
(* forgotten.                                                              *)
Turned(zoom, deltaY) ==
  IF Reached(zoom, deltaY)
    THEN [level |-> Clamped((zoom.level * (IF deltaY > 0 THEN 8 ELSE 12)) \div 10), wheel |-> 0]
    ELSE [zoom EXCEPT !.wheel = @ + Absolute(deltaY)]
=============================================================================
