--------------------------- MODULE AgvAnimation ---------------------------
(* How the page moves the drawn AGV between two positions it has received: *)
(* drawAgvPosition of map_drawer.js, called in each animation frame with   *)
(* the interpolation factor of drawDynamicMap (useAgvPathPlanning.js).     *)
(*                                                                         *)
(* Two clocks rule it: sinceData since the page last accepted an answer,   *)
(* whatever it said, and sinceTake since the drawer last found a new       *)
(* position.  One unit of time is 50 ms, one of angle an eighth of a turn. *)
EXTENDS Integers

CONSTANTS
  Places,    \* the places the AGV may be at
  Headings,  \* the directions it may have, as canvas angles
  Period,    \* updateInterval: how long an interpolation takes (350 ms)
  MinGap,    \* minUpdateInterval: new data wait for so long (100 ms)
  StopAfter, \* so long without new data and the AGV counts as stopped (500 ms)
  MaxMoves   \* bound: how often the AGV's pose changes

Turn == 8
Half == Turn \div 2

ASSUME AnimationAssumption ==
  /\ Headings \subseteq (1 - Half)..Half
  /\ {Period, MinGap, StopAfter, MaxMoves} \subseteq Nat /\ MinGap < StopAfter

VARIABLES
  pose,         \* agvResponse: the place and heading the page has received
  moves,        \* how often it has changed
  sinceData,    \* time since lastAgvUpdateTime
  sinceTake,    \* time since interpState.lastUpdateTime
  prev, curr,   \* interpState: place and heading, and the angle theta
  drawn,        \* what the last frame drew: how much of the way to which curr
  fresh         \* whether data arrived after the last frame (history)

animation == <<pose, moves, sinceData, sinceTake, prev, curr, drawn, fresh>>

Poses == Places \X Headings
Nowhere == <<>>
Longest == StopAfter + 1 \* the clocks are not followed any longer than this
Angles == (-Half * (MaxMoves + 2))..(Half * (MaxMoves + 2))
Taken == [pose : Poses, theta : Angles]
NotTaken == [pose |-> Nowhere, theta |-> 0]

AnimationTypeOK ==
  /\ pose \in Poses \cup {Nowhere} /\ moves \in 0..MaxMoves
  /\ {sinceData, sinceTake} \subseteq 0..Longest
  /\ {prev, curr} \subseteq Taken \cup {NotTaken}
  /\ drawn \in [way : 0..Period, to : Taken \cup {NotTaken}]
  /\ fresh \in BOOLEAN

AnimationInit ==
  /\ pose = Nowhere /\ moves = 0 /\ sinceData = 0 /\ sinceTake = Longest
  /\ prev = NotTaken /\ curr = NotTaken /\ drawn = [way |-> 0, to |-> NotTaken] /\ fresh = FALSE

-----------------------------------------------------------------------------
Aged(clock) == IF clock < Longest THEN clock + 1 ELSE clock

Tick ==
  /\ sinceData' = Aged(sinceData) /\ sinceTake' = Aged(sinceTake)
  /\ UNCHANGED <<pose, moves, prev, curr, drawn, fresh>>

(* An answer is accepted; it may repeat what the page has. *)
DataArrives(p) ==
  /\ p # pose => moves < MaxMoves
  /\ moves' = IF p # pose THEN moves + 1 ELSE moves
  /\ pose' = p /\ sinceData' = 0 /\ fresh' = TRUE
  /\ UNCHANGED <<sinceTake, prev, curr, drawn>>

(* The remainder as JavaScript has it, with the sign of the dividend. *)
Rem(a) == IF a < 0 THEN -((-a) % Turn) ELSE a % Turn

(* Headings and remainders are less than three half turns apart. *)
Shorter(delta) ==
  IF delta > Half THEN delta - Turn ELSE IF delta < -Half THEN delta + Turn ELSE delta

(* Mutant: the heading as it is. *)
AccumulatedNot(heading) == heading

(* quaternionToCanvasRotation: the heading is not used as it is; what is   *)
(* added to the accumulated angle is the shorter way round.                *)
Accumulated(heading) ==
  IF curr = NotTaken THEN heading
  ELSE curr.theta + Shorter(heading - Rem(curr.theta))

(* Another position than the last one taken, which was not just now. *)
HasNewData == pose # curr.pose /\ sinceTake > MinGap

(* Mutant: stopped means only that the page has had no answer for long. *)
IsStoppedByData == ~HasNewData /\ sinceData > StopAfter

(* No news for so long that no way is left to be drawn. *)
IsStopped == ~HasNewData /\ sinceTake > StopAfter

(* Mutant: the factor is not limited. *)
FactorUnlimited == sinceData

(* Mutant: the factor starts again after a period. *)
FactorWraps == sinceData % (Period + 1)

(* drawDynamicMap's interpolationFactor, of Period. *)
Factor == IF sinceData > Period THEN Period ELSE sinceData

(* One animation frame.  Without a position nothing is drawn. *)
Frame ==
  /\ fresh' = FALSE
  /\ IF HasNewData /\ pose # Nowhere
       THEN /\ prev' = curr
            /\ curr' = [pose |-> pose, theta |-> Accumulated(pose[2])]
            /\ sinceTake' = 0
       ELSE UNCHANGED <<prev, curr, sinceTake>>
  /\ drawn' = IF pose = Nowhere THEN drawn
              ELSE [to |-> curr',
                    way |-> IF IsStopped \/ prev' = NotTaken THEN Period ELSE Factor]
  /\ UNCHANGED <<pose, moves, sinceData>>

AnimationNext == Tick \/ Frame \/ \E p \in Poses : DataArrives(p)

(* Time passes and the browser goes on asking for frames. *)
AnimationFairness == WF_animation(Tick) /\ WF_animation(Frame)

AnimationSpec == AnimationInit /\ [][AnimationNext]_animation /\ AnimationFairness

-----------------------------------------------------------------------------
(* However often the AGV turned and in which direction: what is drawn      *)
(* points where the AGV points, and between two positions it turns by half *)
(* a turn at most (agvAccumulatedAngles of quaternionToCanvasRotation).    *)
TurnsShort ==
  curr # NotTaken =>
    /\ (curr.theta - curr.pose[2]) % Turn = 0
    /\ prev # NotTaken => curr.theta - prev.theta \in -Half..Half

(* From frame to frame the drawn AGV does not go back on its way as long   *)
(* as no answer arrives (drawAgvPosition, drawDynamicMap).  An answer that *)
(* repeats the position does send it back, against the comment of          *)
(* drawAgvPosition that a standing AGV is not interpolated: the factor     *)
(* starts again, until the AGV counts as stopped.                          *)
NoStepBack ==
  [][~fresh /\ drawn'.to = drawn.to /\ sinceTake' = sinceTake => drawn'.way >= drawn.way]_animation

(* When the AGV stands, it is drawn where it stands in the end, although   *)
(* the answers that say so keep coming and each starts the factor again.   *)
ComesToRest == <>[](pose # Nowhere => drawn.way = Period /\ drawn.to.pose = pose)
=============================================================================
