---------------------------- MODULE PagesProofs ----------------------------
(* Proofs about the two services' web pages: each part by itself, for any  *)
(* bounds, map, headings, sizes and number of requests and toasts, and the *)
(* composition that TLC checks.                                            *)
EXTENDS MCPages, SequenceTheorems, FiniteSetTheorems, TLAPS

-----------------------------------------------------------------------------
(* The menu *)

LEMMA MenuInits == MenuInit => MenuTypeOK /\ SelectedIsTarget
  BY MenuAssumption DEF MenuInit, MenuTypeOK, SelectedIsTarget, Hidden, Types

LEMMA MenuSteps ==
  ASSUME MenuTypeOK, SelectedIsTarget, [MenuNext]_menu
  PROVE  MenuTypeOK' /\ SelectedIsTarget'
  <1> USE MenuAssumption DEF MenuTypeOK, SelectedIsTarget
  <1>1. ASSUME NEW s \in {"nowhere", "located"}, StatusComes(s)
        PROVE  MenuTypeOK' /\ SelectedIsTarget'
    BY <1>1 DEF StatusComes
  <1>2. ASSUME NEW node \in Nodes, ContextMenuAt(node)
        PROVE  MenuTypeOK' /\ SelectedIsTarget'
    BY <1>2 DEF ContextMenuAt, Types
  <1>3. CASE ContextMenuAtEdge
    BY <1>3 DEF ContextMenuAtEdge, Types
  <1>4. ASSUME NEW node \in Nodes \cup {Nothing}, CanvasClick(node)
        PROVE  MenuTypeOK' /\ SelectedIsTarget'
    BY <1>4 DEF CanvasClick, AfterClick, Hidden, Types, Nodes
  <1>5. CASE SendCommand
    <2>1. [number |-> commandsSent + 1, node |-> selectedNodeInfo] \in [number : 1..MaxCommands, node : Nodes]
      BY <1>5 DEF SendCommand
    <2>2. QED
      BY <1>5, <2>1 DEF SendCommand
  <1>6. CASE CloseMenu
    BY <1>6 DEF CloseMenu, Hidden, Types
  <1>7. ASSUME NEW command \in commands, NEW good \in BOOLEAN, Answered(command, good)
        PROVE  MenuTypeOK' /\ SelectedIsTarget'
    BY <1>7 DEF Answered, AfterAnswer, Hidden, Types
  <1>8. CASE UNCHANGED menu
    BY <1>8 DEF menu
  <1>9. QED
    BY <1>1, <1>2, <1>3, <1>4, <1>5, <1>6, <1>7, <1>8 DEF MenuNext

\* A command goes to the station the menu was opened at, for any map and any number of
\* clicks and answers, late ones included.
THEOREM CommandsGoToTarget == MenuSpec => []SelectedIsTarget
  BY MenuInits, MenuSteps, PTL DEF MenuSpec

-----------------------------------------------------------------------------
(* The animation *)

\* The accumulated angle is that of the pose last taken, up to full turns, and the two
\* angles drawn between are half a turn apart at most.
Turned8(a, h) == \E k \in Int : a = h + 8 * k

\* How far the accumulated angle may have come: half a turn for each pose taken.
Turns4 == 4 * (IF pose = curr.pose THEN moves ELSE moves - 1)

AnimationInv ==
  /\ AnimationTypeOK
  /\ curr.theta \in -Turns4..Turns4 /\ (pose # curr.pose => moves > 0)
  /\ curr # NotTaken =>
       /\ curr.pose \in Poses /\ Turned8(curr.theta, curr.pose[2])
       /\ prev # NotTaken => curr.theta - prev.theta \in -4..4

LEMMA RemTurns ==
  ASSUME NEW a \in Int
  PROVE  Rem(a) \in -7..7 /\ \E k \in Int : a = Rem(a) + 8 * k
  <1>1. CASE a < 0
    <2>1. -a \in Nat /\ (-a) % 8 \in 0..7 /\ -a = 8 * ((-a) \div 8) + ((-a) % 8) /\ (-a) \div 8 \in Int
      BY <1>1
    <2>2. Rem(a) = -((-a) % 8)
      BY <1>1 DEF Rem, Turn
    <2>3. a = Rem(a) + 8 * (-((-a) \div 8)) /\ -((-a) \div 8) \in Int
      BY <2>1, <2>2
    <2>4. QED
      BY <2>1, <2>2, <2>3
  <1>2. CASE a >= 0
    <2>1. a % 8 \in 0..7 /\ a = 8 * (a \div 8) + (a % 8) /\ a \div 8 \in Int
      BY <1>2
    <2>2. Rem(a) = a % 8
      BY <1>2 DEF Rem, Turn
    <2>3. QED
      BY <2>1, <2>2
  <1>3. QED
    BY <1>1, <1>2

LEMMA ShorterTurns ==
  ASSUME NEW d \in Int, d \in -10..11
  PROVE  /\ Shorter(d) \in -4..4
         /\ \E k \in Int : Shorter(d) = d + 8 * k
  <1>1. Shorter(d) \in -4..4
    BY DEF Shorter, Half, Turn
  <1>2. Shorter(d) = d + 8 * (-1) \/ Shorter(d) = d + 8 * 1 \/ Shorter(d) = d + 8 * 0
    BY DEF Shorter, Half, Turn
  <1>3. QED
    BY <1>1, <1>2

LEMMA HeadingsSmall == Headings \subseteq -3..4
  BY AnimationAssumption DEF Half, Turn

LEMMA AccumulatedTurns ==
  ASSUME AnimationInv, NEW h \in Headings
  PROVE  /\ Accumulated(h) \in Int /\ Turned8(Accumulated(h), h)
         /\ curr # NotTaken => Accumulated(h) - curr.theta \in -4..4
         /\ curr = NotTaken => Accumulated(h) \in -4..4
  <1>1. h \in -3..4 /\ h \in Int
    BY HeadingsSmall
  <1>2. CASE curr = NotTaken
    <2>1. Accumulated(h) = h /\ h = h + 8 * 0
      BY <1>1, <1>2 DEF Accumulated
    <2>2. QED
      BY <1>1, <1>2, <2>1 DEF Turned8
  <1>3. CASE curr # NotTaken
    <2> DEFINE a == curr.theta
               d == h - Rem(a)
    <2>1. a \in Int
      BY <1>3 DEF AnimationInv, AnimationTypeOK, Taken, Angles
    <2>2. PICK k \in Int : a = Rem(a) + 8 * k
      BY <2>1, RemTurns
    <2>3. Rem(a) \in -7..7 /\ Rem(a) \in Int
      BY <2>1, RemTurns
    <2>4. d \in -10..11 /\ d \in Int
      BY <1>1, <2>3
    <2>5. PICK j \in Int : Shorter(d) = d + 8 * j
      BY <2>4, ShorterTurns
    <2>6. Shorter(d) \in -4..4
      BY <2>4, ShorterTurns
    <2>7. Accumulated(h) = a + Shorter(d)
      BY <1>3 DEF Accumulated
    <2> HIDE DEF a
    <2>8. a + Shorter(d) = h + 8 * (k + j) /\ k + j \in Int
      BY <1>1, <2>1, <2>2, <2>3, <2>5
    <2>9. Turned8(Accumulated(h), h)
      BY <2>7, <2>8 DEF Turned8
    <2>10. Accumulated(h) \in Int /\ Accumulated(h) - a \in -4..4
      BY <2>1, <2>6, <2>7
    <2>11. QED
      BY <1>3, <2>9, <2>10 DEF a
  <1>4. QED
    BY <1>2, <1>3

LEMMA PosesSomewhere == \A p \in Poses : p # Nowhere /\ p[2] \in Headings
  BY DEF Poses, Nowhere

LEMMA AnimationInits == AnimationInit => AnimationInv
  <1> SUFFICES ASSUME AnimationInit PROVE AnimationInv
    OBVIOUS
  <1>1. pose = Nowhere /\ moves = 0 /\ curr = NotTaken /\ prev = NotTaken
    BY DEF AnimationInit
  <1>2. curr.pose = Nowhere /\ curr.theta = 0
    BY <1>1 DEF NotTaken
  <1>3. Period \in Nat /\ MaxMoves \in Nat /\ StopAfter \in Nat
    BY AnimationAssumption
  <1>4. Longest \in 0..Longest /\ 0 \in 0..Longest /\ 0 \in 0..Period /\ 0 \in 0..MaxMoves
    BY <1>3 DEF Longest
  <1>5. sinceData = 0 /\ sinceTake = Longest /\ fresh = FALSE /\ drawn = [way |-> 0, to |-> NotTaken]
    BY DEF AnimationInit
  <1>6. [way |-> 0, to |-> NotTaken] \in [way : 0..Period, to : Taken \cup {NotTaken}]
    BY <1>4
  <1>7. AnimationTypeOK
    BY <1>1, <1>4, <1>5, <1>6 DEF AnimationTypeOK
  <1>8. QED
    BY <1>1, <1>2, <1>7 DEF AnimationInv, Turns4

LEMMA AnimationSteps ==
  ASSUME AnimationInv, [AnimationNext]_animation
  PROVE  AnimationInv'
  <1> USE AnimationAssumption
  <1>0. /\ AnimationTypeOK /\ moves \in Nat /\ moves <= MaxMoves /\ MaxMoves \in Nat
        /\ curr.theta \in Int
    BY DEF AnimationInv, AnimationTypeOK, Taken, NotTaken, Angles
  <1>1. CASE Tick
    <2>1. sinceData' \in 0..Longest /\ sinceTake' \in 0..Longest
      BY <1>0, <1>1 DEF Tick, Aged, AnimationTypeOK, Longest
    <2>2. UNCHANGED <<pose, moves, prev, curr, drawn, fresh>>
      BY <1>1 DEF Tick
    <2>3. AnimationTypeOK'
      BY <1>0, <2>1, <2>2 DEF AnimationTypeOK
    <2>4. QED
      BY <2>2, <2>3 DEF AnimationInv, Turns4
  <1>2. ASSUME NEW p \in Poses, DataArrives(p) PROVE AnimationInv'
    <2>1. UNCHANGED <<sinceTake, prev, curr, drawn>> /\ pose' = p /\ sinceData' = 0 /\ fresh' = TRUE
      BY <1>2 DEF DataArrives
    <2>2. moves' \in 0..MaxMoves /\ (p = pose => moves' = moves) /\ (p # pose => moves' = moves + 1)
      BY <1>0, <1>2 DEF DataArrives
    <2>3. 0 \in 0..Longest
      BY DEF Longest
    <2>4. AnimationTypeOK'
      BY <1>0, <2>1, <2>2, <2>3 DEF AnimationTypeOK
    <2>5. curr'.theta \in -Turns4'..Turns4' /\ (pose' # curr'.pose => moves' > 0)
      <3>1. CASE p = pose
        BY <2>1, <2>2, <3>1 DEF AnimationInv, Turns4
      <3>2. CASE p # pose
        <4>1. moves' = moves + 1
          BY <2>2, <3>2
        <4>2. curr.theta \in -(4 * moves)..(4 * moves)
          BY <1>0 DEF AnimationInv, Turns4
        <4>3. Turns4' >= 4 * moves /\ Turns4' \in Int
          BY <1>0, <4>1 DEF Turns4
        <4>4. curr.theta \in -Turns4'..Turns4'
          BY <1>0, <4>2, <4>3
        <4>5. QED
          BY <1>0, <2>1, <4>1, <4>4
      <3>3. QED
        BY <3>1, <3>2
    <2>6. QED
      BY <2>1, <2>4, <2>5 DEF AnimationInv
  <1>3. CASE Frame
    <2>1. UNCHANGED <<pose, moves, sinceData>> /\ fresh' = FALSE
      BY <1>3 DEF Frame
    <2>2. CASE HasNewData /\ pose # Nowhere
      <3>1. pose \in Poses /\ pose[2] \in Headings
        BY <1>0, <2>2, PosesSomewhere DEF AnimationTypeOK
      <3> DEFINE theta == Accumulated(pose[2])
                 taken == [pose |-> pose, theta |-> theta]
      <3>2. /\ theta \in Int /\ Turned8(theta, pose[2])
            /\ curr # NotTaken => theta - curr.theta \in -4..4
            /\ curr = NotTaken => theta \in -4..4
        BY <3>1, AccumulatedTurns
      <3>3. prev' = curr /\ curr' = taken /\ sinceTake' = 0
        BY <1>3, <2>2 DEF Frame
      <3> HIDE DEF theta
      <3>4. curr'.pose = pose /\ curr'.theta = theta
        BY <3>3
      <3>5. moves >= 1 /\ curr.theta \in -(4 * (moves - 1))..(4 * (moves - 1))
        <4>1. pose # curr.pose
          BY <2>2 DEF HasNewData
        <4>2. QED
          BY <1>0, <4>1 DEF AnimationInv, Turns4
      <3>6. theta \in -(4 * moves)..(4 * moves)
        BY <1>0, <3>2, <3>5
      <3>7. Turns4' = 4 * moves
        BY <2>1, <3>4 DEF Turns4
      <3>8. taken \in Taken
        <4>1. theta \in Angles
          BY <1>0, <3>2, <3>6 DEF Angles, Half, Turn
        <4>2. QED
          BY <3>1, <4>1 DEF Taken
      <3>9. drawn' \in [way : 0..Period, to : Taken \cup {NotTaken}]
        <4>1. Factor \in 0..Period /\ Period \in 0..Period
          BY <1>0 DEF Factor, AnimationTypeOK, Longest
        <4>2. drawn'.way \in 0..Period /\ drawn' = [to |-> taken, way |-> drawn'.way]
          BY <1>3, <2>2, <3>3, <4>1 DEF Frame
        <4>3. QED
          BY <3>8, <4>2
      <3>10. AnimationTypeOK'
        <4>1. 0 \in 0..Longest
          BY DEF Longest
        <4>2. QED
          BY <1>0, <2>1, <3>3, <3>8, <3>9, <4>1 DEF AnimationTypeOK
      <3>11. prev' # NotTaken => curr'.theta - prev'.theta \in -4..4
        BY <3>2, <3>3, <3>4
      <3>12. curr'.theta \in -Turns4'..Turns4' /\ curr'.pose \in Poses /\ Turned8(curr'.theta, curr'.pose[2])
        BY <3>1, <3>2, <3>4, <3>6, <3>7
      <3>13. QED
        BY <2>1, <3>4, <3>10, <3>11, <3>12 DEF AnimationInv
    <2>3. CASE ~(HasNewData /\ pose # Nowhere)
      <3>1. UNCHANGED <<prev, curr, sinceTake>>
        BY <1>3, <2>3 DEF Frame
      <3>2. drawn' \in [way : 0..Period, to : Taken \cup {NotTaken}]
        <4>1. Factor \in 0..Period /\ Period \in 0..Period
          BY <1>0 DEF Factor, AnimationTypeOK, Longest
        <4>2. CASE pose = Nowhere
          BY <1>0, <1>3, <4>2 DEF Frame, AnimationTypeOK
        <4>3. CASE pose # Nowhere
          <5>1. drawn'.way \in 0..Period /\ drawn' = [to |-> curr, way |-> drawn'.way]
            BY <1>3, <3>1, <4>1, <4>3 DEF Frame
          <5>2. QED
            BY <1>0, <5>1 DEF AnimationTypeOK
        <4>4. QED
          BY <4>2, <4>3
      <3>3. AnimationTypeOK'
        BY <1>0, <2>1, <3>1, <3>2 DEF AnimationTypeOK
      <3>4. QED
        BY <2>1, <3>1, <3>3 DEF AnimationInv, Turns4
    <2>4. QED
      BY <2>2, <2>3
  <1>4. CASE UNCHANGED animation
    BY <1>4 DEF animation, AnimationInv, AnimationTypeOK, Turns4
  <1>5. QED
    BY <1>1, <1>2, <1>3, <1>4 DEF AnimationNext

LEMMA AnimationIsShort == AnimationInv => AnimationTypeOK /\ TurnsShort
  <1> SUFFICES ASSUME AnimationInv, curr # NotTaken
               PROVE  /\ (curr.theta - curr.pose[2]) % Turn = 0
                      /\ prev # NotTaken => curr.theta - prev.theta \in -Half..Half
    BY DEF AnimationInv, TurnsShort
  <1>1. PICK k \in Int : curr.theta = curr.pose[2] + 8 * k
    BY DEF AnimationInv, Turned8
  <1>2. curr.pose[2] \in Int
    <2>1. curr.pose \in Poses
      BY DEF AnimationInv
    <2>2. curr.pose[2] \in -3..4
      BY <2>1, PosesSomewhere, HeadingsSmall
    <2>3. QED
      BY <2>2
  <1>3. curr.theta - curr.pose[2] = 8 * k
    BY <1>1, <1>2
  <1>4. (8 * k) % 8 = 0
    OBVIOUS
  <1>5. QED
    BY <1>3, <1>4 DEF AnimationInv, Turn, Half

\* However often the AGV turned and in which direction, what is drawn points where the AGV
\* points, and between two positions it turns by half a turn at most.
THEOREM TurnsHalfAtMost == AnimationSpec => []TurnsShort
  BY AnimationInits, AnimationSteps, AnimationIsShort, PTL DEF AnimationSpec

\* What the last frame drew of the way is no more than the next would, until new data come.
WayGrows ==
  /\ pose = Nowhere => drawn.way = 0
  /\ ~fresh /\ drawn.to = curr =>
       drawn.way <= Factor \/ prev = NotTaken \/ (pose = curr.pose /\ sinceTake > StopAfter)

LEMMA WayInits == AnimationInit => WayGrows
  BY AnimationAssumption DEF AnimationInit, WayGrows, Factor

LEMMA WaySteps ==
  ASSUME AnimationInv, WayGrows, [AnimationNext]_animation
  PROVE  WayGrows' /\ (~fresh /\ drawn'.to = drawn.to /\ sinceTake' = sinceTake => drawn'.way >= drawn.way)
  <1> USE AnimationAssumption
  <1> DEFINE Forward == ~fresh /\ drawn'.to = drawn.to /\ sinceTake' = sinceTake => drawn'.way >= drawn.way
  <1>0. /\ AnimationTypeOK /\ sinceData \in Nat /\ sinceTake \in Nat /\ drawn.way \in 0..Period
        /\ Period \in Nat /\ MinGap \in Nat /\ StopAfter \in Nat /\ MinGap < StopAfter
        /\ Longest = StopAfter + 1
    BY DEF AnimationInv, AnimationTypeOK, Longest
  <1>1. CASE Tick
    <2>1. /\ UNCHANGED <<pose, moves, prev, curr, drawn, fresh>>
          /\ sinceData' >= sinceData /\ sinceData' \in Nat /\ (sinceTake > StopAfter => sinceTake' > StopAfter)
      BY <1>0, <1>1 DEF Tick, Aged
    <2>2. Factor' >= Factor /\ Factor \in Nat /\ Factor' \in Nat
      BY <1>0, <2>1 DEF Factor
    <2>3. QED
      BY <1>0, <2>1, <2>2 DEF WayGrows
  <1>2. ASSUME NEW p \in Poses, DataArrives(p) PROVE WayGrows' /\ Forward
    BY <1>0, <1>2, PosesSomewhere DEF DataArrives, WayGrows
  <1>3. CASE Frame
    <2>1. UNCHANGED <<pose, moves, sinceData>> /\ Factor' = Factor /\ Factor \in Nat /\ Factor <= Period
      BY <1>0, <1>3 DEF Frame, Factor
    <2>2. CASE pose = Nowhere
      BY <1>0, <1>3, <2>1, <2>2 DEF Frame, WayGrows
    <2>3. CASE pose # Nowhere /\ HasNewData
      <3>1. /\ drawn' = [to |-> curr', way |-> IF prev' = NotTaken THEN Period ELSE Factor]
            /\ sinceTake' = 0 /\ sinceTake > MinGap
        BY <1>3, <2>3 DEF Frame, IsStopped, HasNewData
      <3>2. sinceTake' # sinceTake
        BY <1>0, <3>1
      <3>3. prev' # NotTaken => drawn'.way = Factor
        BY <3>1
      <3>4. QED
        BY <1>0, <2>1, <2>3, <3>2, <3>3 DEF WayGrows
    <2>4. CASE pose # Nowhere /\ ~HasNewData
      <3>1. /\ drawn' = [to |-> curr, way |-> IF IsStopped \/ prev = NotTaken THEN Period ELSE Factor]
            /\ UNCHANGED <<prev, curr, sinceTake>>
        BY <1>3, <2>4 DEF Frame
      <3>2. drawn'.to = curr
        BY <3>1
      <3>3. (IsStopped \/ prev = NotTaken => drawn'.way = Period) /\ (~IsStopped /\ prev # NotTaken => drawn'.way = Factor)
        BY <3>1
      <3>4. IsStopped <=> pose = curr.pose /\ sinceTake > StopAfter
        BY <1>0, <2>4 DEF IsStopped, HasNewData
      <3>5. WayGrows'
        BY <1>0, <2>1, <2>4, <3>1, <3>3, <3>4 DEF WayGrows
      <3>6. Forward
        <4> SUFFICES ASSUME ~fresh, drawn.to = curr PROVE drawn'.way >= drawn.way
          BY <3>2
        <4>1. drawn.way <= Factor \/ prev = NotTaken \/ IsStopped
          BY <3>4 DEF WayGrows
        <4>2. QED
          BY <1>0, <2>1, <3>3, <4>1
      <3>7. QED
        BY <3>5, <3>6
    <2>5. QED
      BY <2>2, <2>3, <2>4
  <1>4. CASE UNCHANGED animation
    BY <1>0, <1>4 DEF animation, WayGrows, Factor
  <1>5. QED
    BY <1>1, <1>2, <1>3, <1>4 DEF AnimationNext

\* Between two frames without new data the drawn AGV does not go back on its way.
THEOREM DrawnGoesOn == AnimationSpec => NoStepBack
  BY AnimationInits, AnimationSteps, WayInits, WaySteps, PTL DEF AnimationSpec, NoStepBack

-----------------------------------------------------------------------------
(* The zoom of both pages *)

LEMMA ZoomTurned ==
  ASSUME NEW z \in Zooms, NEW deltaY \in Int
  PROVE  /\ Turned(z, deltaY) \in Zooms
         /\ ~Reached(z, deltaY) => Turned(z, deltaY).level = z.level
         /\ Reached(z, deltaY) \in BOOLEAN
  <1>1. /\ z.level \in Least..Most /\ z.wheel \in 0..(Threshold - 1)
        /\ z.level \in Int /\ z.wheel \in Nat
    <2>1. z.level \in Least..Most /\ z.wheel \in 0..(Threshold - 1)
      BY DEF Zooms
    <2>2. ASSUME NEW l \in Least..Most PROVE l \in Int
      BY DEF Least, Most
    <2>3. ASSUME NEW w \in 0..(Threshold - 1) PROVE w \in Nat
      BY DEF Threshold
    <2>4. QED
      BY <2>1, <2>2, <2>3
  <1>2. Absolute(deltaY) \in Nat
    BY DEF Absolute
  <1>3. CASE Reached(z, deltaY)
    <2> DEFINE l == (z.level * (IF deltaY > 0 THEN 8 ELSE 12)) \div 10
    <2>1. l \in Int
      BY <1>1
    <2> HIDE DEF l
    <2>2. Clamped(l) \in Least..Most
      BY <2>1 DEF Clamped, Least, Most
    <2>3. Turned(z, deltaY) = [level |-> Clamped(l), wheel |-> 0]
      BY <1>3 DEF Turned, l
    <2>4. 0 \in 0..(Threshold - 1)
      BY DEF Threshold
    <2>5. QED
      BY <1>3, <2>2, <2>3, <2>4 DEF Zooms
  <1>4. CASE ~Reached(z, deltaY)
    <2>1. z.wheel + Absolute(deltaY) \in 0..(Threshold - 1)
      BY <1>1, <1>2, <1>4 DEF Reached, Threshold
    <2>2. Turned(z, deltaY) = [z EXCEPT !.wheel = z.wheel + Absolute(deltaY)]
      BY <1>4 DEF Turned
    <2> DEFINE w == z.wheel + Absolute(deltaY)
    <2> HIDE DEF w
    <2>3. [z EXCEPT !.wheel = w] \in Zooms /\ [z EXCEPT !.wheel = w].level = z.level
      <3>1. w \in 0..(Threshold - 1)
        BY <2>1 DEF w
      <3>2. QED
        BY <3>1 DEF Zooms
    <2>4. QED
      <3>1. Turned(z, deltaY) = [z EXCEPT !.wheel = w]
        BY <2>2 DEF w
      <3>2. QED
        BY <1>4, <2>3, <3>1 DEF Reached
  <1>5. QED
    BY <1>3, <1>4 DEF Reached

-----------------------------------------------------------------------------
(* Loading, drawing and zooming of the simulator's page *)

\* No position reaches the page before the map's data, and the canvases have their size
\* when these are there.
PageInv ==
  /\ PageTypeOK /\ PictureCurrent /\ AnimationGoesOn
  /\ info => canvas \in Sizes
  /\ status # "unknown" => Polling

LEMMA ZoomStarts == Unzoomed \in Zooms
  BY DEF Unzoomed, Zooms, Least, Most, Threshold

LEMMA PageInits == PageInit => PageInv
  <1> SUFFICES ASSUME PageInit PROVE PageInv
    OBVIOUS
  <1>1. 0 \in 0..MaxResizes /\ 0 \in 0..MaxZooms /\ 1 \in 0..MaxFrames
    BY PageAssumption DEF MaxFrames
  <1>2. PageTypeOK
    BY <1>1, ZoomStarts DEF PageInit, PageTypeOK
  <1>3. QED
    BY <1>2 DEF PageInit, PageInv, PictureCurrent, AnimationGoesOn

LEMMA PageSteps ==
  ASSUME PageInv, [PageNext]_page
  PROVE  PageInv'
  <1> USE PageAssumption DEF PageInv, PageTypeOK, PictureCurrent, AnimationGoesOn, Polling
  <1>0. zoom.level \in Least..Most
    BY DEF Zooms
  <1>1. ASSUME NEW ok \in BOOLEAN, ImageArrives(ok) PROVE PageInv'
    BY <1>1 DEF ImageArrives
  <1>2. ASSUME NEW ok \in BOOLEAN, InfoArrives(ok) PROVE PageInv'
    <2>1. picture' = IF image /\ ok THEN [level |-> zoom.level, size |-> window] ELSE Blank
      BY <1>2 DEF InfoArrives, Drawn
    <2>2. picture' \in [level : Least..Most, size : Sizes] \cup {Blank}
      BY <1>0, <2>1
    <2>3. UNCHANGED zoom /\ canvas' = window /\ info' = ok /\ UNCHANGED image
      BY <1>2 DEF InfoArrives
    <2>4. PictureCurrent'
      BY <2>1, <2>3
    <2>5. QED
      BY <1>2, <2>2, <2>4 DEF InfoArrives
  <1>3. ASSUME NEW size \in Sizes, WindowResizes(size) PROVE PageInv'
    BY <1>3 DEF WindowResizes, TimerStarted
  <1>4. CASE ResizeCanvas
    <2>1. picture' = IF image /\ info THEN [level |-> zoom.level, size |-> window] ELSE Blank
      BY <1>4 DEF ResizeCanvas, Drawn
    <2>2. picture' \in [level : Least..Most, size : Sizes] \cup {Blank}
      BY <1>0, <2>1
    <2>3. QED
      BY <1>4, <2>1, <2>2 DEF ResizeCanvas
  <1>5. ASSUME NEW s \in {"nowhere", "located"}, StatusArrives(s) PROVE PageInv'
    BY <1>5 DEF StatusArrives
  <1>6. ASSUME NEW deltaY \in Deltas, Wheel(deltaY) PROVE PageInv'
    <2>1. /\ Turned(zoom, deltaY) \in Zooms /\ Reached(zoom, deltaY) \in BOOLEAN
          /\ ~Reached(zoom, deltaY) => Turned(zoom, deltaY).level = zoom.level
      BY ZoomTurned
    <2>2. /\ UNCHANGED <<stage, image, info, window, canvas, resizeTimer, status, frames, resizes>>
          /\ zoom' = Turned(zoom, deltaY) /\ zooms' \in 0..MaxZooms
          /\ picture' = IF Reached(zoom, deltaY) /\ image /\ info
                          THEN [level |-> zoom'.level, size |-> canvas] ELSE picture
      BY <1>6, <2>1 DEF Wheel, Redrawn, Drawn
    <2>3. zoom' \in Zooms /\ zoom'.level \in Least..Most
      BY <2>1, <2>2 DEF Zooms
    <2>4. picture' \in [level : Least..Most, size : Sizes] \cup {Blank}
      BY <2>2, <2>3
    <2>5. PictureCurrent'
      <3>1. CASE Reached(zoom, deltaY) /\ image /\ info
        BY <2>2, <3>1
      <3>2. CASE ~Reached(zoom, deltaY)
        BY <2>1, <2>2, <3>2
      <3>3. QED
        BY <2>2, <3>1, <3>2
    <2>6. QED
      BY <2>2, <2>3, <2>4, <2>5
  <1>7. CASE BrokenFrame
    BY <1>7 DEF BrokenFrame, DrawingThrows, MaxFrames
  <1>8. CASE Slider
    BY <1>8 DEF Slider, MaxFrames
  <1>9. CASE UNCHANGED page
    BY <1>9 DEF page
  <1>10. QED
    BY <1>1, <1>2, <1>3, <1>4, <1>5, <1>6, <1>7, <1>8, <1>9 DEF PageNext

\* Once loaded, the canvas shows the map in its zoom and size after every wheel and resize,
\* whatever failed in between; and the animation stops only if the map's data never came.
THEOREM MapStaysCurrent == PageSpec => [](PictureCurrent /\ AnimationGoesOn)
  <1>1. PageInv => PictureCurrent /\ AnimationGoesOn
    BY DEF PageInv
  <1>2. QED
    BY PageInits, PageSteps, <1>1, PTL DEF PageSpec

-----------------------------------------------------------------------------
(* The dispatcher's page *)

\* What the layers may show, whichever handlers drew them.
Layer == [route : Shown, level : Least..Most] \cup {NoMap}
AgvLayer == [list : 1..MaxChanges, level : Least..Most] \cup {NoAgvs}

LEMMA StaticTyped ==
  ASSUME DispatchTypeOK, NEW route \in Shown, NEW level \in Least..Most, NEW hasMap \in BOOLEAN
  PROVE  StaticDrawn(route, level, hasMap) \in Layer
  BY DEF DispatchTypeOK, StaticDrawn, Layer

LEMMA DynamicTyped ==
  ASSUME DispatchTypeOK, NEW list \in 0..MaxChanges, NEW level \in Least..Most
  PROVE  DynamicDrawn(list, level) \in AgvLayer
  BY DispatchAssumption DEF DynamicDrawn, AgvLayer

LEMMA BothTyped ==
  ASSUME DispatchTypeOK, NEW route \in Shown, NEW level \in Least..Most, BothDrawn(route, level)
  PROVE  staticLayer' \in Layer /\ dynamicLayer' \in AgvLayer
  <1>1. staticLayer' \in Layer
    BY StaticTyped DEF BothDrawn, DispatchTypeOK
  <1>2. DynamicDrawn(agvStatusList, level) \in AgvLayer /\ dynamicLayer \in AgvLayer
    BY DynamicTyped DEF DispatchTypeOK, AgvLayer
  <1>3. QED
    BY <1>1, <1>2 DEF BothDrawn

LEMMA DispatchTypesStart == DispatchInit => DispatchTypeOK
  <1> SUFFICES ASSUME DispatchInit PROVE DispatchTypeOK
    OBVIOUS
  <1>1. 0 \in 0..MaxAsked /\ 0 \in 0..MaxNotches /\ 0 \in 0..MaxChanges /\ 0 \in 0..MaxPollFailures
    BY DispatchAssumption
  <1>2. QED
    BY <1>1, ZoomStarts DEF DispatchInit, DispatchTypeOK, Shown

LEMMA DispatchTypesStay ==
  ASSUME DispatchTypeOK, [DispatchNext]_dispatch
  PROVE  DispatchTypeOK'
  <1> USE DispatchAssumption
  <1>0. /\ scale.level \in Least..Most /\ currentRoute \in Shown /\ map \in BOOLEAN
        /\ NoRoute \in Shown /\ Routes \subseteq Shown
        /\ 0 \in 0..MaxChanges /\ staticLayer \in Layer /\ dynamicLayer \in AgvLayer
    BY DEF DispatchTypeOK, Zooms, Shown, Layer, AgvLayer
  <1>1. ASSUME NEW ok \in BOOLEAN, MapImageArrives(ok) PROVE DispatchTypeOK'
    BY <1>1 DEF MapImageArrives, DispatchTypeOK
  <1>2. ASSUME NEW ok \in BOOLEAN, MapArrives(ok) PROVE DispatchTypeOK'
    <2>1. staticLayer' \in Layer /\ dynamicLayer' \in AgvLayer
      BY <1>0, <1>2 DEF MapArrives, Resized, Layer, AgvLayer
    <2>2. polls' \in [1..MaxPolls -> {NoPoll, NotRead} \cup 0..MaxChanges]
      BY <1>2 DEF MapArrives, DispatchTypeOK
    <2>3. QED
      BY <1>2, <2>1, <2>2 DEF MapArrives, DispatchTypeOK, Layer, AgvLayer
  <1>3. CASE LoadMapInfo
    BY <1>3 DEF LoadMapInfo, DispatchTypeOK
  <1>4. CASE ResizeCanvases
    <2>1. staticLayer' \in Layer /\ dynamicLayer' \in AgvLayer
      BY <1>0, <1>4 DEF ResizeCanvases, Resized, Layer, AgvLayer
    <2>2. QED
      BY <1>4, <2>1 DEF ResizeCanvases, DispatchTypeOK, Layer, AgvLayer
  <1>5. CASE ClearRoute
    <2>1. staticLayer' \in Layer /\ dynamicLayer' \in AgvLayer
      BY <1>0, <1>5, BothTyped DEF ClearRoute, ClearedDrawn
    <2>2. asked' \in 0..MaxAsked /\ routeRequests' = routeRequests
      BY <1>5 DEF ClearRoute, Asks, DispatchTypeOK
    <2>3. QED
      BY <1>0, <1>5, <2>1, <2>2 DEF ClearRoute, Asks, DispatchTypeOK, Layer, AgvLayer
  <1>6. CASE AgvsChange
    BY <1>6 DEF AgvsChange, DispatchTypeOK
  <1>7. ASSUME NEW route \in Routes, VisualizeRoute(route) PROVE DispatchTypeOK'
    <2>1. asked + 1 \in 1..MaxAsked /\ asked' = asked + 1
      BY <1>7 DEF VisualizeRoute, Asks, DispatchTypeOK
    <2>2. [route |-> route, number |-> asked + 1] \in [route : Routes, number : 1..MaxAsked]
      BY <2>1
    <2>3. routeRequests' \subseteq [route : Routes, number : 1..MaxAsked]
      BY <1>7, <2>2 DEF VisualizeRoute, DispatchTypeOK
    <2>4. asked' \in 0..MaxAsked
      BY <2>1
    <2>5. QED
      BY <1>0, <1>7, <2>3, <2>4 DEF VisualizeRoute, Asks, DispatchTypeOK
  <1>8. ASSUME NEW q \in routeRequests, RouteArrives(q) PROVE DispatchTypeOK'
    <2>1. q.route \in Shown
      BY <1>0 DEF DispatchTypeOK
    <2>2. currentRoute' = q.route /\ BothDrawn(q.route, scale.level)
      BY <1>8 DEF RouteArrives, RouteFrom
    <2>3. staticLayer' \in Layer /\ dynamicLayer' \in AgvLayer
      BY <1>0, <2>1, <2>2, BothTyped
    <2>4. QED
      BY <1>8, <2>1, <2>2, <2>3 DEF RouteArrives, DispatchTypeOK, Layer, AgvLayer
  <1>9. ASSUME NEW q \in routeRequests, RouteFails(q) PROVE DispatchTypeOK'
    BY <1>9 DEF RouteFails, DispatchTypeOK
  <1>10. ASSUME NEW deltaY \in Turns, DispatchWheel(deltaY) PROVE DispatchTypeOK'
    <2>1. scale' \in Zooms /\ scale'.level \in Least..Most
      <3>1. scale' = Turned(scale, deltaY) /\ scale \in Zooms
        BY <1>10 DEF DispatchWheel, DispatchTypeOK
      <3>2. scale' \in Zooms
        BY <3>1, ZoomTurned
      <3>3. QED
        BY <3>2 DEF Zooms
    <2>2. staticLayer' \in Layer /\ dynamicLayer' \in AgvLayer
      <3>1. CASE Reached(scale, deltaY)
        <4>1. BothDrawn(currentRoute, scale'.level)
          BY <1>10, <3>1 DEF DispatchWheel
        <4>2. QED
          BY <1>0, <2>1, <4>1, BothTyped
      <3>2. CASE ~Reached(scale, deltaY)
        BY <1>0, <1>10, <3>2 DEF DispatchWheel
      <3>3. QED
        BY <3>1, <3>2
    <2>3. notches' \in 0..MaxNotches
      BY <1>10 DEF DispatchWheel, DispatchTypeOK
    <2>4. QED
      BY <1>10, <2>1, <2>2, <2>3 DEF DispatchWheel, DispatchTypeOK, Layer, AgvLayer
  <1>11. ASSUME NEW n \in 1..MaxPolls, LoadAgvPositions(n) \/ ReadAgvs(n) PROVE DispatchTypeOK'
    <2>1. polls' \in [1..MaxPolls -> {NoPoll, NotRead} \cup 0..MaxChanges]
      BY <1>11 DEF LoadAgvPositions, ReadAgvs, DispatchTypeOK
    <2>2. QED
      BY <1>11, <2>1 DEF LoadAgvPositions, ReadAgvs, DispatchTypeOK
  <1>12. ASSUME NEW n \in 1..MaxPolls, AgvsArrive(n) PROVE DispatchTypeOK'
    <2>1. polls' \in [1..MaxPolls -> {NoPoll, NotRead} \cup 0..MaxChanges] /\ agvStatusList' \in 0..MaxChanges
      BY <1>12 DEF AgvsArrive, DispatchTypeOK
    <2>2. dynamicLayer' \in AgvLayer
      BY <1>0, <1>12, DynamicTyped DEF AgvsArrive
    <2>3. QED
      BY <1>12, <2>1, <2>2 DEF AgvsArrive, DispatchTypeOK, AgvLayer
  <1>13. ASSUME NEW n \in 1..MaxPolls, PollFails(n) PROVE DispatchTypeOK'
    <2>1. polls' \in [1..MaxPolls -> {NoPoll, NotRead} \cup 0..MaxChanges]
      BY <1>13 DEF PollFails, DispatchTypeOK
    <2>2. pollFailures' \in 0..MaxPollFailures
      BY <1>13 DEF PollFails, DispatchTypeOK
    <2>3. QED
      BY <1>13, <2>1, <2>2 DEF PollFails, DispatchTypeOK
  <1>14. CASE UNCHANGED dispatch
    BY <1>14 DEF dispatch, DispatchTypeOK
  <1>15. QED
    BY <1>1, <1>2, <1>3, <1>4, <1>5, <1>6, <1>7, <1>8, <1>9, <1>10, <1>11, <1>12, <1>13, <1>14 DEF DispatchNext

\* Nothing is drawn as long as the image or the map's data are missing, and the page is
\* never done with an image it cannot draw.
StaticInv ==
  /\ StaticCurrent
  /\ ~(mapImage /\ map) => staticLayer = NoMap
  /\ loading = "image" => ~mapImage
  /\ loading = "done" /\ mapImage => map

LEMMA StaticStarts == DispatchInit => StaticInv
  BY DEF DispatchInit, StaticInv, StaticCurrent

LEMMA StaticStays ==
  ASSUME DispatchTypeOK, StaticInv, [DispatchNext]_dispatch
  PROVE  StaticInv'
  <1> DEFINE Now == [route |-> currentRoute, level |-> scale.level]
  <1>0. /\ staticLayer \in {Now, NoMap} /\ (loading = "done" /\ mapImage /\ map => staticLayer = Now)
        /\ (~(mapImage /\ map) => staticLayer = NoMap)
        /\ (loading = "image" => ~mapImage) /\ (loading = "done" /\ mapImage => map)
        /\ mapImage \in BOOLEAN /\ map \in BOOLEAN
    BY DEF StaticInv, StaticCurrent, DispatchTypeOK
  <1>1. SUFFICES /\ staticLayer' \in {Now', NoMap}
                 /\ (loading' = "done" /\ mapImage' /\ map' => staticLayer' = Now')
                 /\ (~(mapImage' /\ map') => staticLayer' = NoMap)
                 /\ (loading' = "image" => ~mapImage') /\ (loading' = "done" /\ mapImage' => map')
    BY DEF StaticInv, StaticCurrent
  <1> DEFINE Goal == /\ staticLayer' \in {Now', NoMap}
                     /\ (loading' = "done" /\ mapImage' /\ map' => staticLayer' = Now')
                     /\ (~(mapImage' /\ map') => staticLayer' = NoMap)
                     /\ (loading' = "image" => ~mapImage') /\ (loading' = "done" /\ mapImage' => map')
  <1>2. ASSUME NEW ok \in BOOLEAN, MapImageArrives(ok) PROVE Goal
    BY <1>0, <1>2 DEF MapImageArrives
  <1>3. ASSUME NEW ok \in BOOLEAN, MapArrives(ok) PROVE Goal
    BY <1>0, <1>3 DEF MapArrives, Resized, StaticThrows
  <1>4. CASE LoadMapInfo
    BY <1>0, <1>4 DEF LoadMapInfo
  <1>5. CASE ResizeCanvases
    BY <1>0, <1>5 DEF ResizeCanvases, Resized
  <1>6. CASE ClearRoute
    BY <1>0, <1>6 DEF ClearRoute, Asks, ClearedDrawn, BothDrawn, StaticDrawn
  <1>7. CASE AgvsChange
    BY <1>0, <1>7 DEF AgvsChange
  <1>8. ASSUME NEW route \in Routes, VisualizeRoute(route) PROVE Goal
    BY <1>0, <1>8 DEF VisualizeRoute
  <1>9. ASSUME NEW q \in routeRequests, RouteArrives(q) PROVE Goal
    BY <1>0, <1>9 DEF RouteArrives, BothDrawn, StaticDrawn
  <1>10. ASSUME NEW q \in routeRequests, RouteFails(q) PROVE Goal
    BY <1>0, <1>10 DEF RouteFails
  <1>11. ASSUME NEW deltaY \in Turns, DispatchWheel(deltaY) PROVE Goal
    <2>1. UNCHANGED <<loading, mapImage, map, currentRoute>>
      BY <1>11 DEF DispatchWheel
    <2>2. CASE Reached(scale, deltaY)
      BY <1>0, <1>11, <2>1, <2>2 DEF DispatchWheel, BothDrawn, StaticDrawn
    <2>3. CASE ~Reached(scale, deltaY)
      <3>1. scale'.level = scale.level
        BY <1>11, <2>3, ZoomTurned, DispatchAssumption DEF DispatchWheel, DispatchTypeOK
      <3>2. QED
        BY <1>0, <1>11, <2>1, <2>3, <3>1 DEF DispatchWheel
    <2>4. QED
      BY <2>2, <2>3
  <1>12. ASSUME NEW n \in 1..MaxPolls, Polled(n) PROVE Goal
    <2>1. UNCHANGED <<loading, mapImage, map, currentRoute, scale, staticLayer>>
      BY <1>12 DEF Polled, LoadAgvPositions, ReadAgvs, AgvsArrive, PollFails
    <2>2. QED
      BY <1>0, <2>1
  <1>13. CASE UNCHANGED dispatch
    BY <1>0, <1>13 DEF dispatch
  <1>14. QED
    BY <1>2, <1>3, <1>4, <1>5, <1>6, <1>7, <1>8, <1>9, <1>10, <1>11, <1>12, <1>13
    DEF DispatchNext, Polled

\* Without the map's data no AGV has been drawn.
DynamicInv == DynamicCurrent /\ (~map => dynamicLayer = NoAgvs)

LEMMA DynamicStarts == DispatchInit => DynamicInv
  BY DEF DispatchInit, DynamicInv, DynamicCurrent

LEMMA DynamicStays ==
  ASSUME DispatchTypeOK, DynamicInv, [DispatchNext]_dispatch
  PROVE  DynamicInv'
  <1> DEFINE Now == [list |-> agvStatusList, level |-> scale.level]
  <1>0. dynamicLayer \in {Now, NoAgvs} /\ (~map => dynamicLayer = NoAgvs) /\ map \in BOOLEAN
    BY DEF DynamicInv, DynamicCurrent, DispatchTypeOK
  <1>1. SUFFICES dynamicLayer' \in {Now', NoAgvs} /\ (~map' => dynamicLayer' = NoAgvs)
    BY DEF DynamicInv, DynamicCurrent
  <1> DEFINE Goal == dynamicLayer' \in {Now', NoAgvs} /\ (~map' => dynamicLayer' = NoAgvs)
  <1>2. ASSUME NEW ok \in BOOLEAN, MapImageArrives(ok) PROVE Goal
    BY <1>0, <1>2 DEF MapImageArrives
  <1>3. ASSUME NEW ok \in BOOLEAN, MapArrives(ok) PROVE Goal
    BY <1>3 DEF MapArrives, Resized
  <1>4. CASE LoadMapInfo
    BY <1>0, <1>4 DEF LoadMapInfo
  <1>5. CASE ResizeCanvases
    BY <1>5 DEF ResizeCanvases, Resized
  <1>6. ASSUME NEW route, BothDrawn(route, scale'.level), UNCHANGED <<mapImage, map, agvStatusList>>
        PROVE  Goal
    BY <1>0, <1>6 DEF BothDrawn, StaticThrows, DynamicDrawn
  <1>7. CASE ClearRoute
    <2>1. BothDrawn(NoRoute, scale'.level) /\ UNCHANGED <<scale, mapImage, map, agvStatusList>>
      BY <1>7 DEF ClearRoute, Asks, ClearedDrawn
    <2>2. QED
      BY <1>6, <2>1
  <1>8. CASE AgvsChange
    BY <1>0, <1>8 DEF AgvsChange
  <1>9. ASSUME NEW route \in Routes, VisualizeRoute(route) PROVE Goal
    BY <1>0, <1>9 DEF VisualizeRoute
  <1>10. ASSUME NEW q \in routeRequests, RouteArrives(q) PROVE Goal
    <2>1. BothDrawn(currentRoute', scale'.level) /\ UNCHANGED <<scale, mapImage, map, agvStatusList>>
      BY <1>10 DEF RouteArrives
    <2>2. QED
      BY <1>6, <2>1
  <1>11. ASSUME NEW q \in routeRequests, RouteFails(q) PROVE Goal
    BY <1>0, <1>11 DEF RouteFails
  <1>12. ASSUME NEW deltaY \in Turns, DispatchWheel(deltaY) PROVE Goal
    <2>1. UNCHANGED <<mapImage, map, agvStatusList>>
      BY <1>12 DEF DispatchWheel
    <2>2. CASE Reached(scale, deltaY)
      <3>1. BothDrawn(currentRoute, scale'.level)
        BY <1>12, <2>2 DEF DispatchWheel
      <3>2. QED
        BY <1>6, <2>1, <3>1
    <2>3. CASE ~Reached(scale, deltaY)
      <3>1. scale'.level = scale.level
        BY <1>12, <2>3, ZoomTurned, DispatchAssumption DEF DispatchWheel, DispatchTypeOK
      <3>2. QED
        BY <1>0, <1>12, <2>1, <2>3, <3>1 DEF DispatchWheel
    <2>4. QED
      BY <2>2, <2>3
  <1>13. ASSUME NEW n \in 1..MaxPolls, LoadAgvPositions(n) \/ ReadAgvs(n) \/ PollFails(n) PROVE Goal
    BY <1>0, <1>13 DEF LoadAgvPositions, ReadAgvs, PollFails
  <1>14. ASSUME NEW n \in 1..MaxPolls, AgvsArrive(n) PROVE Goal
    BY <1>0, <1>14 DEF AgvsArrive, DynamicDrawn
  <1>15. CASE UNCHANGED dispatch
    BY <1>0, <1>15 DEF dispatch
  <1>16. QED
    BY <1>2, <1>3, <1>4, <1>5, <1>7, <1>8, <1>9, <1>10, <1>11, <1>12, <1>13, <1>14, <1>15
    DEF DispatchNext

\* Unless the user was hasty, the only request under way, if there is one, is for the route
\* last asked for.
RouteInv ==
  ~hasty => \/ routeRequests = {} /\ currentRoute = wanted
            \/ \E q \in routeRequests : routeRequests = {q} /\ q.route = wanted

LEMMA RouteStarts == DispatchInit => RouteInv
  BY DEF DispatchInit, RouteInv

LEMMA RouteStays ==
  ASSUME DispatchTypeOK, RouteInv, [DispatchNext]_dispatch
  PROVE  RouteInv'
  <1>1. CASE ClearRoute
    BY <1>1 DEF ClearRoute, Asks, RouteInv
  <1>2. ASSUME NEW route \in Routes, VisualizeRoute(route) PROVE RouteInv'
    <2> DEFINE q == [route |-> route, number |-> asked + 1]
    <2>1. /\ hasty' = (routeRequests # {}) /\ wanted' = route /\ q.route = route
          /\ routeRequests' = routeRequests \cup {q}
      BY <1>2 DEF VisualizeRoute, Asks
    <2> HIDE DEF q
    <2>2. ~hasty' => routeRequests' = {q}
      BY <2>1
    <2>3. QED
      BY <2>1, <2>2 DEF RouteInv
  <1>3. ASSUME NEW q \in routeRequests, RouteArrives(q) PROVE RouteInv'
    <2>1. /\ hasty' = hasty /\ wanted' = wanted /\ routeRequests' = routeRequests \ {q}
          /\ currentRoute' = q.route
      BY <1>3 DEF RouteArrives, RouteFrom
    <2>2. ~hasty => routeRequests = {q} /\ q.route = wanted
      BY DEF RouteInv
    <2>3. QED
      BY <2>1, <2>2 DEF RouteInv
  <1>4. ASSUME NEW q \in routeRequests, RouteFails(q) PROVE RouteInv'
    <2>1. /\ hasty' = hasty /\ routeRequests' = routeRequests \ {q}
          /\ currentRoute' = currentRoute /\ (~hasty => wanted' = currentRoute)
      BY <1>4 DEF RouteFails
    <2>2. ~hasty => routeRequests = {q}
      BY DEF RouteInv
    <2>3. QED
      BY <2>1, <2>2 DEF RouteInv
  <1>5. CASE UNCHANGED <<currentRoute, routeRequests, wanted, hasty>>
    BY <1>5 DEF RouteInv
  <1>6. QED
    BY <1>1, <1>2, <1>3, <1>4, <1>5
    DEF DispatchNext, dispatch, MapImageArrives, MapArrives, LoadMapInfo, ResizeCanvases, AgvsChange,
        DispatchWheel, LoadAgvPositions, ReadAgvs, AgvsArrive, PollFails

DispatchInv == DispatchTypeOK /\ StaticInv /\ DynamicInv /\ RouteInv

LEMMA DispatchIsCurrent ==
  DispatchInv => DispatchTypeOK /\ StaticCurrent /\ DynamicCurrent /\ RouteAsWanted
  BY DEF DispatchInv, StaticInv, DynamicInv, RouteInv, RouteAsWanted

\* Whatever arrives and in whichever order, the dispatcher's canvases show what the page
\* knows in its zoom, and the route is the one last asked for unless the user was hasty.
THEOREM DispatchStaysCurrent ==
  DispatchSpec => [](StaticCurrent /\ DynamicCurrent /\ RouteAsWanted)
  <1>1. DispatchInit => DispatchInv
    BY DispatchTypesStart, StaticStarts, DynamicStarts, RouteStarts DEF DispatchInv
  <1>2. DispatchInv /\ [DispatchNext]_dispatch => DispatchInv'
    BY DispatchTypesStay, StaticStays, DynamicStays, RouteStays DEF DispatchInv
  <1>3. QED
    BY <1>1, <1>2, DispatchIsCurrent, PTL DEF DispatchSpec

-----------------------------------------------------------------------------
(* Sequences: a function on 1..n is one, and what RemoveAt leaves *)

LEMMA FunctionIsSeq ==
  ASSUME NEW S, NEW n \in Nat, NEW t \in [1..n -> S]
  PROVE  t \in Seq(S) /\ Len(t) = n
  <1>1. t \in Seq(S)
    BY SeqDef
  <1>2. Len(t) \in Nat /\ DOMAIN t = 1..Len(t)
    BY <1>1, LenProperties
  <1>3. 1..Len(t) = 1..n
    BY <1>2
  <1>4. QED
    BY <1>1, <1>2, <1>3

LEMMA RemovedAt ==
  ASSUME NEW S, NEW s \in Seq(S), NEW i \in 1..Len(s)
  PROVE  /\ RemoveAt(s, i) \in Seq(S) /\ Len(RemoveAt(s, i)) = Len(s) - 1
         /\ \A j \in 1..(Len(s) - 1) :
              /\ j < i => RemoveAt(s, i)[j] = s[j]
              /\ j >= i => RemoveAt(s, i)[j] = s[j + 1]
  <1> DEFINE a == SubSeq(s, 1, i - 1)
             b == SubSeq(s, i + 1, Len(s))
  <1>1. Len(s) \in Nat /\ i \in Nat /\ \A k \in 1..Len(s) : s[k] \in S
    BY LenProperties, ElementOfSeq
  <1>2. /\ a \in Seq(S) /\ Len(a) = i - 1 /\ \A k \in 1..(i - 1) : a[k] = s[k]
    <2>1. \A k \in 1..(i - 1) : s[k] \in S
      BY <1>1
    <2>2. /\ a \in Seq(S) /\ Len(a) = IF 1 <= i - 1 THEN (i - 1) - 1 + 1 ELSE 0
          /\ \A k \in 1..((i - 1) - 1 + 1) : a[k] = s[1 + k - 1]
      BY <1>1, <2>1, SubSeqProperties
    <2> HIDE DEF a
    <2>3. QED
      BY <1>1, <2>2
  <1>3. /\ b \in Seq(S) /\ Len(b) = Len(s) - i /\ \A k \in 1..(Len(s) - i) : b[k] = s[i + k]
    <2>1. \A k \in (i + 1)..Len(s) : s[k] \in S
      BY <1>1
    <2>2. /\ b \in Seq(S) /\ Len(b) = IF i + 1 <= Len(s) THEN Len(s) - (i + 1) + 1 ELSE 0
          /\ \A k \in 1..(Len(s) - (i + 1) + 1) : b[k] = s[(i + 1) + k - 1]
      BY <1>1, <2>1, SubSeqProperties
    <2> HIDE DEF b
    <2>3. \A k \in 1..(Len(s) - i) : (i + 1) + k - 1 = i + k /\ k \in 1..(Len(s) - (i + 1) + 1)
      BY <1>1
    <2>4. QED
      BY <1>1, <2>2, <2>3
  <1> HIDE DEF a, b
  <1>4. /\ a \o b \in Seq(S) /\ Len(a \o b) = Len(a) + Len(b)
        /\ \A k \in 1..(Len(a) + Len(b)) : (a \o b)[k] = IF k <= Len(a) THEN a[k] ELSE b[k - Len(a)]
    BY <1>2, <1>3, ConcatProperties
  <1>5. RemoveAt(s, i) = a \o b
    BY DEF RemoveAt, a, b
  <1>6. ASSUME NEW j \in 1..(Len(s) - 1)
        PROVE  (j < i => (a \o b)[j] = s[j]) /\ (j >= i => (a \o b)[j] = s[j + 1])
    <2>1. CASE j < i
      BY <1>1, <1>2, <1>3, <1>4, <2>1
    <2>2. CASE j >= i
      <3>1. (a \o b)[j] = b[j - (i - 1)]
        BY <1>1, <1>2, <1>3, <1>4, <2>2
      <3>2. j - (i - 1) \in 1..(Len(s) - i) /\ i + (j - (i - 1)) = j + 1
        BY <1>1, <2>2
      <3>3. b[j - (i - 1)] = s[i + (j - (i - 1))]
        BY <1>3, <3>2
      <3>4. (a \o b)[j] = s[j + 1]
        BY <3>1, <3>2, <3>3
      <3>5. QED
        BY <1>1, <2>2, <3>4
    <2>3. QED
      BY <1>1, <2>1, <2>2
  <1>7. Len(a) + Len(b) = Len(s) - 1
    BY <1>1, <1>2, <1>3
  <1>8. RemoveAt(s, i) \in Seq(S) /\ Len(RemoveAt(s, i)) = Len(s) - 1
    BY <1>4, <1>5, <1>7
  <1>9. QED
    BY <1>5, <1>6, <1>8

-----------------------------------------------------------------------------
(* The position's way to the page *)

\* What a request may know: an answer is no position or one with a stamp, and who reads a
\* position without one has read nothing.
Told == {q \in Request : /\ q.at = "half" /\ q.got.x # 0 => position.stamp > 0
                         /\ q.at = "answered" => q.got = NoPosition \/ q.got.stamp > 0}

\* Only handlers that had no position work where there is none, and alone they go forward.
HandlersRight ==
  /\ \A h \in handlers : h.at # "first" => position.stamp > 0
  /\ ~overlapped => /\ \A h \in handlers : h.reading > position.stamp
                    /\ \A h, g \in handlers : h = g

FeedInv ==
  /\ FeedTypeOK /\ HandlersRight /\ requests \in Seq(Told)
  /\ position.stamp = 0 => position.x = 0
  /\ shown.stamp <= lastDataTimestamp

LEMMA NoPositionTyped == NoPosition \in Position
  BY FeedAssumption DEF NoPosition, Position

LEMMA FeedInits == FeedInit => FeedInv
  <1> SUFFICES ASSUME FeedInit PROVE FeedInv
    OBVIOUS
  <1>1. 0 \in 0..MaxReadings /\ 0 \in 0..MaxRestarts /\ 0 \in 0..MaxFailures /\ MaxInFlight \in Nat
    BY FeedAssumption
  <1>2. << >> \in Seq(Request) /\ << >> \in Seq(Told) /\ Len(<< >>) = 0
    BY EmptySeq
  <1>3. NoPosition.stamp = 0 /\ NoPosition.x = 0
    BY DEF NoPosition
  <1>4. FeedTypeOK
    <2>1. requests \in Seq(Request) /\ Len(requests) <= MaxInFlight
      BY <1>1, <1>2 DEF FeedInit
    <2>2. QED
      BY <1>1, <2>1, NoPositionTyped DEF FeedInit, FeedTypeOK
  <1>5. QED
    BY <1>2, <1>3, <1>4 DEF FeedInit, FeedInv, HandlersRight

\* What a request was told stays right while the position's stamp does not go to 0.
LEMMA ToldStays ==
  ASSUME NEW s \in Seq(Told), position.stamp > 0 => position'.stamp > 0
  PROVE  s \in Seq(Told') /\ s \in Seq(Request)
  <1>1. Told \subseteq Told' /\ Told \subseteq Request
    BY DEF Told, Request
  <1>2. QED
    BY <1>1, SeqMonotonic

LEMMA FeedFacts ==
  ASSUME FeedInv
  PROVE  /\ position.x \in 0..MaxReadings /\ position.stamp \in 0..MaxReadings
         /\ position = [x |-> position.x, stamp |-> position.stamp]
         /\ shown.stamp \in 0..MaxReadings /\ MaxReadings \in Nat
         /\ requests \in Seq(Request) /\ DOMAIN requests = 1..Len(requests) /\ Len(requests) \in Nat
         /\ \A i \in DOMAIN requests : requests[i] \in Told /\ requests[i] \in Request
         /\ Told \subseteq Request
  <1>1. position \in Position /\ shown \in Position
    BY DEF FeedInv, FeedTypeOK
  <1>2. requests \in Seq(Told) /\ requests \in Seq(Request)
    BY DEF FeedInv, FeedTypeOK
  <1>3. \A i \in 1..Len(requests) : requests[i] \in Told /\ requests[i] \in Request
    BY <1>2, ElementOfSeq
  <1>4. QED
    BY <1>1, <1>2, <1>3, LenProperties, FeedAssumption DEF Position, Told

\* A step of the server that leaves the requests alone.
LEMMA ServerSteps ==
  ASSUME FeedInv, UNCHANGED <<requests, shown, lastDataTimestamp>>,
         position.stamp > 0 => position'.stamp > 0, HandlersRight',
         measured' \in 0..MaxReadings, posts' \subseteq Readings,
         handlers' \subseteq [reading : Readings, at : {"first", "checked", "half"}],
         position' \in Position, overlapped' \in BOOLEAN,
         restarts' \in 0..MaxRestarts, failures' \in 0..MaxFailures,
         position'.stamp = 0 => position'.x = 0
  PROVE  FeedInv'
  <1>1. requests \in Seq(Told')
    BY ToldStays DEF FeedInv
  <1>2. requests' \in Seq(Told')
    BY <1>1
  <1>3. QED
    BY <1>2 DEF FeedInv, FeedTypeOK

LEMMA Measures == ASSUME FeedInv, Measure PROVE FeedInv' /\ position' = position
  <1>1. UNCHANGED <<handlers, position, overlapped, requests, shown, lastDataTimestamp, restarts, failures>>
    BY DEF Measure
  <1>2. measured' \in 0..MaxReadings /\ posts' \subseteq Readings
    BY FeedAssumption DEF Measure, FeedInv, FeedTypeOK, Readings
  <1>3. HandlersRight'
    BY <1>1 DEF HandlersRight, FeedInv
  <1>4. FeedInv'
    BY <1>1, <1>2, <1>3, ServerSteps DEF FeedInv, FeedTypeOK
  <1>5. QED
    BY <1>1, <1>4

LEMMA TakesPost ==
  ASSUME FeedInv, NEW r \in posts, TakePost(r)
  PROVE  FeedInv' /\ position' = position
  <1> DEFINE new == [reading |-> r, at |-> IF position = NoPosition THEN "first" ELSE "checked"]
  <1>1. UNCHANGED <<measured, position, requests, shown, lastDataTimestamp, restarts, failures>>
    BY DEF TakePost
  <1>2. r \in Readings /\ posts' \subseteq Readings
    BY DEF TakePost, FeedInv, FeedTypeOK
  <1>3. /\ Newer(r) => handlers' = handlers \cup {new} /\ (~overlapped' => ~overlapped /\ handlers = {})
        /\ ~Newer(r) => handlers' = handlers /\ overlapped' = overlapped
        /\ overlapped' \in BOOLEAN
    BY DEF TakePost, FeedInv, FeedTypeOK
  <1>4. new \in [reading : Readings, at : {"first", "checked", "half"}] /\ new.reading = r
    BY <1>2
  <1>5. new.at # "first" => position.stamp > 0
    <2>1. SUFFICES ASSUME position # NoPosition PROVE position.stamp > 0
      OBVIOUS
    <2>2. position.stamp # 0
      BY <2>1, FeedFacts DEF FeedInv, NoPosition
    <2>3. QED
      BY <2>2, FeedFacts
  <1> HIDE DEF new
  <1>6. HandlersRight'
    <2>1. CASE Newer(r)
      <3>1. \A h \in handlers' : h.at # "first" => position'.stamp > 0
        BY <1>1, <1>3, <1>5, <2>1 DEF HandlersRight, FeedInv
      <3>2. ~overlapped' => handlers' = {new} /\ new.reading > position'.stamp
        BY <1>1, <1>3, <1>4, <2>1 DEF Newer
      <3>3. QED
        BY <3>1, <3>2 DEF HandlersRight
    <2>2. CASE ~Newer(r)
      BY <1>1, <1>3, <2>2 DEF HandlersRight, FeedInv
    <2>3. QED
      BY <2>1, <2>2
  <1>7. handlers' \subseteq [reading : Readings, at : {"first", "checked", "half"}]
    BY <1>3, <1>4 DEF FeedInv, FeedTypeOK
  <1>8. FeedInv'
    BY <1>1, <1>2, <1>3, <1>6, <1>7, ServerSteps DEF FeedInv, FeedTypeOK
  <1>9. QED
    BY <1>1, <1>8

LEMMA Fills ==
  ASSUME FeedInv, NEW h \in handlers, FillFirst(h) \/ FillCoordinates(h) \/ FillStamp(h)
  PROVE  FeedInv' /\ (overlapped' \/ position'.stamp >= position.stamp)
  <1>1. UNCHANGED <<measured, posts, overlapped, requests, shown, lastDataTimestamp, restarts, failures>>
    BY DEF FillFirst, FillCoordinates, FillStamp
  <1>2. h.reading \in Readings /\ h.reading \in 1..MaxReadings
    BY DEF FeedInv, FeedTypeOK, Readings
  <1>3. ~overlapped => handlers = {h} /\ h.reading > position.stamp
    BY DEF FeedInv, HandlersRight
  <1>4. CASE FillFirst(h)
    <2>1. position' = [x |-> h.reading, stamp |-> h.reading] /\ handlers' \subseteq handlers \ {h}
          /\ \A g \in handlers' : g.at = "first"
      BY <1>4 DEF FillFirst
    <2>2. position' \in Position /\ position'.stamp > 0 /\ position'.stamp = h.reading
      BY <1>2, <2>1, FeedAssumption DEF Position
    <2>3. HandlersRight'
      BY <1>1, <1>3, <2>1, <2>2 DEF HandlersRight
    <2>4. FeedInv'
      BY <1>1, <2>1, <2>2, <2>3, ServerSteps DEF FeedInv, FeedTypeOK
    <2>5. QED
      BY <1>1, <1>2, <1>3, <2>2, <2>4, FeedFacts
  <1>5. CASE FillCoordinates(h)
    <2> DEFINE g == [h EXCEPT !.at = "half"]
    <2>1. h.at = "checked" /\ position' = [position EXCEPT !.x = h.reading] /\ handlers' = (handlers \ {h}) \cup {g}
      BY <1>5 DEF FillCoordinates
    <2>2. position.stamp > 0
      BY <2>1 DEF FeedInv, HandlersRight
    <2>3. position' \in Position /\ position'.stamp = position.stamp
      <3>1. h.reading \in 0..MaxReadings
        BY <1>2, FeedAssumption
      <3>2. [position EXCEPT !.x = h.reading] = [x |-> h.reading, stamp |-> position.stamp]
        BY FeedFacts
      <3>3. QED
        BY <2>1, <3>1, <3>2, FeedFacts DEF Position
    <2>4. g \in [reading : Readings, at : {"first", "checked", "half"}] /\ g.reading = h.reading
      BY DEF FeedInv, FeedTypeOK
    <2> HIDE DEF g
    <2>5. HandlersRight'
      <3>1. \A k \in handlers' : k.at # "first" => position'.stamp > 0
        BY <2>2, <2>3
      <3>2. ~overlapped' => handlers' = {g} /\ g.reading > position'.stamp
        BY <1>1, <1>3, <2>1, <2>3, <2>4
      <3>3. QED
        BY <3>1, <3>2 DEF HandlersRight
    <2>6. handlers' \subseteq [reading : Readings, at : {"first", "checked", "half"}]
      BY <2>1, <2>4 DEF FeedInv, FeedTypeOK
    <2>7. FeedInv'
      BY <1>1, <2>2, <2>3, <2>5, <2>6, ServerSteps DEF FeedInv, FeedTypeOK
    <2>8. QED
      BY <2>2, <2>3, <2>7, FeedFacts
  <1>6. CASE FillStamp(h)
    <2>1. position' = [position EXCEPT !.stamp = h.reading] /\ handlers' = handlers \ {h}
      BY <1>6 DEF FillStamp
    <2>2. position' \in Position /\ position'.stamp = h.reading /\ position'.stamp > 0
      BY <1>2, <2>1, FeedAssumption DEF FeedInv, FeedTypeOK, Position
    <2>3. HandlersRight'
      BY <1>1, <1>3, <2>1, <2>2 DEF HandlersRight
    <2>4. FeedInv'
      BY <1>1, <2>1, <2>2, <2>3, ServerSteps DEF FeedInv, FeedTypeOK
    <2>5. QED
      BY <1>1, <1>2, <1>3, <2>2, <2>4, FeedFacts
  <1>7. QED
    BY <1>4, <1>5, <1>6

LEMMA Restarts ==
  ASSUME FeedInv, Restart
  PROVE  FeedInv'
  <1>1. /\ position' = NoPosition /\ posts' = {} /\ handlers' = {} /\ restarts' \in 0..MaxRestarts
        /\ requests' = [i \in DOMAIN requests |-> Cut(requests[i])]
        /\ UNCHANGED <<measured, overlapped, shown, lastDataTimestamp, failures>>
    BY FeedAssumption DEF Restart, FeedInv, FeedTypeOK
  <1>2. ASSUME NEW q \in Told
        PROVE  Cut(q) \in Request /\ Cut(q) \in Told'
    <2>1. q \in Request /\ (q.at = "answered" => q.got = NoPosition \/ q.got.stamp > 0)
      BY DEF Told
    <2>2. CASE q.at = "answered"
      BY <2>1, <2>2 DEF Cut, Told
    <2>3. CASE q.at # "answered"
      <3>1. Cut(q) = [q EXCEPT !.at = "failed", !.got = NoPosition]
        BY <2>3 DEF Cut
      <3>2. Cut(q) \in Request /\ Cut(q).at = "failed"
        BY <2>1, <3>1, NoPositionTyped DEF Request
      <3>3. QED
        BY <3>2 DEF Told
    <2>4. QED
      BY <2>2, <2>3
  <1>3. requests' \in [1..Len(requests) -> Told'] /\ requests' \in [1..Len(requests) -> Request]
    BY <1>1, <1>2, FeedFacts
  <1>4. requests' \in Seq(Told') /\ requests' \in Seq(Request) /\ Len(requests') = Len(requests)
    BY <1>3, FunctionIsSeq, FeedFacts
  <1>5. HandlersRight'
    BY <1>1 DEF HandlersRight
  <1>6. position'.x = 0 /\ position' \in Position
    BY <1>1, NoPositionTyped DEF NoPosition
  <1>7. QED
    BY <1>1, <1>4, <1>5, <1>6 DEF FeedInv, FeedTypeOK

\* A step of the page, or of the server answering it.
LEMMA PageFeeds ==
  ASSUME FeedInv, UNCHANGED <<measured, posts, handlers, position, overlapped, restarts>>,
         requests' \in Seq(Told), Len(requests') <= MaxInFlight, shown' \in Position,
         lastDataTimestamp' \in 0..MaxReadings, failures' \in 0..MaxFailures,
         shown'.stamp <= lastDataTimestamp'
  PROVE  FeedInv'
  <1>1. requests' \in Seq(Told') /\ requests' \in Seq(Request)
    BY ToldStays
  <1>2. HandlersRight'
    BY DEF FeedInv, HandlersRight
  <1>3. QED
    BY <1>1, <1>2 DEF FeedInv, FeedTypeOK

LEMMA SendsPoll == ASSUME FeedInv, Poll PROVE FeedInv'
  <1> DEFINE q == [at |-> "sent", later |-> TRUE, got |-> NoPosition]
  <1>1. /\ requests' = Append(requests, q) /\ Len(requests) < MaxInFlight
        /\ UNCHANGED <<measured, posts, handlers, position, overlapped, shown, lastDataTimestamp, restarts, failures>>
    BY DEF Poll
  <1>2. q \in Told
    BY NoPositionTyped DEF Told, Request
  <1> HIDE DEF q
  <1>3. requests' \in Seq(Told) /\ Len(requests') = Len(requests) + 1
    BY <1>1, <1>2, AppendProperties DEF FeedInv
  <1>4. Len(requests') <= MaxInFlight
    BY <1>1, <1>3, FeedFacts, FeedAssumption
  <1>5. QED
    BY <1>1, <1>3, <1>4, PageFeeds DEF FeedInv, FeedTypeOK

LEMMA Answers ==
  ASSUME FeedInv, NEW i \in DOMAIN requests, ReadCoordinates(i) \/ ReadStamp(i)
  PROVE  FeedInv'
  <1> DEFINE q == requests[i]
  <1>1. UNCHANGED <<measured, posts, handlers, position, overlapped, shown, lastDataTimestamp, restarts, failures>>
    BY DEF ReadCoordinates, ReadStamp
  <1>2. i \in 1..Len(requests) /\ q \in Told /\ q \in Request /\ q.got \in Position
    BY FeedFacts DEF Request
  <1>3. ASSUME NEW new \in Told, requests' = [requests EXCEPT ![i] = new]
        PROVE  FeedInv'
    <2>1. requests' \in Seq(Told) /\ Len(requests') = Len(requests)
      BY <1>2, <1>3, ExceptSeq DEF FeedInv
    <2>2. QED
      BY <1>1, <2>1, PageFeeds DEF FeedInv, FeedTypeOK
  <1>4. CASE ReadCoordinates(i)
    <2> DEFINE got == [q.got EXCEPT !.x = position.x]
               new == [q EXCEPT !.at = "half", !.got = got]
    <2>1. requests' = [requests EXCEPT ![i] = new]
      BY <1>4 DEF ReadCoordinates
    <2>2. got \in Position /\ got.x = position.x
      BY <1>2, FeedFacts DEF Position
    <2> HIDE DEF got
    <2>3. new \in Request /\ new.at = "half" /\ new.got = got
      BY <1>2, <2>2 DEF Request
    <2> HIDE DEF new
    <2>4. new.got.x # 0 => position.stamp > 0
      BY <2>2, <2>3, FeedFacts DEF FeedInv
    <2>5. new \in Told
      BY <2>3, <2>4 DEF Told
    <2>6. QED
      BY <1>3, <2>1, <2>5
  <1>5. CASE ReadStamp(i)
    <2> DEFINE got == IF q.got.x = 0 THEN NoPosition ELSE [q.got EXCEPT !.stamp = position.stamp]
               new == [q EXCEPT !.at = "answered", !.got = got]
    <2>1. q.at = "half" /\ requests' = [requests EXCEPT ![i] = new]
      BY <1>5 DEF ReadStamp
    <2>2. got \in Position /\ (got = NoPosition \/ got.stamp > 0)
      <3>1. CASE q.got.x = 0
        BY <3>1, NoPositionTyped
      <3>2. CASE q.got.x # 0
        <4>1. position.stamp > 0
          BY <1>2, <2>1, <3>2 DEF Told
        <4>2. [q.got EXCEPT !.stamp = position.stamp] \in Position
              /\ [q.got EXCEPT !.stamp = position.stamp].stamp = position.stamp
          BY <1>2, FeedFacts DEF Position
        <4>3. QED
          BY <3>2, <4>1, <4>2
      <3>3. QED
        BY <3>1, <3>2
    <2> HIDE DEF got
    <2>3. new \in Request /\ new.at = "answered" /\ new.got = got
      BY <1>2, <2>2 DEF Request
    <2> HIDE DEF new
    <2>4. new \in Told
      BY <2>2, <2>3 DEF Told
    <2>5. QED
      BY <1>3, <2>1, <2>4
  <1>6. QED
    BY <1>4, <1>5

LEMMA Receives ==
  ASSUME FeedInv, NEW i \in DOMAIN requests, Receive(i)
  PROVE  FeedInv' /\ (shown'.stamp >= shown.stamp \/ shown' = NoPosition)
  <1> DEFINE q == requests[i]
             other(j) == IF Accepts(q) THEN [requests[j] EXCEPT !.later = j > i] ELSE requests[j]
             others == [j \in DOMAIN requests |-> other(j)]
  <1>1. /\ q.at = "answered" /\ requests' = RemoveAt(others, i)
        /\ shown' = IF Accepts(q) THEN q.got ELSE shown
        /\ lastDataTimestamp' = IF Accepts(q) /\ q.got.stamp > 0 THEN q.got.stamp ELSE lastDataTimestamp
        /\ UNCHANGED <<measured, posts, handlers, position, overlapped, restarts, failures>>
    BY DEF Receive, Without
  <1>2. i \in 1..Len(requests) /\ q \in Told /\ q \in Request /\ q.got \in Position
    BY FeedFacts DEF Request
  <1>3. q.got = NoPosition \/ q.got.stamp > 0
    BY <1>1, <1>2 DEF Told
  <1>4. \A j \in DOMAIN requests : other(j) \in Told
    <2> SUFFICES ASSUME NEW j \in DOMAIN requests PROVE other(j) \in Told
      OBVIOUS
    <2> DEFINE r == requests[j]
               new == [r EXCEPT !.later = j > i]
    <2>1. r \in Told /\ r \in Request /\ j \in Int /\ i \in Int
      BY FeedFacts
    <2>2. (j > i) \in BOOLEAN
      BY <2>1
    <2> HIDE DEF r
    <2>3. new \in Request /\ new.at = r.at /\ new.got = r.got
      BY <2>1, <2>2 DEF Request
    <2> HIDE DEF new
    <2>4. new \in Told
      BY <2>1, <2>3 DEF Told
    <2>5. QED
      BY <2>1, <2>4 DEF r, new
  <1>5. others \in [1..Len(requests) -> Told]
    BY <1>4, FeedFacts
  <1>6. others \in Seq(Told) /\ Len(others) = Len(requests)
    BY <1>5, FunctionIsSeq, FeedFacts
  <1> HIDE DEF others
  <1>7. requests' \in Seq(Told) /\ Len(requests') = Len(requests) - 1
    BY <1>1, <1>2, <1>6, RemovedAt
  <1>8. Len(requests') <= MaxInFlight
    BY <1>7, FeedFacts, FeedAssumption DEF FeedInv, FeedTypeOK
  <1>9. /\ q.got.stamp \in 0..MaxReadings /\ lastDataTimestamp \in 0..MaxReadings
        /\ shown.stamp \in 0..MaxReadings /\ shown.stamp <= lastDataTimestamp /\ MaxReadings \in Nat
    BY <1>2, FeedAssumption DEF FeedInv, FeedTypeOK, Position
  <1> HIDE DEF q
  <1>10. /\ shown' \in Position /\ lastDataTimestamp' \in 0..MaxReadings
         /\ shown'.stamp <= lastDataTimestamp'
         /\ shown'.stamp >= shown.stamp \/ shown' = NoPosition
    <2>1. CASE Accepts(q)
      <3>1. q.got.stamp >= lastDataTimestamp \/ q.got.stamp = 0
        BY <1>9, <2>1 DEF Accepts
      <3>2. QED
        BY <1>1, <1>2, <1>3, <1>9, <2>1, <3>1
    <2>2. CASE ~Accepts(q)
      BY <1>1, <1>9, <2>2 DEF FeedInv, FeedTypeOK
    <2>3. QED
      BY <2>1, <2>2
  <1>11. FeedInv'
    BY <1>1, <1>7, <1>8, <1>10, PageFeeds DEF FeedInv, FeedTypeOK
  <1>12. QED
    BY <1>10, <1>11

LEMMA RequestFailing ==
  ASSUME FeedInv, NEW i \in DOMAIN requests, RequestFails(i)
  PROVE  FeedInv'
  <1>1. /\ requests' = RemoveAt(requests, i) /\ failures' \in 0..MaxFailures
        /\ UNCHANGED <<measured, posts, handlers, position, overlapped, shown, lastDataTimestamp, restarts>>
    BY FeedAssumption DEF RequestFails, FeedInv, FeedTypeOK
  <1>2. i \in 1..Len(requests) /\ requests \in Seq(Told)
    BY FeedFacts DEF FeedInv
  <1>3. requests' \in Seq(Told) /\ Len(requests') = Len(requests) - 1
    BY <1>1, <1>2, RemovedAt
  <1>4. Len(requests') <= MaxInFlight
    BY <1>3, FeedFacts, FeedAssumption DEF FeedInv, FeedTypeOK
  <1>5. QED
    BY <1>1, <1>3, <1>4, PageFeeds DEF FeedInv, FeedTypeOK

LEMMA FeedSteps ==
  ASSUME FeedInv, [FeedNext]_feed
  PROVE  /\ FeedInv' /\ (shown'.stamp >= shown.stamp \/ shown' = NoPosition)
         /\ overlapped' \/ position'.stamp >= position.stamp \/ restarts' # restarts
  <1> DEFINE Goal == /\ FeedInv' /\ (shown'.stamp >= shown.stamp \/ shown' = NoPosition)
                     /\ overlapped' \/ position'.stamp >= position.stamp \/ restarts' # restarts
  <1>0. position.stamp >= position.stamp /\ shown.stamp >= shown.stamp
    BY FeedFacts
  <1>1. CASE Measure
    BY <1>0, <1>1, Measures DEF Measure
  <1>2. CASE Restart
    <2>1. restarts' # restarts /\ shown' = shown
      BY <1>2 DEF Restart, FeedInv, FeedTypeOK
    <2>2. QED
      BY <1>0, <1>2, <2>1, Restarts
  <1>3. CASE Poll
    BY <1>0, <1>3, SendsPoll DEF Poll
  <1>4. ASSUME NEW r \in posts, TakePost(r) PROVE Goal
    BY <1>0, <1>4, TakesPost DEF TakePost
  <1>5. ASSUME NEW h \in handlers, FillFirst(h) \/ FillCoordinates(h) \/ FillStamp(h) PROVE Goal
    <2>1. shown' = shown
      BY <1>5 DEF FillFirst, FillCoordinates, FillStamp
    <2>2. QED
      BY <1>0, <1>5, <2>1, Fills
  <1>6. ASSUME NEW i \in DOMAIN requests, ReadCoordinates(i) \/ ReadStamp(i) PROVE Goal
    <2>1. UNCHANGED <<shown, position>>
      BY <1>6 DEF ReadCoordinates, ReadStamp
    <2>2. QED
      BY <1>0, <1>6, <2>1, Answers
  <1>7. ASSUME NEW i \in DOMAIN requests, Receive(i) PROVE Goal
    <2>1. UNCHANGED position
      BY <1>7 DEF Receive
    <2>2. QED
      BY <1>0, <1>7, <2>1, Receives
  <1>8. ASSUME NEW i \in DOMAIN requests, RequestFails(i) PROVE Goal
    <2>1. UNCHANGED <<shown, position>>
      BY <1>8 DEF RequestFails
    <2>2. QED
      BY <1>0, <1>8, <2>1, RequestFailing
  <1>9. CASE UNCHANGED feed
    <2>1. UNCHANGED <<shown, position>>
      BY <1>9 DEF feed
    <2>2. FeedInv'
      BY <1>9 DEF feed, FeedInv, FeedTypeOK, HandlersRight, Told
    <2>3. QED
      BY <1>0, <2>1, <2>2
  <1>10. QED
    BY <1>1, <1>2, <1>3, <1>4, <1>5, <1>6, <1>7, <1>8, <1>9 DEF FeedNext

\* As long as handlers do not overlap: the coordinates are those of the stamp, or of the
\* reading that is being filled in.
Filled ==
  ~overlapped => /\ \A h \in handlers : h.at = "half" => position.x = h.reading
                 /\ (\A h \in handlers : h.at # "half") => position.x = position.stamp

LEMMA FilledStarts == FeedInit => Filled
  BY DEF FeedInit, Filled, NoPosition

LEMMA FilledStays ==
  ASSUME FeedInv, Filled, [FeedNext]_feed
  PROVE  Filled' /\ (overlapped' \/ restarts' # restarts \/ position'.x >= position.x)
  <1> DEFINE Goal == Filled' /\ (overlapped' \/ restarts' # restarts \/ position'.x >= position.x)
  <1>0. position.x \in Nat /\ position.stamp \in Nat
    BY FeedFacts
  <1>1. ASSUME UNCHANGED <<handlers, position, overlapped>> PROVE Goal
    BY <1>0, <1>1 DEF Filled
  <1>2. CASE Restart
    <2>1. restarts' # restarts /\ handlers' = {} /\ position' = NoPosition
      BY <1>2 DEF Restart, FeedInv, FeedTypeOK
    <2>2. QED
      BY <2>1 DEF Filled, NoPosition
  <1>3. ASSUME NEW r \in posts, TakePost(r) PROVE Goal
    <2> DEFINE new == [reading |-> r, at |-> IF position = NoPosition THEN "first" ELSE "checked"]
    <2>1. /\ position' = position
          /\ Newer(r) => handlers' = handlers \cup {new} /\ (~overlapped' => ~overlapped /\ handlers = {})
          /\ ~Newer(r) => handlers' = handlers /\ (overlapped' <=> overlapped)
      BY <1>3 DEF TakePost
    <2>2. new.at # "half"
      OBVIOUS
    <2> HIDE DEF new
    <2>3. CASE Newer(r)
      BY <1>0, <2>1, <2>2, <2>3 DEF Filled
    <2>4. CASE ~Newer(r)
      BY <1>0, <2>1, <2>4 DEF Filled
    <2>5. QED
      BY <2>3, <2>4
  <1>4. ASSUME NEW h \in handlers, FillFirst(h) \/ FillCoordinates(h) \/ FillStamp(h) PROVE Goal
    <2>1. overlapped' = overlapped /\ h.reading \in Nat
      BY <1>4 DEF FillFirst, FillCoordinates, FillStamp, FeedInv, FeedTypeOK, Readings
    <2>2. SUFFICES ASSUME ~overlapped PROVE Goal
      BY <2>1 DEF Filled
    <2>3. handlers = {h} /\ h.reading > position.stamp
      BY <2>2 DEF FeedInv, HandlersRight
    <2>4. /\ h.at = "half" => position.x = h.reading
          /\ h.at # "half" => position.x = position.stamp
      BY <2>2, <2>3 DEF Filled
    <2>5. CASE FillFirst(h)
      <3>1. handlers' = {} /\ position'.x = h.reading /\ position'.stamp = h.reading /\ h.at = "first"
        BY <2>3, <2>5 DEF FillFirst
      <3>2. QED
        BY <1>0, <2>1, <2>3, <2>4, <3>1 DEF Filled
    <2>6. CASE FillCoordinates(h)
      <3> DEFINE g == [h EXCEPT !.at = "half"]
      <3>1. h.at = "checked" /\ handlers' = {g} /\ position' = [position EXCEPT !.x = h.reading]
        BY <2>3, <2>6 DEF FillCoordinates
      <3>2. position'.x = h.reading
        BY <3>1, FeedFacts
      <3>3. g.at = "half" /\ g.reading = h.reading
        BY DEF FeedInv, FeedTypeOK
      <3> HIDE DEF g
      <3>4. QED
        BY <1>0, <2>1, <2>3, <2>4, <3>1, <3>2, <3>3 DEF Filled
    <2>7. CASE FillStamp(h)
      <3>1. h.at = "half" /\ handlers' = {} /\ position' = [position EXCEPT !.stamp = h.reading]
        BY <2>3, <2>7 DEF FillStamp
      <3>2. position'.x = position.x /\ position'.stamp = h.reading
        BY <3>1, FeedFacts
      <3>3. QED
        BY <1>0, <2>4, <3>1, <3>2 DEF Filled
    <2>8. QED
      BY <1>4, <2>5, <2>6, <2>7
  <1>5. CASE UNCHANGED feed
    BY <1>1, <1>5 DEF feed
  <1>6. QED
    BY <1>1, <1>2, <1>3, <1>4, <1>5
    DEF FeedNext, Measure, Poll, ReadCoordinates, ReadStamp, Receive, RequestFails

\* The stamps decide for the coordinates, too, where these are those of the stamps.
LEMMA WholeGoesForward ==
  ASSUME shown' = NoPosition \/ shown'.stamp >= shown.stamp
  PROVE  shown' = NoPosition \/ /\ shown'.stamp >= shown.stamp
                                /\ Whole(shown) /\ Whole(shown') => shown'.x >= shown.x
  BY DEF Whole

\* For any number of readings, requests, failures and restarts: the stamp of the position
\* the page has never falls, unless it is taken away; its coordinates go back only with torn
\* answers; the server's coordinates and stamp go back only with a restart or after two
\* handlers overlapped (StampsShownGrow, ServerGoesForward).
THEOREM FeedKeepsOrder == FeedSpec => StampsShownGrow /\ ServerGoesForward
  <1> DEFINE Inv == FeedInv /\ Filled
  <1>1. FeedInit => Inv
    BY FeedInits, FilledStarts
  <1>2. Inv /\ [FeedNext]_feed => Inv'
    BY FeedSteps, FilledStays
  <1>3. Inv /\ [FeedNext]_feed =>
          [shown' = NoPosition \/ /\ shown'.stamp >= shown.stamp
                                  /\ Whole(shown) /\ Whole(shown') => shown'.x >= shown.x]_feed
    BY FeedSteps, WholeGoesForward
  <1>4. Inv /\ [FeedNext]_feed =>
          [overlapped' \/ restarts' # restarts
             \/ (position'.stamp >= position.stamp /\ position'.x >= position.x)]_feed
    BY FeedSteps, FilledStays
  <1>5. QED
    BY <1>1, <1>2, <1>3, <1>4, PTL DEF FeedSpec, StampsShownGrow, ServerGoesForward

-----------------------------------------------------------------------------
(* The messages *)

\* The places on the list are the offsets; a shared id disturbs all who share it; who is
\* not disturbed is where it believes to be, and slides in only as the newest.
Apart(list, made) ==
  /\ \A i \in 1..Len(list) : list[i].offset = Len(list) - i /\ list[i].id \in 1..made
  /\ \A i, j \in 1..Len(list) : i # j /\ list[i].id = list[j].id => list[i].disturbed
  /\ \A i \in 1..Len(list) : ~list[i].disturbed =>
       /\ list[i].y = Len(list) - i
       /\ list[i].phase = "sliding" => i = Len(list)

ToastsInv == ToastsTypeOK /\ Apart(activeToasts, toastsMade)

LEMMA RankTyped ==
  ASSUME NEW n \in Nat, NEW listed, listed \subseteq 1..n, NEW i
  PROVE  Rank(listed, i) \in 0..n
  <1> DEFINE above == {j \in listed : j > i}
  <1>1. above \subseteq 1..n
    OBVIOUS
  <1>2. IsFiniteSet(1..n) /\ Cardinality(1..n) = n
    BY FS_Interval
  <1> HIDE DEF above
  <1>3. IsFiniteSet(above) /\ Cardinality(above) <= n
    BY <1>1, <1>2, FS_Subset
  <1>4. Cardinality(above) \in Nat
    BY <1>3, FS_CardinalityType
  <1>5. QED
    BY <1>3, <1>4 DEF Rank, above

LEMMA RankOfAll ==
  ASSUME NEW n \in Nat, NEW i \in 1..n
  PROVE  Rank(1..n, i) = n - i
  <1>1. {j \in 1..n : j > i} = (i + 1)..n
    OBVIOUS
  <1>2. Cardinality((i + 1)..n) = n - i
    BY FS_Interval
  <1>3. QED
    BY <1>1, <1>2 DEF Rank

LEMMA RankOfOthers ==
  ASSUME NEW n \in Nat, NEW k \in 1..n, NEW i \in 1..n, i # k
  PROVE  Rank((1..n) \ {k}, i) = IF i < k THEN n - i - 1 ELSE n - i
  <1>1. IsFiniteSet((i + 1)..n) /\ Cardinality((i + 1)..n) = n - i
    BY FS_Interval
  <1>2. {j \in (1..n) \ {k} : j > i} = ((i + 1)..n) \ {k}
    OBVIOUS
  <1>3. Cardinality(((i + 1)..n) \ {k}) = IF k \in (i + 1)..n THEN (n - i) - 1 ELSE n - i
    BY <1>1, FS_RemoveElement
  <1>4. QED
    BY <1>2, <1>3 DEF Rank

LEMMA MinOfOne == ASSUME NEW i \in Nat PROVE Min({i}) = i
  BY DEF Min

\* What updatePositions does: a toast of the list has its rank as offset, and if it shares
\* its id with no other its element is there.
LEMMA ArrangedToasts ==
  ASSUME NEW n \in Nat, n <= MaxToasts, NEW list \in Seq(Toast), Len(list) = n,
         NEW listed, listed \subseteq 1..n
  PROVE  LET arranged == Arranged(list, listed) IN
         /\ arranged \in Seq(Toast) /\ Len(arranged) = n
         /\ \A i \in 1..n :
              /\ arranged[i].id = list[i].id /\ arranged[i].phase = list[i].phase
              /\ arranged[i].disturbed = list[i].disturbed
              /\ i \in listed => arranged[i].offset = Rank(listed, i)
              /\ i \in listed /\ (\A j \in 1..n : j # i => list[j].id # list[i].id) =>
                   arranged[i].y = Rank(listed, i)
  <1> DEFINE Sharers(i) == {j \in listed : list[j].id = list[i].id}
             Placed(i) == [list[i] EXCEPT !.offset = IF i \in listed THEN Rank(listed, i) ELSE @]
             Final(i) == IF Sharers(i) # {} /\ ElementOf(list, list[i].id) = i
                           THEN [Placed(i) EXCEPT !.x = "in", !.y = Rank(listed, Min(Sharers(i)))]
                           ELSE Placed(i)
             arranged == Arranged(list, listed)
  <1>1. DOMAIN list = 1..n /\ \A i \in 1..n : list[i] \in Toast
    BY LenProperties, ElementOfSeq
  <1>2. arranged = [i \in 1..n |-> Final(i)]
    BY <1>1 DEF Arranged
  <1>3. ASSUME NEW i \in 1..n
        PROVE  /\ Final(i) \in Toast
               /\ Final(i).id = list[i].id /\ Final(i).phase = list[i].phase
               /\ Final(i).disturbed = list[i].disturbed
               /\ i \in listed => Final(i).offset = Rank(listed, i)
               /\ i \in listed /\ (\A j \in 1..n : j # i => list[j].id # list[i].id) =>
                    Final(i).y = Rank(listed, i)
    <2> DEFINE t == list[i]
               o == IF i \in listed THEN Rank(listed, i) ELSE t.offset
               y == Rank(listed, Min(Sharers(i)))
               p == [t EXCEPT !.offset = o]
               f == [p EXCEPT !.x = "in", !.y = y]
    <2>1. t \in Toast
      BY <1>1
    <2>2. Rank(listed, i) \in 0..MaxToasts /\ y \in 0..MaxToasts
      <3>1. Rank(listed, i) \in 0..n /\ y \in 0..n
        BY RankTyped
      <3>2. QED
        BY <3>1, ToastsAssumption
    <2>3. Placed(i) = p /\ Final(i) = IF Sharers(i) # {} /\ ElementOf(list, list[i].id) = i THEN f ELSE p
      OBVIOUS
    <2>4. i \in listed /\ (\A j \in 1..n : j # i => list[j].id # list[i].id) =>
            Sharers(i) = {i} /\ ElementOf(list, list[i].id) = i
      <3>1. SUFFICES ASSUME i \in listed, \A j \in 1..n : j # i => list[j].id # list[i].id
                     PROVE  Sharers(i) = {i} /\ ElementOf(list, list[i].id) = i
        OBVIOUS
      <3>2. {j \in DOMAIN list : list[j].id = list[i].id} = {i}
        BY <1>1, <3>1
      <3>3. Min({i}) = i
        BY MinOfOne
      <3>4. QED
        BY <3>1, <3>2, <3>3 DEF ElementOf
    <2>5. Sharers(i) = {i} => y = Rank(listed, i)
      <3> HIDE DEF Sharers
      <3>1. Min({i}) = i
        BY MinOfOne
      <3>2. QED
        BY <3>1
    <2>6. o \in 0..MaxToasts /\ (i \in listed => o = Rank(listed, i))
      BY <2>1, <2>2 DEF Toast
    <2> HIDE DEF t, o, y
    <2>7. /\ p \in Toast /\ p.id = t.id /\ p.phase = t.phase /\ p.disturbed = t.disturbed /\ p.offset = o
      BY <2>1, <2>6 DEF Toast
    <2> HIDE DEF p
    <2>8. /\ f \in Toast /\ f.id = p.id /\ f.phase = p.phase /\ f.disturbed = p.disturbed
          /\ f.offset = p.offset /\ f.y = y
      BY <2>2, <2>7 DEF Toast
    <2> HIDE DEF f, Final, Sharers
    <2>9. Final(i) = f \/ Final(i) = p
      BY <2>3
    <2>10. Sharers(i) = {i} /\ ElementOf(list, list[i].id) = i => Final(i) = f
      BY <2>3
    <2>11. QED
      BY <2>4, <2>5, <2>6, <2>7, <2>8, <2>9, <2>10 DEF t
  <1> HIDE DEF Final
  <1>4. arranged \in [1..n -> Toast]
    BY <1>2, <1>3
  <1>5. arranged \in Seq(Toast) /\ Len(arranged) = n
    BY <1>4, FunctionIsSeq
  <1>6. \A i \in 1..n : arranged[i] = Final(i)
    BY <1>2
  <1> HIDE DEF arranged
  <1>7. QED
    BY <1>3, <1>5, <1>6 DEF arranged

LEMMA ToastsInits == ToastsInit => ToastsInv
  <1> SUFFICES ASSUME ToastsInit PROVE ToastsInv
    OBVIOUS
  <1>1. activeToasts = << >> /\ toastsMade = 0 /\ Len(<< >>) = 0 /\ << >> \in Seq(Toast)
    BY EmptySeq DEF ToastsInit
  <1>2. ToastsTypeOK
    BY <1>1, ToastsAssumption DEF ToastsTypeOK
  <1>3. QED
    BY <1>1, <1>2 DEF ToastsInv, Apart

LEMMA ToastsFacts ==
  ASSUME ToastsInv
  PROVE  /\ activeToasts \in Seq(Toast) /\ Len(activeToasts) \in Nat /\ toastsMade \in Nat
         /\ Len(activeToasts) <= toastsMade /\ toastsMade <= MaxToasts /\ MaxToasts \in Nat
         /\ DOMAIN activeToasts = 1..Len(activeToasts)
         /\ \A i \in 1..Len(activeToasts) : activeToasts[i] \in Toast
  BY LenProperties, ElementOfSeq, ToastsAssumption DEF ToastsInv, ToastsTypeOK

\* One more toast: whoever slides in or shares its id is disturbed, and all find their places.
LEMMA ShowsToast == ASSUME ToastsInv, ShowToast PROVE ToastsInv'
  <1> DEFINE s == activeToasts
             n == Len(activeToasts)
             other(i) == [s[i] EXCEPT !.disturbed = @ \/ s[i].phase = "sliding"]
             others == [i \in DOMAIN s |-> other(i)]
  <1>1. PICK id \in {toastsMade + 1} \cup {s[i].id : i \in {j \in DOMAIN s : j = n /\ s[j].phase = "sliding"}} :
          activeToasts' = Arranged(Append(others, New(id)), DOMAIN Append(others, New(id)))
    BY DEF ShowToast
  <1>2. toastsMade < MaxToasts /\ toastsMade' = toastsMade + 1
    BY DEF ShowToast
  <1>3. /\ s \in Seq(Toast) /\ n \in Nat /\ toastsMade \in Nat /\ n <= toastsMade /\ MaxToasts \in Nat
        /\ DOMAIN s = 1..n /\ (\A i \in 1..n : s[i] \in Toast)
    BY ToastsFacts
  <1>4. /\ \A i \in 1..n : s[i].offset = n - i /\ s[i].id \in 1..toastsMade
        /\ \A i, j \in 1..n : i # j /\ s[i].id = s[j].id => s[i].disturbed
        /\ \A i \in 1..n : ~s[i].disturbed => s[i].y = n - i /\ (s[i].phase = "sliding" => i = n)
    BY DEF ToastsInv, Apart
  <1> HIDE DEF s, n
  <1>5. ASSUME NEW i \in 1..n
        PROVE  /\ other(i) \in Toast /\ other(i).id = s[i].id /\ other(i).phase = s[i].phase
               /\ other(i).disturbed <=> s[i].disturbed \/ s[i].phase = "sliding"
    <2>1. (s[i].disturbed \/ s[i].phase = "sliding") \in BOOLEAN
      BY <1>3 DEF Toast
    <2>2. QED
      BY <1>3, <2>1 DEF Toast
  <1> HIDE DEF other
  <1>6. others \in Seq(Toast) /\ Len(others) = n /\ \A i \in 1..n : others[i] = other(i)
    <2>1. others \in [1..n -> Toast] /\ \A i \in 1..n : others[i] = other(i)
      BY <1>3, <1>5
    <2> HIDE DEF others
    <2>2. QED
      BY <1>3, <2>1, FunctionIsSeq
  <1> HIDE DEF others
  <1>7. id \in 1..(toastsMade + 1)
    BY <1>1, <1>3, <1>4
  <1>8. \/ id = toastsMade + 1
        \/ n \in 1..n /\ id = s[n].id /\ s[n].phase = "sliding"
    BY <1>1, <1>3
  <1> DEFINE new == New(id)
             list == Append(others, new)
  <1>9. /\ new \in Toast /\ new.id = id /\ new.phase = "sliding"
        /\ new.disturbed <=> \E i \in 1..n : s[i].id = id
    <2> DEFINE d == \E i \in 1..n : s[i].id = id
    <2>1. new = [id |-> id, phase |-> "sliding", x |-> "right", y |-> 0, offset |-> 0, disturbed |-> d]
      BY <1>3 DEF New, s
    <2>2. d \in BOOLEAN /\ id \in 1..MaxToasts /\ 0 \in 0..MaxToasts
      BY <1>2, <1>3, <1>7
    <2> HIDE DEF d
    <2>3. new \in Toast /\ new.id = id /\ new.phase = "sliding" /\ new.disturbed = d
      BY <2>1, <2>2 DEF Toast
    <2>4. QED
      BY <2>3 DEF d
  <1> HIDE DEF new
  <1>10. /\ list \in Seq(Toast) /\ Len(list) = n + 1 /\ list[n + 1] = new
         /\ \A i \in 1..n : list[i] = other(i)
    BY <1>6, <1>9, AppendProperties
  <1>11. activeToasts' = Arranged(list, DOMAIN list)
    BY <1>1 DEF new, s
  <1> HIDE DEF list
  <1>12. DOMAIN list = 1..(n + 1) /\ n + 1 \in Nat /\ n + 1 <= MaxToasts
    BY <1>2, <1>3, <1>10, LenProperties
  <1> DEFINE t == activeToasts'
  <1>13. /\ t \in Seq(Toast) /\ Len(t) = n + 1
         /\ \A i \in 1..(n + 1) :
              /\ t[i].id = list[i].id /\ t[i].phase = list[i].phase /\ t[i].disturbed = list[i].disturbed
              /\ t[i].offset = Rank(1..(n + 1), i)
              /\ (\A j \in 1..(n + 1) : j # i => list[j].id # list[i].id) => t[i].y = Rank(1..(n + 1), i)
    <2>1. t = Arranged(list, 1..(n + 1))
      BY <1>11, <1>12
    <2>2. QED
      BY <1>10, <1>12, <2>1, ArrangedToasts
  <1>14. \A i \in 1..(n + 1) : Rank(1..(n + 1), i) = (n + 1) - i
    BY <1>12, RankOfAll
  <1> HIDE DEF t
  <1>15. \A i \in 1..(n + 1) : t[i].offset = Len(t) - i /\ t[i].id \in 1..(toastsMade + 1)
    <2>1. \A i \in 1..n : list[i].id \in 1..toastsMade
      BY <1>4, <1>5, <1>10
    <2>2. \A i \in 1..(n + 1) : list[i].id \in 1..(toastsMade + 1)
      BY <1>3, <1>7, <1>9, <1>10, <2>1
    <2>3. QED
      BY <1>13, <1>14, <2>2
  <1>16. \A i, j \in 1..(n + 1) : i # j /\ t[i].id = t[j].id => t[i].disturbed
    <2>1. ASSUME NEW i \in 1..n, NEW j \in 1..n, i # j, list[i].id = list[j].id PROVE list[i].disturbed
      BY <1>4, <1>5, <1>10, <2>1
    <2>2. ASSUME NEW i \in 1..n, list[i].id = id PROVE list[i].disturbed /\ list[n + 1].disturbed
      <3>1. s[i].id = id
        BY <1>5, <1>10, <2>2
      <3>2. new.disturbed
        BY <1>9, <3>1
      <3>3. id # toastsMade + 1
        BY <1>3, <1>4, <3>1
      <3>4. s[n].id = id /\ s[n].phase = "sliding" /\ n \in 1..n
        BY <1>8, <3>3
      <3>5. s[i].disturbed \/ s[i].phase = "sliding"
        BY <1>4, <3>1, <3>4
      <3>6. QED
        BY <1>5, <1>10, <3>2, <3>5
    <2>3. ASSUME NEW i \in 1..(n + 1), NEW j \in 1..(n + 1), i # j, t[i].id = t[j].id PROVE t[i].disturbed
      <3>1. list[i].id = list[j].id /\ t[i].disturbed = list[i].disturbed
        BY <1>13, <2>3
      <3>2. CASE i \in 1..n /\ j \in 1..n
        BY <2>1, <2>3, <3>1, <3>2
      <3>3. CASE i \in 1..n /\ j = n + 1
        BY <1>9, <1>10, <2>2, <3>1, <3>3
      <3>4. CASE i = n + 1 /\ j \in 1..n
        BY <1>9, <1>10, <2>2, <3>1, <3>4
      <3>5. QED
        BY <1>3, <2>3, <3>2, <3>3, <3>4
    <2>4. QED
      BY <2>3
  <1>17. ASSUME NEW i \in 1..(n + 1), ~t[i].disturbed
         PROVE  t[i].y = Len(t) - i /\ (t[i].phase = "sliding" => i = Len(t))
    <2>1. \A j \in 1..(n + 1) : j # i => t[j].id # t[i].id
      BY <1>16, <1>17
    <2>2. \A j \in 1..(n + 1) : j # i => list[j].id # list[i].id
      BY <1>13, <2>1
    <2>3. t[i].y = Len(t) - i
      BY <1>13, <1>14, <2>2
    <2>4. t[i].phase = "sliding" => i = Len(t)
      <3>1. ASSUME i \in 1..n PROVE t[i].phase # "sliding"
        BY <1>5, <1>10, <1>13, <1>17, <3>1
      <3>2. QED
        BY <1>3, <1>13, <3>1
    <2>5. QED
      BY <2>3, <2>4
  <1>18. Apart(t, toastsMade + 1)
    BY <1>13, <1>15, <1>16, <1>17 DEF Apart
  <1>19. ToastsTypeOK'
    BY <1>2, <1>3, <1>13 DEF ToastsTypeOK, t
  <1>20. QED
    BY <1>2, <1>18, <1>19 DEF ToastsInv, t

\* A timer of one toast that moves it, on the page or not.
LEMMA MovesToast ==
  ASSUME ToastsInv, NEW i \in 1..Len(activeToasts), NEW t \in Toast,
         activeToasts' = [activeToasts EXCEPT ![i] = t], UNCHANGED toastsMade,
         t.id = activeToasts[i].id, t.offset = activeToasts[i].offset,
         t.disturbed = activeToasts[i].disturbed, t.phase # "sliding",
         ~t.disturbed => t.y = activeToasts[i].offset
  PROVE  ToastsInv'
  <1> DEFINE s == activeToasts
             n == Len(activeToasts)
             r == activeToasts'
  <1>1. s \in Seq(Toast) /\ n \in Nat /\ n <= toastsMade /\ toastsMade \in 0..MaxToasts
    BY ToastsFacts
  <1>2. r \in Seq(Toast) /\ Len(r) = n /\ \A j \in 1..n : r[j] = IF j = i THEN t ELSE s[j]
    BY <1>1, ExceptSeq
  <1>3. /\ \A j \in 1..n : s[j].offset = n - j /\ s[j].id \in 1..toastsMade
        /\ \A j, k \in 1..n : j # k /\ s[j].id = s[k].id => s[j].disturbed
        /\ \A j \in 1..n : ~s[j].disturbed => s[j].y = n - j /\ (s[j].phase = "sliding" => j = n)
    BY DEF ToastsInv, Apart
  <1> HIDE DEF s, n, r
  <1>4. /\ t.id = s[i].id /\ t.offset = s[i].offset /\ t.disturbed = s[i].disturbed
        /\ t.phase # "sliding" /\ (~t.disturbed => t.y = s[i].offset) /\ i \in 1..n
    BY DEF s, n
  <1>5. \A j \in 1..n : r[j].id = s[j].id /\ r[j].offset = s[j].offset /\ r[j].disturbed = s[j].disturbed
    BY <1>2, <1>4
  <1>6. \A j \in 1..n : ~r[j].disturbed => r[j].y = n - j /\ (r[j].phase = "sliding" => j = n)
    BY <1>2, <1>3, <1>4
  <1>7. Apart(r, toastsMade)
    BY <1>2, <1>3, <1>5, <1>6 DEF Apart
  <1>8. QED
    BY <1>1, <1>2, <1>7 DEF ToastsInv, ToastsTypeOK, r

LEMMA SlidesIn == ASSUME ToastsInv, NEW i \in DOMAIN activeToasts, SlideIn(i) PROVE ToastsInv'
  <1> DEFINE s == activeToasts[i]
             t == [s EXCEPT !.phase = "staying", !.x = "in", !.y = 0]
  <1>1. i \in 1..Len(activeToasts) /\ s \in Toast /\ 0 \in 0..MaxToasts
    BY ToastsFacts
  <1>2. s.phase = "sliding" /\ activeToasts' = [activeToasts EXCEPT ![i] = t] /\ UNCHANGED toastsMade
    BY DEF SlideIn
  <1>3. ~s.disturbed => s.offset = 0
    <2>1. ~s.disturbed => i = Len(activeToasts)
      BY <1>1, <1>2 DEF ToastsInv, Apart
    <2>2. s.offset = Len(activeToasts) - i
      BY <1>1 DEF ToastsInv, Apart
    <2>3. QED
      BY <2>1, <2>2, ToastsFacts
  <1> HIDE DEF s
  <1>4. /\ t \in Toast /\ t.id = s.id /\ t.offset = s.offset /\ t.disturbed = s.disturbed
        /\ t.phase = "staying" /\ t.y = 0
    BY <1>1 DEF Toast
  <1> HIDE DEF t
  <1>5. QED
    BY <1>1, <1>2, <1>3, <1>4, MovesToast DEF s

LEMMA Hides == ASSUME ToastsInv, NEW i \in DOMAIN activeToasts, HideAndRemove(i) PROVE ToastsInv'
  <1> DEFINE s == activeToasts[i]
             t == [s EXCEPT !.x = "left", !.y = s.offset, !.phase = "leaving"]
  <1>1. i \in 1..Len(activeToasts) /\ s \in Toast
    BY ToastsFacts
  <1>2. activeToasts' = [activeToasts EXCEPT ![i] = t] /\ UNCHANGED toastsMade
    BY DEF HideAndRemove, Leaving
  <1> HIDE DEF s
  <1>3. /\ t \in Toast /\ t.id = s.id /\ t.offset = s.offset /\ t.disturbed = s.disturbed
        /\ t.phase = "leaving" /\ t.y = s.offset
    BY <1>1 DEF Toast
  <1> HIDE DEF t
  <1>4. QED
    BY <1>1, <1>2, <1>3, MovesToast DEF s

\* One toast less: the others move up, and those above it on the list down by one.
LEMMA RemovesToast == ASSUME ToastsInv, NEW k \in DOMAIN activeToasts, RemoveToast(k) PROVE ToastsInv'
  <1> DEFINE s == activeToasts
             n == Len(activeToasts)
             a == Arranged(s, (1..n) \ {k})
             r == activeToasts'
  <1>1. /\ s \in Seq(Toast) /\ n \in Nat /\ toastsMade \in Nat /\ n <= toastsMade
        /\ toastsMade <= MaxToasts /\ MaxToasts \in Nat /\ DOMAIN s = 1..n /\ k \in 1..n
    BY ToastsFacts
  <1>2. r = RemoveAt(a, k) /\ s[k].phase = "leaving" /\ UNCHANGED toastsMade
    BY <1>1 DEF RemoveToast
  <1>3. /\ \A i \in 1..n : s[i].offset = n - i /\ s[i].id \in 1..toastsMade
        /\ \A i, j \in 1..n : i # j /\ s[i].id = s[j].id => s[i].disturbed
        /\ \A i \in 1..n : ~s[i].disturbed => s[i].y = n - i /\ (s[i].phase = "sliding" => i = n)
    BY DEF ToastsInv, Apart
  <1> HIDE DEF s, n
  <1>4. /\ a \in Seq(Toast) /\ Len(a) = n
        /\ \A i \in 1..n :
             /\ a[i].id = s[i].id /\ a[i].phase = s[i].phase /\ a[i].disturbed = s[i].disturbed
             /\ i # k => a[i].offset = Rank((1..n) \ {k}, i)
             /\ i # k /\ (\A j \in 1..n : j # i => s[j].id # s[i].id) => a[i].y = Rank((1..n) \ {k}, i)
    <2>1. n <= MaxToasts /\ (1..n) \ {k} \subseteq 1..n /\ Len(s) = n
      BY <1>1 DEF s, n
    <2>2. QED
      BY <1>1, <2>1, ArrangedToasts
  <1> HIDE DEF a
  <1> DEFINE old(i) == IF i < k THEN i ELSE i + 1
  <1>5. \A i \in 1..(n - 1) : /\ old(i) \in 1..n /\ old(i) # k
                              /\ Rank((1..n) \ {k}, old(i)) = (n - 1) - i
    <2>1. ASSUME NEW i \in 1..(n - 1)
          PROVE  old(i) \in 1..n /\ old(i) # k /\ Rank((1..n) \ {k}, old(i)) = (n - 1) - i
      <3>1. CASE i < k
        <4>1. old(i) = i /\ i \in 1..n /\ i # k
          BY <1>1, <3>1
        <4>2. Rank((1..n) \ {k}, i) = n - i - 1
          BY <1>1, <3>1, <4>1, RankOfOthers
        <4>3. QED
          BY <1>1, <4>1, <4>2
      <3>2. CASE ~(i < k)
        <4>1. old(i) = i + 1 /\ i + 1 \in 1..n /\ i + 1 # k /\ ~(i + 1 < k)
          BY <1>1, <3>2
        <4>2. Rank((1..n) \ {k}, i + 1) = n - (i + 1)
          BY <1>1, <4>1, RankOfOthers
        <4>3. QED
          BY <1>1, <4>1, <4>2
      <3>3. QED
        BY <3>1, <3>2
    <2>2. QED
      BY <2>1
  <1>6. r \in Seq(Toast) /\ Len(r) = n - 1 /\ \A i \in 1..(n - 1) : r[i] = a[old(i)]
    <2>1. /\ r \in Seq(Toast) /\ Len(r) = n - 1
          /\ \A i \in 1..(n - 1) : (i < k => r[i] = a[i]) /\ (i >= k => r[i] = a[i + 1])
      <3>1. a \in Seq(Toast) /\ Len(a) = n /\ k \in 1..Len(a)
        BY <1>1, <1>4
      <3> DEFINE b == RemoveAt(a, k)
      <3>2. /\ b \in Seq(Toast) /\ Len(b) = Len(a) - 1
            /\ \A j \in 1..(Len(a) - 1) :
                 /\ j < k => b[j] = a[j]
                 /\ j >= k => b[j] = a[j + 1]
        BY <3>1, RemovedAt, Zenon
      <3>3. r = b
        BY <1>2
      <3> HIDE DEF b, r
      <3>4. QED
        BY <3>1, <3>2, <3>3
    <2>2. ASSUME NEW i \in 1..(n - 1) PROVE r[i] = a[old(i)]
      BY <1>1, <2>1
    <2>3. QED
      BY <2>1, <2>2
  <1>7. \A i, j \in 1..(n - 1) : i # j => old(i) # old(j)
    BY <1>1
  <1>8. \A i \in 1..(n - 1) : old(i) = n => i = n - 1
    BY <1>1
  <1> HIDE DEF old, r
  <1>9. \A i \in 1..(n - 1) : /\ r[i].id = s[old(i)].id /\ r[i].phase = s[old(i)].phase
                              /\ r[i].disturbed = s[old(i)].disturbed /\ r[i].offset = (n - 1) - i
    BY <1>4, <1>5, <1>6
  <1>10. \A i, j \in 1..(n - 1) : i # j /\ r[i].id = r[j].id => r[i].disturbed
    <2> SUFFICES ASSUME NEW i \in 1..(n - 1), NEW j \in 1..(n - 1), i # j, r[i].id = r[j].id
                 PROVE  r[i].disturbed
      OBVIOUS
    <2>1. old(i) \in 1..n /\ old(j) \in 1..n /\ old(i) # old(j)
      BY <1>5, <1>7
    <2>2. s[old(i)].id = s[old(j)].id
      BY <1>9
    <2>3. QED
      BY <1>3, <1>9, <2>1, <2>2
  <1>11. ASSUME NEW i \in 1..(n - 1), ~r[i].disturbed
         PROVE  r[i].y = (n - 1) - i /\ (r[i].phase = "sliding" => i = n - 1)
    <2>1. old(i) \in 1..n /\ old(i) # k /\ ~s[old(i)].disturbed
      BY <1>5, <1>9, <1>11
    <2>2. \A j \in 1..n : j # old(i) => s[j].id # s[old(i)].id
      BY <1>3, <2>1
    <2>3. r[i].y = (n - 1) - i
      BY <1>4, <1>5, <1>6, <2>1, <2>2
    <2>4. r[i].phase = "sliding" => old(i) = n
      BY <1>3, <1>9, <2>1
    <2>5. QED
      BY <1>8, <2>3, <2>4
  <1>12. Apart(r, toastsMade)
    <2>1. \A i \in 1..(n - 1) : r[i].id \in 1..toastsMade
      BY <1>3, <1>5, <1>9
    <2>2. QED
      BY <1>6, <1>9, <1>10, <1>11, <2>1 DEF Apart
  <1>13. QED
    BY <1>1, <1>2, <1>6, <1>12 DEF ToastsInv, ToastsTypeOK, r

LEMMA ToastsSteps == ASSUME ToastsInv, [ToastsNext]_toasts PROVE ToastsInv'
  <1>1. CASE UNCHANGED toasts
    BY <1>1 DEF toasts, ToastsInv, ToastsTypeOK
  <1>2. QED
    BY <1>1, ShowsToast, SlidesIn, Hides, RemovesToast DEF ToastsNext

LEMMA ApartOverlapsNot == ToastsInv => ToastsTypeOK /\ NoOverlap
  <1> SUFFICES ASSUME ToastsInv,
                      NEW i \in DOMAIN activeToasts, NEW j \in DOMAIN activeToasts, i # j,
                      activeToasts[i].y = activeToasts[j].y,
                      ~activeToasts[i].disturbed, ~activeToasts[j].disturbed
               PROVE  FALSE
    BY DEF NoOverlap, ToastsInv
  <1>1. /\ i \in 1..Len(activeToasts) /\ j \in 1..Len(activeToasts) /\ Len(activeToasts) \in Nat
    BY ToastsFacts
  <1>2. activeToasts[i].y = Len(activeToasts) - i /\ activeToasts[j].y = Len(activeToasts) - j
    BY <1>1 DEF ToastsInv, Apart
  <1>3. Len(activeToasts) - i = Len(activeToasts) - j
    BY <1>2
  <1>4. QED
    BY <1>1, <1>3

\* However many messages come and go: none covers another unless the next one was made
\* while it slid in, or in the same millisecond.
THEOREM ToastsKeepApart == ToastsSpec => []NoOverlap
  BY ToastsInits, ToastsSteps, ApartOverlapsNot, PTL DEF ToastsSpec

-----------------------------------------------------------------------------
(* All parts, as TLC runs them *)

PagesInv ==
  /\ part \in Parts /\ FeedInv /\ Filled /\ AnimationInv /\ WayGrows /\ ToastsInv
  /\ MenuTypeOK /\ SelectedIsTarget /\ PageInv /\ DispatchInv

LEMMA PagesInits == PagesInit => PagesInv
  BY FeedInits, FilledStarts, AnimationInits, WayInits, ToastsInits, MenuInits, PageInits,
     DispatchTypesStart, StaticStarts, DynamicStarts, RouteStarts
  DEF PagesInit, PagesInv, DispatchInv

\* A step of the whole is a step of one part; the others stutter.
LEMMA PartsStep ==
  ASSUME [PagesNext]_pages
  PROVE  /\ [FeedNext]_feed /\ [AnimationNext]_animation /\ [ToastsNext]_toasts /\ [MenuNext]_menu
         /\ [PageNext]_page /\ [DispatchNext]_dispatch /\ UNCHANGED part
  BY DEF PagesNext, pages

LEMMA PagesSteps ==
  ASSUME PagesInv, [PagesNext]_pages
  PROVE  /\ PagesInv'
         /\ shown' = NoPosition \/ /\ shown'.stamp >= shown.stamp
                                   /\ Whole(shown) /\ Whole(shown') => shown'.x >= shown.x
         /\ overlapped' \/ restarts' # restarts
              \/ (position'.stamp >= position.stamp /\ position'.x >= position.x)
         /\ ~fresh /\ drawn'.to = drawn.to /\ sinceTake' = sinceTake => drawn'.way >= drawn.way
  <1>1. /\ [FeedNext]_feed /\ [AnimationNext]_animation /\ [ToastsNext]_toasts /\ [MenuNext]_menu
        /\ [PageNext]_page /\ [DispatchNext]_dispatch /\ UNCHANGED part
    BY PartsStep
  <1>2. /\ FeedInv /\ Filled /\ AnimationInv /\ WayGrows /\ ToastsInv /\ MenuTypeOK /\ SelectedIsTarget
        /\ PageInv /\ DispatchTypeOK /\ StaticInv /\ DynamicInv /\ RouteInv /\ part \in Parts
    BY DEF PagesInv, DispatchInv
  <1>3. /\ FeedInv' /\ Filled'
        /\ shown' = NoPosition \/ /\ shown'.stamp >= shown.stamp
                                  /\ Whole(shown) /\ Whole(shown') => shown'.x >= shown.x
        /\ overlapped' \/ restarts' # restarts
             \/ (position'.stamp >= position.stamp /\ position'.x >= position.x)
    BY <1>1, <1>2, FeedSteps, FilledStays, WholeGoesForward
  <1>4. AnimationInv'
    BY <1>1, <1>2, AnimationSteps
  <1>5. /\ WayGrows'
        /\ ~fresh /\ drawn'.to = drawn.to /\ sinceTake' = sinceTake => drawn'.way >= drawn.way
    BY <1>1, <1>2, WaySteps
  <1>6. ToastsInv' /\ MenuTypeOK' /\ SelectedIsTarget' /\ PageInv'
    BY <1>1, <1>2, ToastsSteps, MenuSteps, PageSteps
  <1>7. DispatchInv'
    BY <1>1, <1>2, DispatchTypesStay, StaticStays, DynamicStays, RouteStays DEF DispatchInv
  <1>8. PagesInv'
    BY <1>1, <1>2, <1>3, <1>4, <1>5, <1>6, <1>7 DEF PagesInv
  <1>9. QED
    BY <1>3, <1>5, <1>8

LEMMA PagesAreCurrent == PagesInv => PagesTypeOK /\ ScreensRight /\ TurnsShort /\ SelectedIsTarget
  BY AnimationIsShort, ApartOverlapsNot, DispatchIsCurrent
  DEF PagesInv, PagesTypeOK, ScreensRight, FeedInv, PageInv

\* Every part of the pages keeps its types, for any bounds, map, sizes and headings.
THEOREM PagesTyped == PagesSpec => []PagesTypeOK
  BY PagesInits, PagesSteps, PagesAreCurrent, PTL DEF PagesSpec

\* What the screen shows is right at every moment: canvases, route, animation and messages.
THEOREM PagesRight == PagesSpec => [](ScreensRight /\ TurnsShort /\ SelectedIsTarget)
  BY PagesInits, PagesSteps, PagesAreCurrent, PTL DEF PagesSpec

\* KeepsOrder, for any bounds: the page keeps the order by the stamps it is given, the server
\* while its handlers do not overlap, the drawer between two answers.
THEOREM PagesKeepOrder == PagesSpec => KeepsOrder
  <1>1. PagesInv /\ [PagesNext]_pages =>
          [shown' = NoPosition \/ /\ shown'.stamp >= shown.stamp
                                  /\ Whole(shown) /\ Whole(shown') => shown'.x >= shown.x]_feed
    BY PagesSteps
  <1>2. PagesInv /\ [PagesNext]_pages =>
          [overlapped' \/ restarts' # restarts
             \/ (position'.stamp >= position.stamp /\ position'.x >= position.x)]_feed
    BY PagesSteps
  <1>3. PagesInv /\ [PagesNext]_pages =>
          [~fresh /\ drawn'.to = drawn.to /\ sinceTake' = sinceTake => drawn'.way >= drawn.way]_animation
    BY PagesSteps
  <1>4. PagesInv /\ [PagesNext]_pages => PagesInv'
    BY PagesSteps
  <1>5. QED
    BY PagesInits, <1>1, <1>2, <1>3, <1>4, PTL
    DEF PagesSpec, KeepsOrder, StampsShownGrow, ServerGoesForward, NoStepBack
=============================================================================
