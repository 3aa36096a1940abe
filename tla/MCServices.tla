----------------------------- MODULE MCServices -----------------------------
(* What the services do by themselves, on small instances: the connection  *)
(* to the broker, the one to the robot, and the search for a route.  The   *)
(* parts share no state: each behaviour is one of a single part, while the *)
(* others wait in initial states of which every property holds (there is   *)
(* no broker and no robot to connect to), so that one run goes through all *)
(* of them.                                                                *)
EXTENDS MqttLinkProofs, Ros2Link, RoutePlanner

VARIABLE part \* which part's behaviour this is

services == <<part, vars, ros, plan>>

Both == {"dispatcher", "simulator"}

(* A rectangle of 3 by 4, whose diagonals are 5; two edges of it may also  *)
(* be curves that are twice as long.                                       *)
MCDistance ==
  [p \in Pairs |-> IF p \in {{1, 2}, {3, 4}} THEN 3 ELSE IF p \in {{1, 3}, {2, 4}} THEN 4 ELSE 5]
MCWeights ==
  [p \in Pairs |-> {MCDistance[p]} \cup IF p \in {{2, 4}, {1, 4}} THEN {2 * MCDistance[p]} ELSE {}]

MCUnreached == 1 + MapThenSumSet(LAMBDA p : Max({0} \cup MCWeights[p]), Pairs)

ServicesInit ==
  /\ part \in {"mqtt", "ros2", "planner"} /\ Init /\ RosInit /\ PlanInit
  /\ part = "mqtt" \/ (gateway = "dispatcher" /\ ~broker)
  /\ part = "ros2" \/ ~robot

ServicesNext ==
  \/ part = "mqtt" /\ Next /\ UNCHANGED <<part, ros, plan>>
  \/ part = "ros2" /\ RosNext /\ UNCHANGED <<part, vars, plan>>
  \/ part = "planner" /\ PlanNext /\ UNCHANGED <<part, vars, ros>>

(* Each part's fairness, asked of its own behaviours only. *)
ServicesFairness ==
  /\ WF_vars(part = "mqtt" /\ MainStep)
  /\ WF_vars(part = "mqtt" /\ ExecutorStep) /\ WF_vars(part = "mqtt" /\ CallbackStep)
  /\ WF_ros(part = "ros2" /\ Connecting) /\ WF_ros(part = "ros2" /\ LateConnected)
  /\ WF_ros(part = "ros2" /\ Reconnecting) /\ WF_ros(part = "ros2" /\ Report)
  /\ WF_ros(part = "ros2" /\ SendSafely) /\ WF_ros(part = "ros2" /\ SendHeartbeat)

ServicesSpec == ServicesInit /\ [][ServicesNext]_services /\ ServicesFairness

-----------------------------------------------------------------------------
(* The state of every part has its type. *)
ServicesTypeOK == part \in {"mqtt", "ros2", "planner"} /\ TypeOK /\ RosTypeOK /\ PlanTypeOK

(* Both connections recover from every loss: to the broker, unless the     *)
(* loss was skipped, and to the robot.                                     *)
LinksRecover == RecoversIfHeard /\ RosRecovers
=============================================================================
