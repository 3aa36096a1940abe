--------------------------- MODULE PositionFeed ---------------------------
(* How a position measured by the robot reaches the simulator's web page:  *)
(* the robot posts it (AgvBridgeController), processPositionUpdate of      *)
(* AgvStatusManager keeps it unless it is old, the page polls the AGV's    *)
(* status every 350 ms (loadAgvPositions of useAgvPathPlanning.js) and     *)
(* shows an answer unless it is older than what it shows.                  *)
(*                                                                         *)
(* Posts and answers overtake each other.  The server's position is one    *)
(* object that handlers fill and Jackson reads field by field, without a   *)
(* lock: the coordinates (here x) come first, the time stamps last.        *)
(* Reading n is the robot's n-th measurement; its x and its stamp are n.   *)
EXTENDS Naturals, Sequences, SequencesExt, FiniteSets

CONSTANTS
  MaxReadings,  \* bound: how many measurements the robot makes
  MaxInFlight,  \* bound: how many requests of the page are under way at once
  MaxRestarts,  \* bound: how often the simulator is restarted
  MaxFailures   \* bound: how many requests fail

ASSUME FeedAssumption == /\ MaxReadings \in Nat
                         /\ MaxInFlight \in Nat \ {0}
                         /\ MaxRestarts \in Nat /\ MaxFailures \in Nat

VARIABLES
  measured,     \* how many readings the robot has made
  posts,        \* the readings posted and not yet looked at
  handlers,     \* the threads in processPositionUpdate: reading and place
  position,     \* agvStatus.currentPosition, NoPosition for null
  overlapped,   \* whether two handlers were ever at work at once (history)
  requests,     \* the page's requests under way, in the order they were sent
  shown,        \* agvResponse: the position the page has
  lastDataTimestamp,
  restarts, failures

feed == <<measured, posts, handlers, position, overlapped, requests, shown,
          lastDataTimestamp, restarts, failures>>

Readings == 1..MaxReadings
NoPosition == [x |-> 0, stamp |-> 0]
Position == [x : 0..MaxReadings, stamp : 0..MaxReadings]

(* A request is sent, then the server reads x, then the stamp.  later says *)
(* that its sequence number is above lastProcessedSeq: the numbers are     *)
(* used for this comparison only, so that they need not be counted.  A     *)
(* request has failed when the server that had it was restarted.           *)
Request == [at : {"sent", "half", "answered", "failed"}, later : BOOLEAN, got : Position]

FeedTypeOK ==
  /\ measured \in 0..MaxReadings /\ posts \subseteq Readings
  /\ handlers \subseteq [reading : Readings, at : {"first", "checked", "half"}]
  /\ position \in Position /\ shown \in Position /\ overlapped \in BOOLEAN
  /\ lastDataTimestamp \in 0..MaxReadings /\ restarts \in 0..MaxRestarts
  /\ failures \in 0..MaxFailures
  /\ requests \in Seq(Request) /\ Len(requests) <= MaxInFlight

FeedInit ==
  /\ measured = 0 /\ posts = {} /\ handlers = {} /\ position = NoPosition
  /\ overlapped = FALSE /\ requests = <<>> /\ shown = NoPosition
  /\ lastDataTimestamp = 0 /\ restarts = 0 /\ failures = 0

-----------------------------------------------------------------------------
(* The robot and the server. *)

(* The robot measures and posts. *)
Measure ==
  /\ measured < MaxReadings
  /\ measured' = measured + 1 /\ posts' = posts \cup {measured + 1}
  /\ UNCHANGED <<handlers, position, overlapped, requests, shown, lastDataTimestamp, restarts, failures>>

(* Mutant: an old position is not recognised. *)
NewerAlways(r) == r > 0

Newer(r) == r > position.stamp

(* processPositionUpdate looks at the post: too old, and it ends.  Whether *)
(* there is a position to fill is decided here too.                        *)
TakePost(r) ==
  /\ r \in posts /\ posts' = posts \ {r}
  /\ handlers' = IF Newer(r) THEN handlers \cup {[reading |-> r,
                                                       at |-> IF position = NoPosition THEN "first" ELSE "checked"]}
                ELSE handlers
  /\ overlapped' = (overlapped \/ (Newer(r) /\ handlers # {}))
  /\ UNCHANGED <<measured, position, requests, shown, lastDataTimestamp, restarts, failures>>

(* A first position is filled before it is set and appears at once.  If    *)
(* there is one by now it is replaced, and those who were filling that one *)
(* fill what nobody sees any more.                                         *)
FillFirst(h) ==
  /\ h.at = "first"
  /\ position' = [x |-> h.reading, stamp |-> h.reading]
  /\ handlers' = {g \in handlers \ {h} : g.at = "first"}
  /\ UNCHANGED <<measured, posts, overlapped, requests, shown, lastDataTimestamp, restarts, failures>>

FillCoordinates(h) ==
  /\ h.at = "checked"
  /\ position' = [position EXCEPT !.x = h.reading]
  /\ handlers' = (handlers \ {h}) \cup {[h EXCEPT !.at = "half"]}
  /\ UNCHANGED <<measured, posts, overlapped, requests, shown, lastDataTimestamp, restarts, failures>>

FillStamp(h) ==
  /\ h.at = "half"
  /\ position' = [position EXCEPT !.stamp = h.reading]
  /\ handlers' = handlers \ {h}
  /\ UNCHANGED <<measured, posts, overlapped, requests, shown, lastDataTimestamp, restarts, failures>>

(* What becomes of a request when the server stops. *)
Cut(q) == IF q.at = "answered" THEN q ELSE [q EXCEPT !.at = "failed", !.got = NoPosition]

(* The simulator stops and comes back without a position; what it had not  *)
(* answered fails.                                                         *)
Restart ==
  /\ restarts < MaxRestarts /\ restarts' = restarts + 1
  /\ position' = NoPosition /\ posts' = {} /\ handlers' = {}
  /\ requests' = [i \in DOMAIN requests |-> Cut(requests[i])]
  /\ UNCHANGED <<measured, overlapped, shown, lastDataTimestamp, failures>>

-----------------------------------------------------------------------------
(* The page. *)

(* The interval timer calls loadAgvPositions, whether or not earlier       *)
(* requests are answered.                                                  *)
Poll ==
  /\ Len(requests) < MaxInFlight
  /\ requests' = Append(requests, [at |-> "sent", later |-> TRUE, got |-> NoPosition])
  /\ UNCHANGED <<measured, posts, handlers, position, overlapped, shown, lastDataTimestamp, restarts, failures>>

(* The server writes the answer: first the coordinates, then the stamp. *)
ReadCoordinates(i) ==
  /\ i \in DOMAIN requests /\ requests[i].at = "sent"
  /\ requests' = [requests EXCEPT ![i].at = "half", ![i].got = [@ EXCEPT !.x = position.x]]
  /\ UNCHANGED <<measured, posts, handlers, position, overlapped, shown, lastDataTimestamp, restarts, failures>>

ReadStamp(i) ==
  /\ i \in DOMAIN requests /\ requests[i].at = "half"
  /\ requests' = [requests EXCEPT ![i].at = "answered",
                    ![i].got = IF requests[i].got.x = 0 THEN NoPosition
                               ELSE [requests[i].got EXCEPT !.stamp = position.stamp]]
  /\ UNCHANGED <<measured, posts, handlers, position, overlapped, shown, lastDataTimestamp, restarts, failures>>

(* Mutant: every answer to a later request is accepted. *)
AcceptsInTurn(q) == q.later

(* Mutant: the same stamp counts as old. *)
AcceptsLaterStamp(q) == q.got.stamp > lastDataTimestamp \/ (q.got.stamp = 0 /\ q.later)

(* What is accepted: a later stamp; with the same stamp, or without one,   *)
(* the answer to a later request.                                          *)
Accepts(q) ==
  \/ q.got.stamp > lastDataTimestamp
  \/ q.got.stamp \in {0, lastDataTimestamp} /\ q.later

(* The requests left when the i-th is done.  If it was accepted, its       *)
(* number is lastProcessedSeq now, be it lower than before or higher.      *)
Without(i, accepted) ==
  RemoveAt([j \in DOMAIN requests |->
              IF accepted THEN [requests[j] EXCEPT !.later = j > i] ELSE requests[j]], i)

Receive(i) ==
  /\ i \in DOMAIN requests /\ requests[i].at = "answered"
  /\ LET q == requests[i] IN
       /\ requests' = Without(i, Accepts(q))
       /\ shown' = IF Accepts(q) THEN q.got ELSE shown
       /\ lastDataTimestamp' = IF Accepts(q) /\ q.got.stamp > 0 THEN q.got.stamp
                               ELSE lastDataTimestamp
  /\ UNCHANGED <<measured, posts, handlers, position, overlapped, restarts, failures>>

(* The request fails, with its server or on its way: catch writes to the   *)
(* console.                                                                *)
RequestFails(i) ==
  /\ i \in DOMAIN requests /\ requests' = RemoveAt(requests, i)
  /\ IF requests[i].at = "failed" THEN UNCHANGED failures
     ELSE failures < MaxFailures /\ failures' = failures + 1
  /\ UNCHANGED <<measured, posts, handlers, position, overlapped, shown, lastDataTimestamp, restarts>>

-----------------------------------------------------------------------------
Fill == \E h \in handlers : FillFirst(h) \/ FillCoordinates(h) \/ FillStamp(h)
Answer == \E i \in DOMAIN requests : ReadCoordinates(i) \/ ReadStamp(i)
Shows == \E i \in DOMAIN requests : Receive(i)
Fails == \E i \in DOMAIN requests : requests[i].at = "failed" /\ RequestFails(i)

FeedNext ==
  \/ Measure \/ Restart \/ Poll
  \/ \E r \in posts : TakePost(r)
  \/ \E h \in handlers : FillFirst(h) \/ FillCoordinates(h) \/ FillStamp(h)
  \/ \E i \in DOMAIN requests :
       ReadCoordinates(i) \/ ReadStamp(i) \/ Receive(i) \/ RequestFails(i)

(* Handlers end, the timer goes on, the requests are answered. *)
FeedFairness == WF_feed(Fill) /\ WF_feed(Poll) /\ WF_feed(Answer \/ Shows \/ Fails)

FeedSpec == FeedInit /\ [][FeedNext]_feed /\ FeedFairness

-----------------------------------------------------------------------------
(* An answer is torn when its coordinates are of another measurement than  *)
(* its stamp.                                                              *)
Whole(p) == p.x = p.stamp

(* loadAgvPositions' choice between stamp and number, of which each alone  *)
(* would not do: however posts and answers overtake each other, the stamp  *)
(* of the position the page has never falls, unless an answer takes the    *)
(* position away that the server gave when it had none.  The coordinates   *)
(* follow their stamps when neither the old nor the new answer is torn;    *)
(* those of a torn answer may be older than what they replace.             *)
StampsShownGrow ==
  [][shown' = NoPosition \/ /\ shown'.stamp >= shown.stamp
                            /\ Whole(shown) /\ Whole(shown') => shown'.x >= shown.x]_feed

(* The comparison in processPositionUpdate: as long as handlers do not     *)
(* overlap, neither the coordinates nor the stamp of the server's position *)
(* go back, but with a restart.  When handlers overlap, the check of one   *)
(* and the writes of another are not one step and both may.                *)
ServerGoesForward ==
  [][overlapped' \/ restarts' # restarts
       \/ (position'.stamp >= position.stamp /\ position'.x >= position.x)]_feed

(* Whatever was read torn on the way, lost or late: in the end the page    *)
(* shows the position the server has.  Overlapping handlers are excluded,  *)
(* after which the server's position may be older than the page's.         *)
ShowsThePosition == <>[](overlapped \/ shown.x = position.x)
=============================================================================
