---------------------------- MODULE StationMenu ----------------------------
(* The menu the simulator's page opens at a node or an edge of the map, to *)
(* send the AGV there or to tell it that it is there, and the commands     *)
(* sent from it: the handlers of useAgvPathPlanning.js from the click on   *)
(* the canvas to the answer of moveTo and initPose.                        *)
(*                                                                         *)
(* What the menu was opened at (contextMenu.targetData) and what a command *)
(* is sent for (selectedNodeInfo) are kept apart.  The page is loaded, so  *)
(* that the document listens to clicks.                                    *)
EXTENDS Naturals, FiniteSets

CONSTANTS
  Stations,    \* the map's nodes of type STATION
  PathNodes,   \* the other nodes
  Nothing,     \* null, and a click that hits neither node nor edge
  MaxCommands  \* bound: how many commands are sent

ASSUME MenuAssumption == MaxCommands \in Nat

VARIABLES
  known,            \* agvResponse: unknown, without a place, or located
  contextMenu,      \* visible, what it was opened at and of which type
  selectedNodeInfo,
  commands,         \* the commands under way, each with its number
  commandsSent      \* how many there have been

menu == <<known, contextMenu, selectedNodeInfo, commands, commandsSent>>

Nodes == Stations \cup PathNodes
Types == {"node", "edge", "none"}

MenuTypeOK ==
  /\ known \in {"unknown", "nowhere", "located"} /\ selectedNodeInfo \in Nodes \cup {Nothing}
  /\ contextMenu \in [visible : BOOLEAN, type : Types, target : Nodes \cup {Nothing}]
  /\ commands \subseteq [number : 1..MaxCommands, node : Nodes]
  /\ commandsSent \in 0..MaxCommands

Hidden == [visible |-> FALSE, type |-> "none", target |-> Nothing]

MenuInit ==
  /\ known = "unknown" /\ contextMenu = Hidden /\ selectedNodeInfo = Nothing
  /\ commands = {} /\ commandsSent = 0

-----------------------------------------------------------------------------
StatusComes(s) ==
  /\ s # known /\ known' = s
  /\ UNCHANGED <<contextMenu, selectedNodeInfo, commands, commandsSent>>

(* The right button on the canvas: a node is selected, whatever its type;  *)
(* only a station and an edge open the menu.  On the AGV nothing happens,  *)
(* and before the first status the handler throws.                         *)
ContextMenuAt(node) ==
  /\ known # "unknown"
  /\ selectedNodeInfo' = node
  /\ contextMenu' = IF node \in Stations
                      THEN [visible |-> TRUE, type |-> "node", target |-> node]
                      ELSE contextMenu
  /\ UNCHANGED <<known, commands, commandsSent>>

ContextMenuAtEdge ==
  /\ known # "unknown"
  /\ contextMenu' = [visible |-> TRUE, type |-> "edge", target |-> Nothing]
  /\ UNCHANGED <<known, selectedNodeInfo, commands, commandsSent>>

(* Mutant: the click is kept from the document, as clicks in the menu are. *)
AfterClickStays(m) == m

(* The listener on the document: a click outside the menu closes it. *)
AfterClick(m) == Hidden

(* The left button on the canvas: a station is selected; then the click    *)
(* reaches the document.  Without a status the handler throws, and while   *)
(* the AGV is nowhere it returns; the click still goes on.                 *)
CanvasClick(node) ==
  /\ contextMenu' = AfterClick(contextMenu)
  /\ selectedNodeInfo' = IF known = "located" /\ node \in Stations THEN node ELSE selectedNodeInfo
  /\ UNCHANGED <<known, commands, commandsSent>>

(* handleMoveToNode and handleSetAsStart: the menu stays as it is until    *)
(* the answer is there, and a second click sends a second command.         *)
SendCommand ==
  /\ contextMenu.visible /\ contextMenu.type = "node" /\ selectedNodeInfo # Nothing
  /\ commandsSent < MaxCommands /\ commandsSent' = commandsSent + 1
  /\ commands' = commands \cup {[number |-> commandsSent + 1, node |-> selectedNodeInfo]}
  /\ UNCHANGED <<known, contextMenu, selectedNodeInfo>>

CloseMenu ==
  /\ contextMenu.visible /\ contextMenu' = Hidden
  /\ UNCHANGED <<known, selectedNodeInfo, commands, commandsSent>>

(* Mutant: only a command that succeeded closes the menu. *)
AfterAnswerIfGood(m, good) == IF good THEN Hidden ELSE m

(* finally: whichever menu is open by now is closed. *)
AfterAnswer(m, good) == Hidden

(* The answer, good or bad, or that there is none after ten seconds. *)
Answered(command, good) ==
  /\ command \in commands /\ commands' = commands \ {command}
  /\ contextMenu' = AfterAnswer(contextMenu, good)
  /\ UNCHANGED <<known, selectedNodeInfo, commandsSent>>

MenuNext ==
  \/ \E s \in {"nowhere", "located"} : StatusComes(s)
  \/ ContextMenuAtEdge \/ SendCommand \/ CloseMenu
  \/ \E node \in Nodes : ContextMenuAt(node)
  \/ \E node \in Nodes \cup {Nothing} : CanvasClick(node)
  \/ \E command \in commands, good \in BOOLEAN : Answered(command, good)

AnswerToCommand == \E command \in commands, good \in BOOLEAN : Answered(command, good)

(* axios answers every request, with an error after ten seconds. *)
MenuFairness == WF_menu(AnswerToCommand)

MenuSpec == MenuInit /\ [][MenuNext]_menu /\ MenuFairness

-----------------------------------------------------------------------------
(* The command goes to the station the menu was opened at, unless another  *)
(* node than a station was clicked with the right button since: that       *)
(* selects the node and leaves the menu, and the AGV is sent to the node.  *)
SelectedIsTarget ==
  contextMenu.visible /\ contextMenu.type = "node" /\ selectedNodeInfo \in Stations =>
    selectedNodeInfo = contextMenu.target

(* While a command's answer is awaited its menu is open for a second       *)
(* click; sooner or later every menu that was open then is closed, whether *)
(* the command succeeded or not.                                           *)
MenuCloses == commands # {} ~> ~contextMenu.visible
=============================================================================
