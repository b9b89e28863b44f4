----------------------------- MODULE FastTravel -----------------------------
(***************************************************************************)
(* FastTravelTweaks: a key on the map previews the route to the player's   *)
(* mark, a second press asks and travels there; another key cancels a      *)
(* travel, a frame later.  The map, the travel itself and the scripts that *)
(* may arm a destination of their own are the game's, modelled from what   *)
(* the plugin and the headers it calls through say of them.                *)
(***************************************************************************)
EXTENDS Naturals

CONSTANTS
  Places,      \* where marks and destinations may be
  Nowhere,     \* no mark, no destination, no line, no dialog
  MaxRequests

VARIABLES
  mark,          \* the checkpoint mark
  mapOpen,       \* the map's element is visible
  dialog,        \* the destination the open dialog captured
  destination,   \* m_destination
  route,         \* m_ftPathNodes is not empty
  pending,       \* m_ftPathPending: draw the route when the map is shown
  line,          \* where the drawn route leads
  traveling,     \* IsFastTraveling
  prompt,        \* the random-event dialog is open
  tasks,         \* cancels that wait for the next frame
  \* What the program does not keep:
  rearmed,       \* somebody else armed a destination since the dialog opened
  refused,       \* the last SetDestination was refused
  answered       \* the last of yes and arming was a yes

travelVars == <<mark, mapOpen, dialog, destination, route, pending, line, traveling,
          prompt, tasks, rearmed, refused, answered>>
travel == <<traveling, prompt, tasks>>
-----------------------------------------------------------------------------
TravelInit ==
  /\ mark = Nowhere /\ mapOpen = FALSE /\ dialog = Nowhere
  /\ destination = Nowhere /\ route = FALSE /\ pending = FALSE /\ line = Nowhere
  /\ traveling = FALSE /\ prompt = FALSE /\ tasks = 0
  /\ rearmed = FALSE /\ refused = FALSE /\ answered = FALSE

(* C_UIMap::SetDestination: armed, or refused without effect by the game's  *)
(* gate; nobody looks at the result.                                        *)
SetDestination(d) ==
  \/ destination' = d /\ route' = TRUE /\ refused' = FALSE
  \/ UNCHANGED <<destination, route>> /\ refused' = TRUE

RouteArmedTo(d) == destination = d /\ route
MarkUnderCursor == dialog = Nowhere /\ mapOpen /\ mark # Nowhere

(* First press: arm, draw what there is to draw, no deferred drawing.       *)
PressArm ==
  /\ ~traveling /\ MarkUnderCursor /\ ~RouteArmedTo(mark)
  /\ SetDestination(mark)
  /\ pending' = FALSE
  /\ line' = IF route' THEN destination' ELSE Nowhere
  /\ answered' = FALSE
  /\ UNCHANGED <<mark, mapOpen, dialog, travel, rearmed>>

(* Second press: the mark goes, and the dialog remembers where it was.      *)
PressConfirm ==
  /\ ~traveling /\ MarkUnderCursor /\ RouteArmedTo(mark)
  /\ dialog' = mark
  /\ mark' = Nowhere
  /\ rearmed' = FALSE
  /\ UNCHANGED <<mapOpen, destination, route, pending, line, travel, refused, answered>>

(* Mutants: the route is trusted to be armed still; the deferred drawing is *)
(* left on.                                                                 *)
TrustingYes ==
  /\ dialog # Nowhere
  /\ UNCHANGED <<destination, route, refused>>
  /\ traveling' = (traveling \/ route')
  /\ pending' = FALSE
  /\ line' = Nowhere
  /\ dialog' = Nowhere /\ answered' = TRUE
  /\ UNCHANGED <<mark, mapOpen, prompt, tasks, rearmed>>
RedrawingYes ==
  /\ dialog # Nowhere
  /\ SetDestination(dialog)
  /\ traveling' = (traveling \/ route')
  /\ pending' = (pending \/ ~refused')
  /\ line' = Nowhere
  /\ dialog' = Nowhere /\ answered' = TRUE
  /\ UNCHANGED <<mark, mapOpen, prompt, tasks, rearmed>>

(* "Yes": armed once more, for others may have armed something else; the    *)
(* travel starts if there is a route.                                       *)
Yes ==
  /\ dialog # Nowhere
  /\ SetDestination(dialog)
  /\ traveling' = (traveling \/ route')
  /\ pending' = FALSE
  /\ line' = Nowhere
  /\ dialog' = Nowhere /\ answered' = TRUE
  /\ UNCHANGED <<mark, mapOpen, prompt, tasks, rearmed>>

No ==
  /\ dialog # Nowhere
  /\ dialog' = Nowhere
  /\ line' = Nowhere
  /\ UNCHANGED <<mark, mapOpen, destination, route, pending, travel, rearmed,
                 refused, answered>>

(* Escape: the broadcast of input is under way, so the cancel waits.        *)
PressCancel ==
  /\ traveling /\ ~prompt /\ tasks < MaxRequests
  /\ tasks' = tasks + 1
  /\ UNCHANGED <<mark, mapOpen, dialog, destination, route, pending, line,
                 traveling, prompt, rearmed, refused, answered>>

TryCancelFastTravel ==
  /\ tasks > 0 /\ tasks' = tasks - 1
  /\ traveling' = (traveling /\ prompt)
  /\ UNCHANGED <<mark, mapOpen, dialog, destination, route, pending, line,
                 prompt, rearmed, refused, answered>>
-----------------------------------------------------------------------------
(* The player places, moves or removes the mark.                            *)
PlaceMark ==
  /\ mapOpen /\ dialog = Nowhere
  /\ mark' \in Places \cup {Nowhere}
  /\ UNCHANGED <<mapOpen, dialog, destination, route, pending, line, travel,
                 rearmed, refused, answered>>

(* Showing the map draws a pending route; hiding it takes the line along.   *)
ShowMap ==
  /\ ~mapOpen /\ mapOpen' = TRUE
  /\ line' = IF pending /\ route THEN destination ELSE Nowhere
  /\ pending' = FALSE
  /\ UNCHANGED <<mark, dialog, destination, route, travel, rearmed, refused, answered>>

HideMap ==
  /\ mapOpen /\ dialog = Nowhere
  /\ mapOpen' = FALSE /\ line' = Nowhere
  /\ UNCHANGED <<mark, dialog, destination, route, pending, travel, rearmed,
                 refused, answered>>

(* A script or a console command arms a destination, also under the dialog. *)
OthersArm ==
  /\ ~traveling
  /\ \E d \in Places : SetDestination(d)
  /\ pending' = (pending \/ ~refused')
  /\ rearmed' = TRUE /\ answered' = FALSE
  /\ UNCHANGED <<mark, mapOpen, dialog, line, travel>>

OthersStart ==
  /\ ~traveling /\ route /\ traveling' = TRUE
  /\ UNCHANGED <<mark, mapOpen, dialog, destination, route, pending, line,
                 prompt, tasks, rearmed, refused, answered>>

(* The travel ends, with or without clearing its route, and an ambush may   *)
(* interrupt it.                                                            *)
Arrive ==
  /\ traveling /\ ~prompt
  /\ traveling' = FALSE /\ route' \in {route, FALSE}
  /\ UNCHANGED <<mark, mapOpen, dialog, destination, pending, line, prompt, tasks,
                 rearmed, refused, answered>>

Ambush ==
  /\ traveling /\ ~prompt /\ prompt' = TRUE
  /\ UNCHANGED <<mark, mapOpen, dialog, destination, route, pending, line,
                 traveling, tasks, rearmed, refused, answered>>

AmbushAnswered ==
  /\ prompt /\ prompt' = FALSE
  /\ traveling' \in BOOLEAN
  /\ UNCHANGED <<mark, mapOpen, dialog, destination, route, pending, line, tasks,
                 rearmed, refused, answered>>

TravelNext ==
  \/ PressArm \/ PressConfirm \/ Yes \/ No \/ PressCancel \/ TryCancelFastTravel
  \/ PlaceMark \/ ShowMap \/ HideMap \/ OthersArm \/ OthersStart
  \/ Arrive \/ Ambush \/ AmbushAnswered

TravelSpec == TravelInit /\ [][TravelNext]_travelVars
-----------------------------------------------------------------------------
(* A "yes" travels to the mark the player confirmed, whatever was armed     *)
(* while the dialog was open, unless the game refuses that destination and  *)
(* somebody else's is armed.                                                *)
StartsWhereAsked ==
  (dialog # Nowhere /\ dialog' = Nowhere /\ ~traveling /\ traveling')
    => destination' = dialog \/ (rearmed /\ refused')

(* "Don't cancel travel while the FT ambush prompt demands an answer", also *)
(* when the prompt opened between the key press and the next frame.         *)
LeavesPromptAlone == (tasks' < tasks /\ prompt) => traveling' = traveling

TravelsAsAsked == [][StartsWhereAsked /\ LeavesPromptAlone]_travelVars

(* "zero it after StartTravel or the route redraws on the next map open"    *)
(* (C_UIMap.h): after a yes no route is drawn until one is armed again,     *)
(* however often the map is opened.                                         *)
NoGhostRoute == answered => line = Nowhere
=============================================================================
