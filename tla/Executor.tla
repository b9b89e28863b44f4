------------------------------ MODULE Executor ------------------------------
(***************************************************************************)
(* The auto-brew driver of one alchemy session (Autobrew): callbacks of    *)
(* the two prompts record intents, and Tick, once a frame, is the whole    *)
(* state machine.  Around it the game: the player, the one verb montage    *)
(* the director plays at a time, the swing of the kettle, the game clock   *)
(* and the hooks on the session's start, end and verdicts.                 *)
(*                                                                         *)
(* Timers are ages on the game clock, in units of StallLimit: Off, or how  *)
(* long ago they were started; -1 says that the clock jumped behind their  *)
(* start.  What Tick reads off the game besides (CanPerformVerb, the        *)
(* accrued boiling, the perk and brewed-once walls) is any answer.          *)
(***************************************************************************)
EXTENDS BrewPlan

CONSTANTS
  Recipes,
  StallLimit,   \* kStallAbortSeconds
  BoilLimit,    \* twice the window and kBoilGraceSeconds
  MaxBatches,   \* bound: batches the inventory feeds
  MaxActs       \* bound: what the player, the clock and the sessions do besides

ASSUME LimitsAssumption == StallLimit \in Nat \ {0} /\ BoilLimit \in Nat \ {0}
ASSUME BoundsAssumption == MaxBatches \in Nat /\ MaxActs \in Nat

Off == -2
NoRecipe == << >>

VARIABLES
  live,                          \* g_executor is there
  phase, pending, plan, cursor,  \* m_phase, m_pendingRecipeId, m_plan, m_planCursor
  stall, boil,                   \* m_op: the two timers
  autobrewPressed, stopPressed,  \* the intents
  stopShown,                     \* the prompt "Stop" is visible
  looping,                       \* g_enableLooping
  place,                         \* of the player: "table", "book", "away"
  slot,                          \* the director's verb: "free", "busy", "pouring", "finish"
  dirty, onFire, swinging,       \* of the workspace and its pot
  batches, acts,
  mine, verdict,                 \* history: how a finish of the driver's should be shown,
                                 \* and how the last one was
  quiet, ending                  \* history: time without progress, how the last run ended

driverVars == <<phase, pending, plan, cursor, stall, boil, stopShown>>
intents == <<autobrewPressed, stopPressed>>
pot == <<onFire, swinging>>
table == <<place, slot, dirty, pot>>
history == <<mine, verdict, quiet, ending>>
vars == <<live, driverVars, intents, looping, table, batches, acts, history>>

ExecutorTypeOK ==
  /\ live \in BOOLEAN /\ looping \in BOOLEAN
  /\ autobrewPressed \in BOOLEAN /\ stopPressed \in BOOLEAN /\ stopShown \in BOOLEAN
  /\ phase \in {"Idle", "Arming", "Cooking"}
  /\ pending \in Recipes \cup {NoRecipe} /\ (pending = NoRecipe <=> phase = "Idle")
  /\ cursor \in 1..Len(plan) + 1 /\ (phase = "Idle" => plan = << >>)
  /\ stall \in {Off} \cup -1..StallLimit /\ boil \in {Off} \cup -1..BoilLimit
  /\ phase = "Cooking" => live /\ stopShown /\ plan # << >>
  /\ place \in {"table", "book", "away"}
  /\ slot \in {"free", "busy", "pouring", "finish"}
  /\ dirty \in BOOLEAN /\ onFire \in BOOLEAN /\ swinging \in BOOLEAN
  /\ batches \in 0..MaxBatches /\ acts \in 0..MaxActs
  /\ mine \in {"none", "toast", "popup"}
  /\ verdict \in {"none", "toast", "popup", "failed"}
  /\ quiet \in 0..StallLimit
  /\ ending \in {"none", "done", "stopped", "refused", "stalled", "boil"}

FreshDriver ==
  /\ phase' = "Idle" /\ pending' = NoRecipe /\ plan' = << >> /\ cursor' = 1
  /\ stall' = Off /\ boil' = Off
  /\ autobrewPressed' = FALSE /\ stopPressed' = FALSE /\ stopShown' = FALSE
  /\ mine' = "none" /\ verdict' = "none" /\ quiet' = 0 /\ ending' = "none"

Init ==
  /\ live = FALSE /\ looping \in BOOLEAN
  /\ phase = "Idle" /\ pending = NoRecipe /\ plan = << >> /\ cursor = 1
  /\ stall = Off /\ boil = Off
  /\ autobrewPressed = FALSE /\ stopPressed = FALSE /\ stopShown = FALSE
  /\ place = "away" /\ slot = "free" /\ dirty = FALSE /\ onFire = FALSE /\ swinging = FALSE
  /\ batches \in 0..MaxBatches /\ acts = MaxActs
  /\ mine = "none" /\ verdict = "none" /\ quiet = 0 /\ ending = "none"

Act == acts > 0 /\ acts' = acts - 1
-----------------------------------------------------------------------------
(* The hooks on the session.  A start replaces a driver left over from a    *)
(* session that never ended; the table is the game's, fresh or as left.     *)
StartSession ==
  /\ Act
  /\ live' = TRUE /\ FreshDriver
  /\ place' = "table" /\ slot' = "free" /\ swinging' = FALSE
  /\ UNCHANGED <<dirty, onFire, looping, batches>>

EndSession ==
  /\ live /\ Act
  /\ live' = FALSE /\ FreshDriver
  /\ place' = "away" /\ slot' = "free" /\ swinging' = FALSE
  /\ UNCHANGED <<dirty, onFire, looping, batches>>

PressAutobrew ==
  /\ live /\ autobrewPressed' = TRUE
  /\ UNCHANGED <<live, driverVars, stopPressed, looping, table, batches, acts, history>>

PressStop ==
  /\ live /\ stopPressed' = TRUE
  /\ UNCHANGED <<live, driverVars, autobrewPressed, looping, table, batches, acts, history>>
-----------------------------------------------------------------------------
(* Teardown.  A verdict still to come is the game's to show. *)
ReturnToIdle(how) ==
  /\ stopShown' = (stopShown /\ phase # "Cooking")
  /\ phase' = "Idle" /\ pending' = NoRecipe /\ plan' = << >> /\ cursor' = 1
  /\ stall' = Off /\ boil' = Off
  /\ mine' = (IF mine = "toast" THEN "popup" ELSE mine)
  /\ quiet' = 0 /\ ending' = how
  /\ UNCHANGED verdict

(* By the end of a frame a finishing montage is under way. *)
SlotRolls == slot' = IF slot = "pouring" THEN "finish" ELSE slot
OnlyDriver == SlotRolls /\ UNCHANGED <<place, dirty, pot, batches>>

TickIdle ==
  /\ phase = "Idle"
  /\ \/ /\ autobrewPressed /\ place = "book" /\ batches > 0
        /\ pending' \in Recipes /\ phase' = "Arming"
        /\ place' = "away" /\ ending' = "none"
        /\ SlotRolls
        /\ UNCHANGED <<plan, cursor, stall, boil, stopShown, dirty, pot, batches,
                       mine, verdict, quiet>>
     \/ OnlyDriver /\ UNCHANGED <<driverVars, history>>

AtTable == place = "table" /\ slot = "free"

BeginCooking ==
  /\ plan' \in BuildPlan(pending, [id \in {pending.rows[i].id : i \in DOMAIN pending.rows} |-> 0],
                         "off") \ {Refused}
  /\ phase' = "Cooking" /\ cursor' = 1 /\ stall' = Off /\ boil' = Off /\ stopShown' = TRUE
  /\ quiet' = 0
  /\ UNCHANGED <<pending, mine, verdict, ending>>

(* Leftovers are reset first; then the run is refused, when the ingredients *)
(* ran out or the recipe does not fit, or the batch begins.                 *)
TickArming ==
  /\ phase = "Arming"
  /\ \/ OnlyDriver /\ UNCHANGED <<driverVars, history>>
     \/ /\ AtTable
        /\ dirty' = FALSE /\ SlotRolls
        /\ \/ ReturnToIdle("refused") /\ UNCHANGED batches
           \/ batches > 0 /\ BeginCooking /\ batches' = batches - 1
        /\ UNCHANGED <<place, pot>>
-----------------------------------------------------------------------------
(* Cooking. *)

Now == plan[cursor]
Boils == Now.kind \in {"BoilWeak", "BoilStrong"}
Marked(age) == IF age < 0 THEN 0 ELSE age

Chain ==
  /\ cursor > Len(plan)
  /\ OnlyDriver
  /\ IF looping
     THEN phase' = "Arming"
          /\ UNCHANGED <<pending, plan, cursor, stall, boil, stopShown, history>>
     ELSE ReturnToIdle("done")

(* Mutant: a run of progress does not take back the stall it interrupts. *)
LeaveStall == UNCHANGED stall

ClearStall == stall' = Off

StallOrAbort ==
  IF Marked(stall) >= StallLimit THEN ReturnToIdle("stalled")
  ELSE /\ stall' = Marked(stall)
       /\ UNCHANGED <<phase, pending, plan, cursor, stopShown, history>>

Progress ==
  /\ ClearStall /\ quiet' = 0
  /\ UNCHANGED <<phase, pending, plan, cursor, stopShown, mine, verdict, ending>>

Advance ==
  /\ cursor' = cursor + 1 /\ stall' = Off /\ boil' = Off /\ quiet' = 0
  /\ UNCHANGED <<phase, pending, plan, stopShown, verdict, ending>>

(* The montage of the verb before is still playing. *)
WaitForVerb == ~Boils /\ slot # "free" /\ Progress /\ UNCHANGED boil /\ OnlyDriver

Interrupted ==
  /\ Boils \/ slot = "free"
  /\ place # "table"
  /\ StallOrAbort /\ (ending' # "stalled" => UNCHANGED boil) /\ OnlyDriver

Dispatch ==
  /\ Now.kind \in {"DoVerb", "TakeIngredient", "EnsureHoldPot"}
  /\ \/ /\ Advance                                     \* CanPerformVerb
        /\ slot' = (IF cursor = Len(plan) THEN "pouring" ELSE "busy")
        /\ mine' = (IF cursor = Len(plan) THEN (IF looping THEN "toast" ELSE "popup") ELSE mine)
        /\ dirty' = TRUE
        /\ UNCHANGED <<place, pot, batches>>
     \/ /\ Now.kind = "EnsureHoldPot"                  \* the pot is in hand already
        /\ Advance /\ UNCHANGED mine /\ OnlyDriver
     \/ /\ StallOrAbort /\ (ending' # "stalled" => UNCHANGED boil) /\ OnlyDriver

SwingPot ==
  /\ Now.kind \in {"SetPotOnFire", "TakePotOffFire"}
  /\ LET want == Now.kind = "SetPotOnFire" IN
     \/ /\ ~swinging /\ onFire = want
        /\ Advance /\ UNCHANGED mine /\ OnlyDriver
     \/ /\ ~swinging /\ onFire # want                  \* MovePotBack
        /\ Progress /\ UNCHANGED boil
        /\ swinging' = TRUE /\ SlotRolls /\ UNCHANGED <<place, dirty, onFire, batches>>
     \/ /\ swinging \/ onFire # want
        /\ StallOrAbort /\ (ending' # "stalled" => UNCHANGED boil) /\ OnlyDriver

(* Mutant: no hard deadline. *)
BoilForever == FALSE

TimedOut == Marked(boil) >= BoilLimit

(* The hard deadline is judged before the window, whatever it accrued. *)
BoilWindow ==
  /\ Boils /\ OnlyDriver
  /\ \/ StallOrAbort /\ (ending' # "stalled" => UNCHANGED boil)  \* no base in the pot
     \/ TimedOut /\ ReturnToIdle("boil")
     \/ /\ ~TimedOut
        /\ \/ Advance /\ UNCHANGED mine                          \* accrued enough
           \/ /\ ~onFire /\ ~swinging
              /\ StallOrAbort /\ (ending' # "stalled" => boil' = Marked(boil))
           \/ /\ onFire \/ swinging
              /\ Progress /\ boil' = Marked(boil)

(* Mutant: the end of the plan is noticed after the verb has left its slot. *)
BusyFirst ==
  /\ phase = "Cooking"
  /\ IF cursor > Len(plan)
     THEN \/ slot = "free" /\ Chain
          \/ slot # "free" /\ OnlyDriver /\ UNCHANGED <<driverVars, history>>
     ELSE \/ WaitForVerb \/ Interrupted
          \/ /\ Boils \/ slot = "free"
             /\ place = "table"
             /\ (Dispatch \/ SwingPot \/ BoilWindow)

TickCooking ==
  /\ phase = "Cooking"
  /\ IF cursor > Len(plan) THEN Chain
     ELSE \/ WaitForVerb \/ Interrupted
          \/ /\ Boils \/ slot = "free"
             /\ place = "table"
             /\ (Dispatch \/ SwingPot \/ BoilWindow)

(* Intents are consumed by the next frame whether or not they are acted on. *)
Tick ==
  /\ live
  /\ autobrewPressed' = FALSE /\ stopPressed' = FALSE
  /\ IF stopPressed /\ phase # "Idle"
     THEN ReturnToIdle("stopped") /\ OnlyDriver
     ELSE TickIdle \/ TickArming \/ TickCooking
  /\ UNCHANGED <<live, looping, acts>>
-----------------------------------------------------------------------------
(* The game. *)

(* A verb's montage ends; a finishing one has graded the brew, shown the     *)
(* verdict through HandleBrewResult and reset the workspace.                 *)
HandleBrewResult(item) ==
  IF ~item THEN "failed" ELSE IF live /\ phase # "Idle" THEN "toast" ELSE "popup"

VerbEnds ==
  /\ \/ slot = "busy" /\ UNCHANGED <<dirty, mine, verdict>>
     \/ /\ slot = "finish" /\ dirty' = FALSE /\ mine' = "none"
        /\ \E item \in BOOLEAN : verdict' = HandleBrewResult(item)
  /\ slot' = "free"
  /\ UNCHANGED <<live, driverVars, intents, looping, place, pot, batches, acts, quiet, ending>>

SwingEnds ==
  /\ swinging /\ swinging' = FALSE /\ onFire' = ~onFire
  /\ UNCHANGED <<live, driverVars, intents, looping, place, slot, dirty, batches, acts, history>>

Aged(age, limit) == IF age = Off THEN Off ELSE IF age < limit THEN age + 1 ELSE limit

TimePasses ==
  /\ live
  /\ stall' = Aged(stall, StallLimit) /\ boil' = Aged(boil, BoilLimit)
  /\ quiet' = IF phase = "Cooking" /\ quiet < StallLimit THEN quiet + 1 ELSE quiet
  /\ UNCHANGED <<live, phase, pending, plan, cursor, stopShown, intents, looping, table,
                 batches, acts, mine, verdict, ending>>

ClockJumpsBack ==
  /\ Act
  /\ stall' = (IF stall = Off THEN Off ELSE -1) /\ boil' = (IF boil = Off THEN Off ELSE -1)
  /\ UNCHANGED <<live, phase, pending, plan, cursor, stopShown, intents, looping, table,
                 batches, history>>

(* The player goes to the book and back; not out of a montage. *)
Move ==
  /\ live /\ slot = "free"
  /\ \/ place = "away" /\ place' = "table" /\ UNCHANGED acts
     \/ place # "away" /\ place' \in {"table", "book", "away"} \ {place} /\ Act
  /\ UNCHANGED <<live, driverVars, intents, looping, slot, dirty, pot, batches, history>>

(* A verb of the player's own: the swing of the pot, or a montage. *)
PlayerVerb ==
  /\ live /\ place = "table" /\ slot = "free" /\ Act
  /\ \/ ~swinging /\ swinging' = TRUE /\ UNCHANGED <<slot, dirty>>
     \/ slot' = "busy" /\ dirty' = TRUE /\ UNCHANGED swinging
     \/ dirty /\ slot' = "pouring" /\ UNCHANGED <<dirty, swinging>>
  /\ UNCHANGED <<live, driverVars, intents, looping, place, onFire, batches, history>>

(* MCM; not while a finish plays. *)
SetLooping ==
  /\ Act /\ slot \in {"free", "busy"} /\ looping' = ~looping
  /\ UNCHANGED <<live, driverVars, intents, table, batches, history>>

Next ==
  \/ StartSession \/ EndSession \/ PressAutobrew \/ PressStop
  \/ Tick \/ VerbEnds \/ SwingEnds \/ TimePasses \/ ClockJumpsBack
  \/ Move \/ PlayerVerb \/ SetLooping

Fairness == WF_vars(Tick) /\ WF_vars(VerbEnds) /\ WF_vars(SwingEnds) /\ WF_vars(TimePasses)

Spec == Init /\ [][Next]_vars
FairSpec == Spec /\ Fairness
-----------------------------------------------------------------------------
(* The verdict of a brew that the driver finished is shown the way the      *)
(* player asked for: as a toast while the run goes on with the next batch,  *)
(* in the game's own popup after a single brew or a stop; and the workspace *)
(* is never reset under a finish that still has to be graded.               *)
BatchVerdicts ==
  [][/\ slot = "finish" /\ slot' = "free" /\ live' /\ mine # "none" /\ verdict' # "failed"
           /\ acts' = acts
          => verdict' = mine
     /\ dirty /\ ~dirty' /\ slot \in {"pouring", "finish"} => slot' = "free"]_vars

(* A run is given up as stalled only after the limit really passed without  *)
(* any progress: montages, swings and boiling in between, and a clock that  *)
(* jumps back, never add up to an abort.                                     *)
AbortsOnlyWhenStuck ==
  [][ending' = "stalled" /\ ending # "stalled" => quiet >= StallLimit]_vars

(* Whatever gets stuck, a batch ends: with its verdict, or in an abort. *)
CookingEnds == phase = "Cooking" ~> phase # "Cooking"

(* "unified teardown: finish, cancel and stall-abort all land here": without *)
(* a run there is no prompt to stop it.                                      *)
StopHiddenWhenIdle == phase = "Idle" => ~stopShown
=============================================================================
