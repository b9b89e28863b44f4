--------------------------- MODULE ExecutorProofs ---------------------------
(***************************************************************************)
(* The stall window of the driver, for any recipes, limits and bounds: the *)
(* abort is only as old as the quiet it measures.                          *)
(***************************************************************************)
EXTENDS Executor, TLAPS

(* The window is open only on an operation of a plan, and never started      *)
(* before the quiet did.                                                     *)
StallInv ==
  /\ stall \in Int /\ quiet \in Nat /\ quiet <= StallLimit
  /\ stall # Off => /\ phase = "Cooking" /\ ~(cursor > Len(plan))
                    /\ stall <= quiet

(* The window is closed when there is no driver. *)
LEMMA StallInit == Init => StallInv
  BY LimitsAssumption DEF Init, StallInv, Off

(* A teardown closes the window. *)
LEMMA ReturnClosesWindow ==
  ASSUME NEW how, ReturnToIdle(how)
  PROVE  stall' = Off /\ quiet' = 0 /\ ending' = how
  BY DEF ReturnToIdle

(* Whatever keeps the window closed and the quiet a number preserves the    *)
(* invariant.                                                               *)
LEMMA ClosedWindow ==
  ASSUME stall' = Off, quiet' = 0
  PROVE  StallInv'
  BY LimitsAssumption DEF StallInv, Off

(* The one place that opens the window, and the only one that gives up. *)
LEMMA StuckStep ==
  ASSUME StallInv, phase = "Cooking", ~(cursor > Len(plan)), StallOrAbort
  PROVE  /\ StallInv'
         /\ ending' = "stalled" /\ ending # "stalled" => quiet >= StallLimit
<1>1. CASE Marked(stall) >= StallLimit
  <2>1. ReturnToIdle("stalled")
    BY <1>1 DEF StallOrAbort
  <2>2. quiet >= StallLimit
    BY <1>1, LimitsAssumption DEF StallInv, Marked, Off
  <2>. QED  BY <2>1, <2>2, ReturnClosesWindow, ClosedWindow
<1>2. CASE ~(Marked(stall) >= StallLimit)
  <2>1. /\ stall' = Marked(stall) /\ phase' = phase /\ cursor' = cursor /\ plan' = plan
        /\ quiet' = quiet /\ ending' = ending
    BY <1>2 DEF StallOrAbort, history
  <2>2. stall' \in Int /\ stall' <= quiet
    BY <2>1 DEF StallInv, Marked, Off
  <2>3. StallInv'
    BY <2>1, <2>2 DEF StallInv
  <2>. QED  BY <2>1, <2>3
<1>. QED  BY <1>1, <1>2

(* Every operation that is not stuck closes the window. *)
LEMMA CookingStep ==
  ASSUME StallInv, TickCooking
  PROVE  /\ StallInv'
         /\ ending' = "stalled" /\ ending # "stalled" => quiet >= StallLimit
<1>1. CASE cursor > Len(plan)
  <2>1. stall = Off
    BY <1>1 DEF StallInv
  <2>2. Chain
    BY <1>1 DEF TickCooking
  <2>3. CASE looping
    <3>1. stall' = stall /\ quiet' = quiet /\ ending' = ending
      BY <2>2, <2>3 DEF Chain, history
    <3>. QED  BY <2>1, <3>1 DEF StallInv, Off
  <2>4. CASE ~looping
    <3>1. ReturnToIdle("done")
      BY <2>2, <2>4 DEF Chain
    <3>. QED  BY <3>1, ReturnClosesWindow, ClosedWindow
  <2>. QED  BY <2>3, <2>4
<1>2. CASE ~(cursor > Len(plan))
  <2>. DEFINE Unmoved == stall' = Off /\ quiet' = 0 /\ ending' = ending
  <2>1. ASSUME Progress PROVE Unmoved
    BY <2>1 DEF Progress, ClearStall
  <2>2. ASSUME Advance PROVE Unmoved
    BY <2>2 DEF Advance
  <2>3. WaitForVerb => Unmoved
    BY <2>1 DEF WaitForVerb
  <2>4. Interrupted => StallOrAbort
    BY DEF Interrupted
  <2>5. Dispatch => Unmoved \/ StallOrAbort
    BY <2>2 DEF Dispatch
  <2>6. SwingPot => Unmoved \/ StallOrAbort
    BY <2>1, <2>2 DEF SwingPot
  <2>7. BoilWindow => Unmoved \/ StallOrAbort \/ ReturnToIdle("boil")
    BY <2>1, <2>2 DEF BoilWindow
  <2>8. phase = "Cooking" /\ (Unmoved \/ StallOrAbort \/ ReturnToIdle("boil"))
    BY <1>2, <2>3, <2>4, <2>5, <2>6, <2>7 DEF TickCooking
  <2>9. CASE Unmoved
    BY <2>9, ClosedWindow
  <2>10. CASE StallOrAbort
    BY <1>2, <2>8, <2>10, StuckStep
  <2>11. CASE ReturnToIdle("boil")
    BY <2>11, ReturnClosesWindow, ClosedWindow
  <2>. QED  BY <2>8, <2>9, <2>10, <2>11
<1>. QED  BY <1>1, <1>2

(* A frame. *)
LEMMA TickStep ==
  ASSUME StallInv, Tick
  PROVE  /\ StallInv'
         /\ ending' = "stalled" /\ ending # "stalled" => quiet >= StallLimit
<1>1. CASE stopPressed /\ phase # "Idle"
  <2>1. ReturnToIdle("stopped")
    BY <1>1 DEF Tick
  <2>. QED  BY <2>1, ReturnClosesWindow, ClosedWindow
<1>2. CASE ~(stopPressed /\ phase # "Idle")
  <2>1. CASE TickIdle
    <3>1. phase # "Cooking" /\ stall' = stall /\ quiet' = quiet
          /\ (ending' = ending \/ ending' = "none")
      BY <2>1 DEF TickIdle, driverVars, history
    <3>. QED  BY <3>1 DEF StallInv, Off
  <2>2. CASE TickArming
    <3>1. phase # "Cooking"
      BY <2>2 DEF TickArming
    <3>2. CASE UNCHANGED <<driverVars, history>>
      BY <3>1, <3>2 DEF StallInv, Off, driverVars, history
    <3>3. CASE ReturnToIdle("refused")
      BY <3>3, ReturnClosesWindow, ClosedWindow
    <3>4. CASE BeginCooking
      <4>1. stall' = Off /\ quiet' = 0 /\ ending' = ending
        BY <3>4 DEF BeginCooking
      <4>. QED  BY <4>1, ClosedWindow
    <3>. QED  BY <2>2, <3>2, <3>3, <3>4 DEF TickArming
  <2>3. CASE TickCooking
    BY <2>3, CookingStep
  <2>. QED  BY <1>2, <2>1, <2>2, <2>3 DEF Tick
<1>. QED  BY <1>1, <1>2

(* The passing of time ages the window no faster than the quiet. *)
LEMMA TimeStep ==
  ASSUME StallInv, TimePasses
  PROVE  StallInv' /\ ending' = ending
<1>1. /\ stall' = Aged(stall, StallLimit) /\ phase' = phase /\ cursor' = cursor /\ plan' = plan
      /\ quiet' = IF phase = "Cooking" /\ quiet < StallLimit THEN quiet + 1 ELSE quiet
      /\ ending' = ending
  BY DEF TimePasses
<1>2. stall' \in Int /\ quiet' \in Nat /\ quiet' <= StallLimit
  BY <1>1, LimitsAssumption DEF StallInv, Aged, Off
<1>3. stall' # Off => stall # Off
  BY <1>1 DEF Aged
<1>4. stall # Off => stall' <= quiet'
  BY <1>1, LimitsAssumption DEF StallInv, Aged, Off
<1>. QED  BY <1>1, <1>2, <1>3, <1>4 DEF StallInv

(* Every step keeps the invariant, and gives up only after the limit. *)
LEMMA StallStep ==
  ASSUME StallInv, [Next]_vars
  PROVE  /\ StallInv'
         /\ ending' = "stalled" /\ ending # "stalled" => quiet >= StallLimit
<1>1. CASE StartSession \/ EndSession
  <2>1. stall' = Off /\ quiet' = 0 /\ ending' = "none"
    BY <1>1 DEF StartSession, EndSession, FreshDriver
  <2>. QED  BY <2>1, ClosedWindow
<1>2. CASE Tick
  BY <1>2, TickStep
<1>3. CASE TimePasses
  BY <1>3, TimeStep
<1>4. CASE ClockJumpsBack
  <2>1. /\ stall' = (IF stall = Off THEN Off ELSE -1)
        /\ phase' = phase /\ cursor' = cursor /\ plan' = plan
        /\ quiet' = quiet /\ ending' = ending
    BY <1>4 DEF ClockJumpsBack, history
  <2>. QED  BY <2>1 DEF StallInv, Off
<1>5. CASE PressAutobrew \/ PressStop \/ SwingEnds \/ VerbEnds \/ Move \/ PlayerVerb
           \/ SetLooping \/ UNCHANGED vars
  <2>1. UNCHANGED driverVars /\ quiet' = quiet /\ ending' = ending
    BY <1>5 DEF PressAutobrew, PressStop, SwingEnds, VerbEnds, Move, PlayerVerb,
                SetLooping, vars, history
  <2>. QED  BY <2>1 DEF StallInv, driverVars
<1>. QED  BY <1>1, <1>2, <1>3, <1>4, <1>5 DEF Next

(* A run is given up as stalled only after the limit passed without any      *)
(* progress, for every recipe, limit and schedule.                           *)
THEOREM StallsAreReal == Spec => AbortsOnlyWhenStuck
<1>1. Init => StallInv
  BY StallInit
<1>2. StallInv /\ [Next]_vars => StallInv'
  BY StallStep
<1>3. StallInv /\ [Next]_vars
        => [ending' = "stalled" /\ ending # "stalled" => quiet >= StallLimit]_vars
  BY StallStep
<1>. QED  BY <1>1, <1>2, <1>3, PTL DEF Spec, AbortsOnlyWhenStuck
-----------------------------------------------------------------------------
(* Until its verdict lands, a finish of the driver's keeps the player at the *)
(* table; the frame after it was dispatched decides the way it is shown, and *)
(* from then on the phase agrees.                                            *)
VerdictInv ==
  /\ cursor \in Int /\ acts \in Int /\ looping \in BOOLEAN
  /\ mine \in {"none", "toast", "popup"}
  /\ mine # "none" =>
       /\ live /\ place = "table" /\ slot \in {"pouring", "finish"}
       /\ phase = "Cooking" => /\ cursor > Len(plan) /\ slot = "pouring"
                               /\ mine = "toast" <=> looping
       /\ mine = "toast" => phase # "Idle"
       /\ mine = "popup" => phase \in {"Idle", "Cooking"}

(* The two halves of BatchVerdicts, as steps. *)
VerdictAsAsked ==
  slot = "finish" /\ slot' = "free" /\ live' /\ mine # "none" /\ verdict' # "failed" /\ acts' = acts
    => verdict' = mine
FinishUndisturbed == dirty /\ ~dirty' /\ slot \in {"pouring", "finish"} => slot' = "free"

(* Nothing is owed before the first session. *)
LEMMA VerdictInit == Init => VerdictInv
<1>. SUFFICES ASSUME Init PROVE VerdictInv
  OBVIOUS
<1>1. cursor \in Int /\ mine = "none" /\ looping \in BOOLEAN
  BY DEF Init
<1>2. acts \in Int
  BY BoundsAssumption DEF Init
<1>. QED  BY <1>1, <1>2 DEF VerdictInv

(* Nothing is owed: only the counters are left to keep. *)
LEMMA NothingOwed ==
  ASSUME VerdictInv, mine' = "none", cursor' \in Int, acts' = acts, looping' = looping
  PROVE  VerdictInv'
  BY DEF VerdictInv

(* A teardown leaves the verdict to the game's own popup. *)
LEMMA TeardownOwes ==
  ASSUME VerdictInv, NEW how, ReturnToIdle(how), SlotRolls, place' = place,
         live' = live, acts' = acts, looping' = looping
  PROVE  VerdictInv'
<1>1. phase' = "Idle" /\ cursor' = 1 /\ mine' = (IF mine = "toast" THEN "popup" ELSE mine)
  BY DEF ReturnToIdle
<1>2. slot \in {"pouring", "finish"} => slot' = "finish"
  BY DEF SlotRolls
<1>. QED  BY <1>1, <1>2 DEF VerdictInv

(* Within a plan nothing is owed, until its last operation is dispatched. *)
LEMMA CookingOwes ==
  ASSUME VerdictInv, TickCooking, live, live' = live, acts' = acts, looping' = looping
  PROVE  /\ VerdictInv'
         /\ (slot = "finish" => slot' # "free") /\ (~dirty' => ~dirty)
<1>1. CASE cursor > Len(plan)
  <2>1. Chain
    BY <1>1 DEF TickCooking
  <2>2. SlotRolls /\ place' = place /\ dirty' = dirty
    BY <2>1 DEF Chain, OnlyDriver
  <2>3. CASE ~looping
    <3>1. ReturnToIdle("done")
      BY <2>1, <2>3 DEF Chain
    <3>. QED  BY <2>2, <3>1, TeardownOwes DEF SlotRolls
  <2>4. CASE looping
    <3>1. phase' = "Arming" /\ mine' = mine /\ cursor' = cursor /\ phase = "Cooking"
      BY <2>1, <2>4 DEF Chain, history, TickCooking
    <3>. QED  BY <2>2, <2>4, <3>1 DEF VerdictInv, SlotRolls
  <2>. QED  BY <2>3, <2>4
<1>2. CASE ~(cursor > Len(plan))
  <2>1. mine = "none" /\ phase = "Cooking"
    BY <1>2 DEF VerdictInv, TickCooking
  <2>. DEFINE Owed == /\ mine' = "none" /\ cursor' \in Int
                      /\ (slot = "finish" => slot' # "free") /\ (~dirty' => ~dirty)
              Poured == /\ cursor = Len(plan) /\ cursor' = cursor + 1 /\ plan' = plan
                        /\ slot = "free" /\ slot' = "pouring" /\ dirty' = TRUE
                        /\ phase' = phase /\ place' = place
                        /\ mine' = (IF looping THEN "toast" ELSE "popup")
  <2>2. ASSUME OnlyDriver PROVE (slot = "finish" => slot' # "free") /\ (~dirty' => ~dirty)
    BY <2>2 DEF OnlyDriver, SlotRolls
  <2>3. ASSUME NEW how, ReturnToIdle(how) PROVE mine' = "none" /\ cursor' \in Int
    BY <2>1, <2>3 DEF ReturnToIdle
  <2>4. ASSUME StallOrAbort PROVE mine' = "none" /\ cursor' \in Int
    BY <2>1, <2>3, <2>4 DEF StallOrAbort, history, VerdictInv
  <2>5. ASSUME Progress PROVE mine' = "none" /\ cursor' \in Int
    BY <2>1, <2>5 DEF Progress, VerdictInv
  <2>6. ASSUME Advance PROVE cursor' = cursor + 1 /\ cursor' \in Int /\ plan' = plan /\ phase' = phase
    BY <2>6 DEF Advance, VerdictInv
  <2>7. WaitForVerb => Owed
    BY <2>2, <2>5 DEF WaitForVerb
  <2>8. Interrupted => Owed
    BY <2>2, <2>4 DEF Interrupted
  <2>9. Dispatch /\ slot = "free" => Owed \/ Poured
    BY <2>1, <2>2, <2>4, <2>6 DEF Dispatch
  <2>10. SwingPot => Owed
    BY <2>1, <2>2, <2>4, <2>5, <2>6 DEF SwingPot, SlotRolls
  <2>11. BoilWindow => Owed
    BY <2>1, <2>2, <2>3, <2>4, <2>5, <2>6 DEF BoilWindow
  <2>12. Dispatch => ~Boils
    BY DEF Dispatch, Boils
  <2>13. Owed \/ (Poured /\ place = "table")
    BY <1>2, <2>7, <2>8, <2>9, <2>10, <2>11, <2>12 DEF TickCooking
  <2>14. CASE Owed
    BY <2>14, NothingOwed
  <2>15. CASE Poured /\ place = "table"
    <3>1. cursor' > Len(plan') /\ cursor' \in Int
      BY <2>15 DEF VerdictInv
    <3>. QED  BY <2>1, <2>15, <3>1 DEF VerdictInv
  <2>. QED  BY <2>13, <2>14, <2>15
<1>. QED  BY <1>1, <1>2
-----------------------------------------------------------------------------
(* A frame neither ends a finish nor resets the table under one. *)
LEMMA VerdictTick ==
  ASSUME VerdictInv, Tick
  PROVE  /\ VerdictInv'
         /\ (slot = "finish" => slot' # "free")
         /\ (slot \in {"pouring", "finish"} => (~dirty' => ~dirty))
<1>1. live /\ live' = live /\ acts' = acts /\ looping' = looping
  BY DEF Tick
<1>2. CASE stopPressed /\ phase # "Idle"
  <2>1. ReturnToIdle("stopped") /\ OnlyDriver
    BY <1>2 DEF Tick
  <2>. QED  BY <1>1, <2>1, TeardownOwes DEF OnlyDriver, SlotRolls
<1>3. CASE ~(stopPressed /\ phase # "Idle")
  <2>1. CASE TickIdle
    <3>1. SlotRolls /\ dirty' = dirty /\ mine' = mine /\ cursor' = cursor /\ phase = "Idle"
      BY <2>1 DEF TickIdle, OnlyDriver, driverVars, history
    <3>2. place = "book" \/ (phase' = phase /\ place' = place)
      BY <2>1 DEF TickIdle, OnlyDriver, driverVars
    <3>3. CASE place = "book"
      <4>1. mine = "none"
        BY <3>3 DEF VerdictInv
      <4>. QED  BY <1>1, <3>1, <4>1, NothingOwed DEF SlotRolls, VerdictInv
    <3>4. CASE phase' = phase /\ place' = place
      BY <1>1, <3>1, <3>4 DEF VerdictInv, SlotRolls
    <3>. QED  BY <3>2, <3>3, <3>4
  <2>2. CASE TickArming
    <3>1. CASE OnlyDriver /\ UNCHANGED <<driverVars, history>>
      BY <1>1, <2>2, <3>1 DEF VerdictInv, TickArming, OnlyDriver, SlotRolls, driverVars, history
    <3>2. CASE AtTable /\ SlotRolls /\ (ReturnToIdle("refused") \/ BeginCooking)
      <4>1. slot = "free" /\ slot' = "free" /\ mine = "none"
        BY <3>2 DEF AtTable, SlotRolls, VerdictInv
      <4>2. mine' = "none" /\ cursor' \in Int
        BY <3>2, <4>1 DEF ReturnToIdle, BeginCooking
      <4>. QED  BY <1>1, <4>1, <4>2, NothingOwed
    <3>. QED  BY <2>2, <3>1, <3>2 DEF TickArming
  <2>3. CASE TickCooking
    BY <1>1, <2>3, CookingOwes
  <2>. QED  BY <1>3, <2>1, <2>2, <2>3 DEF Tick
<1>. QED  BY <1>2, <1>3

(* Every step keeps the invariant; only the verdict itself ends a finish. *)
LEMMA VerdictStep ==
  ASSUME VerdictInv, [Next]_vars
  PROVE  VerdictInv' /\ VerdictAsAsked /\ FinishUndisturbed
<1>. USE DEF VerdictAsAsked, FinishUndisturbed
<1>1. CASE StartSession \/ EndSession
  <2>1. mine' = "none" /\ cursor' = 1 /\ looping' = looping /\ slot' = "free"
        /\ acts > 0 /\ acts' = acts - 1
    BY <1>1 DEF StartSession, EndSession, FreshDriver, Act
  <2>. QED  BY <2>1 DEF VerdictInv
<1>2. CASE Tick
  BY <1>2, VerdictTick DEF VerdictInv
<1>3. CASE VerbEnds
  <2>1. slot' = "free" /\ cursor' = cursor /\ acts' = acts /\ looping' = looping
        /\ phase' = phase
    BY <1>3 DEF VerbEnds, driverVars
  <2>2. mine' = "none"
    BY <1>3 DEF VerbEnds, VerdictInv
  <2>3. VerdictInv'
    BY <2>1, <2>2, NothingOwed DEF VerdictInv
  <2>4. CASE slot = "finish" /\ mine # "none" /\ verdict' # "failed"
    <3>1. verdict' = IF live /\ phase # "Idle" THEN "toast" ELSE "popup"
      BY <1>3, <2>4 DEF VerbEnds, HandleBrewResult
    <3>2. mine = "toast" => live /\ phase # "Idle"
      BY DEF VerdictInv
    <3>3. mine = "popup" => phase = "Idle"
      BY <2>4 DEF VerdictInv
    <3>. QED  BY <2>1, <2>3, <2>4, <3>1, <3>2, <3>3 DEF VerdictInv
  <2>. QED  BY <2>1, <2>3, <2>4
<1>4. CASE PressAutobrew \/ PressStop \/ SwingEnds \/ TimePasses \/ ClockJumpsBack
           \/ UNCHANGED vars
  <2>1. UNCHANGED <<live, phase, plan, cursor, looping, place, slot, dirty, mine>>
        /\ (acts' = acts \/ acts' = acts - 1)
    BY <1>4 DEF PressAutobrew, PressStop, SwingEnds, TimePasses, ClockJumpsBack, Act,
                vars, driverVars, table, history
  <2>. QED  BY <2>1 DEF VerdictInv
<1>5. CASE Move \/ PlayerVerb \/ SetLooping
  <2>1. slot \in {"free", "busy"} /\ mine' = mine /\ cursor' = cursor /\ looping' \in BOOLEAN
        /\ (acts' = acts \/ acts' = acts - 1)
    BY <1>5 DEF Move, PlayerVerb, SetLooping, Act, VerdictInv, driverVars, history
  <2>2. mine = "none"
    BY <2>1 DEF VerdictInv
  <2>. QED  BY <2>1, <2>2 DEF VerdictInv
<1>. QED  BY <1>1, <1>2, <1>3, <1>4, <1>5 DEF Next

(* Every verdict of a finish of the driver's is shown the way the player    *)
(* asked for, and no reset disturbs a finish, for every recipe, limit and   *)
(* schedule.                                                                 *)
THEOREM VerdictsAsAsked == Spec => BatchVerdicts
<1>1. Init => VerdictInv
  BY VerdictInit
<1>2. VerdictInv /\ [Next]_vars => VerdictInv'
  BY VerdictStep
<1>3. VerdictInv /\ [Next]_vars => [VerdictAsAsked /\ FinishUndisturbed]_vars
  BY VerdictStep
<1>. QED  BY <1>1, <1>2, <1>3, PTL DEF Spec, BatchVerdicts, VerdictAsAsked, FinishUndisturbed
=============================================================================
