---------------------------- MODULE BrewKitchen ----------------------------
(***************************************************************************)
(* A plan of BrewPlan, carried out at the alchemy table: what the table    *)
(* does with each operation is the game's, modelled from the comments and  *)
(* checks of the executor.  The table takes an operation only in the state *)
(* it is meant for, so that a plan that does not fit the table gets stuck; *)
(* so does one that asks for more units than its stack at the station has. *)
(***************************************************************************)
EXTENDS BrewPlan

CONSTANTS
  Herbs,         \* the ingredients
  Orders,        \* what may be asked for: [recipe, mode, fresh, dried], with the
                 \* units the player holds of every ingredient
  Nothing

(* A row as the parser leaves it: a quantity of 0 is 1, and a target of -1  *)
(* stands for no condition.                                                 *)
ParsedRows ==
  [id : Herbs, qty : Nat \ {0}, milled : BOOLEAN, mustNotMill : BOOLEAN,
   weak : Nat \cup {-1}, strong : Nat \cup {-1}]

(* A recipe lists an ingredient once, and its steps do not ask for it both  *)
(* ground and not.                                                          *)
Recipes ==
  {r \in [rows : Seq(ParsedRows), distill : BOOLEAN, resultMilled : BOOLEAN] :
     /\ \A i, j \in DOMAIN r.rows : r.rows[i].id = r.rows[j].id => i = j
     /\ \A i \in DOMAIN r.rows : ~(r.rows[i].milled /\ r.rows[i].mustNotMill)}

ASSUME OrdersAssumption ==
  \A o \in Orders : o.recipe \in Recipes /\ o.fresh \in Nat /\ o.dried \in Nat
ASSUME HandsAssumption ==
  /\ Herbs \cap {Nothing, "ground", "pot"} = {}
  /\ Nothing \notin {"ground", "pot", "phial", "distilled", "milled"}

VARIABLES
  recipe, mode,  \* what is brewed, and the mistakes the player asked for
  plan, cursor,  \* m_plan and m_planCursor, from 1
  stock,         \* units at the station of each row
  hand,          \* Nothing, a row's id, "ground" or "pot"
  mortar,        \* what is in the mortar: id -> units
  pot,           \* what went into the pot: id -> [units, milled, weak, strong]
  based, fire,   \* the base is poured, the pot hangs over the fire
  finish         \* Nothing, or how the brew was finished

tableVars == <<stock, hand, mortar, pot, based, fire, finish>>
kitchenVars == <<recipe, mode, plan, cursor, tableVars>>

IdsOf(r) == {r.rows[i].id : i \in DOMAIN r.rows}

KitchenInit ==
  /\ \E o \in Orders :
       /\ recipe = o.recipe /\ mode = o.mode
       /\ stock \in [IdsOf(recipe) -> StockStations(o.fresh, o.dried, mode)]
       /\ plan \in BuildPlan(recipe, [id \in IdsOf(recipe) |-> o.fresh + o.dried], mode)
  /\ cursor = 1
  /\ hand = Nothing /\ mortar = << >> /\ pot = << >>
  /\ based = FALSE /\ fire = FALSE /\ finish = Nothing

Now == plan[cursor]
Going == cursor \in DOMAIN plan
Turn(kind) == Going /\ Now.kind = kind /\ cursor' = cursor + 1 /\ UNCHANGED <<recipe, mode, plan>>
Verb(v) == Turn("DoVerb") /\ Now.verb = v

InPot(units, milled) == [units |-> units, milled |-> milled, weak |-> 0, strong |-> 0]
-----------------------------------------------------------------------------
PourBase ==
  /\ Verb("PourBase") /\ ~based
  /\ based' = TRUE
  /\ UNCHANGED <<stock, hand, mortar, pot, fire, finish>>

TakeHerb ==
  /\ Turn("TakeIngredient") /\ hand = Nothing /\ stock[Now.ing] > 0
  /\ stock' = [stock EXCEPT ![Now.ing] = @ - 1]
  /\ hand' = Now.ing
  /\ UNCHANGED <<mortar, pot, based, fire, finish>>

FillMortar ==
  /\ Verb("UseMortar") /\ hand \in IdsOf(recipe)
  /\ mortar' = [id \in DOMAIN mortar \cup {hand} |->
                  (IF id \in DOMAIN mortar THEN mortar[id] ELSE 0)
                  + IF id = hand THEN 1 ELSE 0]
  /\ hand' = Nothing
  /\ UNCHANGED <<stock, pot, based, fire, finish>>

Grind ==
  /\ Verb("UseMortar") /\ hand = Nothing /\ DOMAIN mortar # {}
  /\ hand' = "ground"
  /\ UNCHANGED <<stock, mortar, pot, based, fire, finish>>

(* What falls into the pot is new to the fire. *)
DropHerb ==
  /\ Verb("UsePot") /\ hand \in IdsOf(recipe) /\ based /\ ~fire
  /\ pot' = [id \in DOMAIN pot \cup {hand} |->
               IF id \notin DOMAIN pot THEN InPot(1, FALSE)
               ELSE IF id = hand THEN [pot[id] EXCEPT !.units = @ + 1] ELSE pot[id]]
  /\ hand' = Nothing
  /\ UNCHANGED <<stock, mortar, based, fire, finish>>

DumpMortar ==
  /\ Verb("UsePot") /\ hand = "ground" /\ based /\ ~fire
  /\ pot' = [id \in DOMAIN pot \cup DOMAIN mortar |->
               IF id \in DOMAIN mortar THEN InPot(mortar[id], TRUE) ELSE pot[id]]
  /\ mortar' = << >> /\ hand' = Nothing
  /\ UNCHANGED <<stock, based, fire, finish>>

Swing(kind, to) ==
  /\ Turn(kind) /\ hand = Nothing
  /\ fire' = to
  /\ UNCHANGED <<stock, hand, mortar, pot, based, finish>>

(* Boiling counts for everything in the pot, of the heat that is kept. *)
BoilWindow ==
  /\ Turn("BoilWeak") \/ Turn("BoilStrong")
  /\ based /\ fire
  /\ pot' = [id \in DOMAIN pot |->
               IF Now.kind = "BoilWeak" THEN [pot[id] EXCEPT !.weak = @ + Now.target]
               ELSE [pot[id] EXCEPT !.strong = @ + Now.target]]
  /\ UNCHANGED <<stock, hand, mortar, based, fire, finish>>

HoldPot ==
  /\ Turn("EnsureHoldPot") /\ hand = Nothing /\ ~fire
  /\ hand' = "pot"
  /\ UNCHANGED <<stock, mortar, pot, based, fire, finish>>

(* The three ways to finish: they grade the brew and clear the table, so    *)
(* that nothing of the plan may come after them.                            *)
FinishBrew ==
  /\ \/ Verb("UsePot") /\ hand = "pot" /\ finish' = "phial"
     \/ Verb("Distill") /\ hand = "pot" /\ finish' = "distilled"
     \/ Verb("UseMortar") /\ hand = Nothing /\ DOMAIN mortar = {} /\ finish' = "milled"
  /\ based /\ DOMAIN pot # {} /\ cursor = Len(plan)
  /\ hand' = Nothing
  /\ UNCHANGED <<stock, mortar, pot, based, fire>>

CarryOut ==
  \/ PourBase \/ TakeHerb \/ FillMortar \/ Grind \/ DropHerb \/ DumpMortar
  \/ Swing("SetPotOnFire", TRUE) \/ Swing("TakePotOffFire", FALSE)
  \/ BoilWindow \/ HoldPot \/ FinishBrew

(* The next unit is not at the station.  The driver waits for the verb,     *)
(* and gives the brew up as stalled (StallOrAbort of Executor).             *)
OutOfUnits == Going /\ Now.kind = "TakeIngredient" /\ stock[Now.ing] = 0
RunDry == OutOfUnits /\ hand = Nothing /\ UNCHANGED kitchenVars

(* The verdict is in, or the recipe was refused. *)
BrewOver == ~Going /\ UNCHANGED kitchenVars

KitchenNext == CarryOut \/ RunDry \/ BrewOver

KitchenSpec == KitchenInit /\ [][KitchenNext]_kitchenVars
-----------------------------------------------------------------------------
StepsMet(row, in) ==
  /\ in.units >= row.qty
  /\ row.milled => in.milled
  /\ row.mustNotMill => ~in.milled
  /\ row.weak >= 0 => in.weak = row.weak
  /\ row.strong >= 0 => in.strong = row.strong

SpareHeat(r) ==
  \/ \A i \in DOMAIN r.rows : r.rows[i].weak < 0
  \/ \A i \in DOMAIN r.rows : r.rows[i].strong < 0
OneFinish(r) == ~(r.distill /\ r.resultMilled)

(* The table is as the operation at hand needs it, but for units at the     *)
(* station.                                                                 *)
TableTakes ==
  \/ Now = DoVerb("PourBase") /\ ~based
  \/ Now.kind = "TakeIngredient" /\ hand = Nothing
  \/ /\ Now = DoVerb("UseMortar")
     /\ hand \in IdsOf(recipe) \/ (hand = Nothing /\ DOMAIN mortar # {})
  \/ Now = DoVerb("UsePot") /\ hand \in IdsOf(recipe) \cup {"ground"} /\ based /\ ~fire
  \/ Now = Op("SetPotOnFire") /\ hand = Nothing /\ ~fire
  \/ Now = Op("TakePotOffFire") /\ hand = Nothing /\ fire
  \/ Now.kind \in {"BoilWeak", "BoilStrong"} /\ hand = Nothing /\ based /\ fire
  \/ Now = Op("EnsureHoldPot") /\ hand = Nothing /\ ~fire
  \/ /\ cursor = Len(plan) /\ based /\ ~fire /\ DOMAIN pot # {} /\ DOMAIN mortar = {}
     /\ \/ Now = DoVerb("UseMortar") /\ hand = Nothing
        \/ Now \in {DoVerb("UsePot"), DoVerb("Distill")} /\ hand = "pot"

(* Without mistakes a finished brew meets every condition of its recipe:    *)
(* each ingredient boiled for its own turns at each heat, although all of    *)
(* them share one pot, ground as asked, in the asked number, and finished   *)
(* the recipe's way.  With and without mistakes the table is ready for      *)
(* every operation of a plan, so that only a stack that runs out of units   *)
(* can keep a brew from its finish (TakesFindUnits says when none does);    *)
(* and a recipe with conditions for one heat only is never refused.         *)
BrewsRecipe ==
  /\ mode = "off" /\ finish # Nothing =>
       /\ \A i \in DOMAIN recipe.rows :
            LET row == recipe.rows[i] IN
            row.id \in DOMAIN pot /\ StepsMet(row, pot[row.id])
       /\ finish = IF recipe.distill THEN "distilled"
                   ELSE IF recipe.resultMilled THEN "milled" ELSE "phial"
  /\ Going /\ recipe.rows # << >> => TableTakes
  /\ ~Going /\ plan # Refused => finish # Nothing
  /\ plan = Refused => ~(SpareHeat(recipe) /\ OneFinish(recipe))

(* "countAvailable guards the over-count slip: it needs a spare unit in the *)
(* inventory or the extra take would run the station stack dry and wedge    *)
(* the driver into the stall abort": a plan finds every unit it takes.      *)
TakesFindUnits == ~OutOfUnits

(* "verify the coupled constraints are schedulable at all -- refuse rather  *)
(* than mis-boil": what is refused can be put into the pot in no order.      *)
RefusesUnschedulable ==
  plan = Refused /\ OneFinish(recipe) =>
    \A order \in SetToSeqs(Range(recipe.rows)) : ~Schedulable(order)
=============================================================================
