----------------------------- MODULE MCPlugins ------------------------------
(***************************************************************************)
(* The plugins that share no state with another: every behaviour runs the  *)
(* steps of one of them, and between them they run all.  What holds of     *)
(* each by itself holds of any interleaving.                               *)
(*                                                                         *)
(* Trampolines: two plugins, a call at 0 whose 6-byte patch runs into the  *)
(* call at 2, and a patch of it into the padding at 3; a displacement has  *)
(* one byte.  Listeners: two mods and two closures, so that reloaded       *)
(* scripts bring a second closure for a mod and one closure serves two     *)
(* mods.  Handles: four of them.  Travel: two places.  Patches: two levels *)
(* of rows.  Edits: a cvar of the engine, one of Autobrew, and the switch. *)
(* Compass: as many marks as MaxMarks, one or two at a time.  Brewing: the *)
(* orders of MCBrewKitchen.                                                *)
(***************************************************************************)
EXTENDS Trampoline, McmListeners, RttrHandles, FastTravel, PersistedEdits,
        CompassNames, PtfMerge, MCBrewKitchen, TLC

CONSTANTS engineCVar, menuCVar, switch

VARIABLE plugin

(* The trees of up to two rows, each with at most one row below it, whose   *)
(* attribute is absent or says which side it comes from.                    *)
AttrsFrom(side) == {[x \in {} |-> side], [x \in {"x"} |-> side]}
Leaf(k, t) == [key |-> k, attrs |-> t, kids |-> << >>]
RowsOf(k, side) ==
  {[key |-> k, attrs |-> t, kids |-> below] :
     t \in AttrsFrom(side),
     below \in {<< >>} \cup {<<Leaf("k", u)>> : u \in AttrsFrom(side)}}
Trees(side) ==
  {<< >>} \cup {<<r>> : r \in RowsOf("j", side) \cup RowsOf("k", side)}
    \cup {<<r, s>> : r \in RowsOf("k", side), s \in RowsOf("j", side)}
MCBases == Trees("game")
MCPatches ==
  {Unreadable} \cup {t \in Trees("mod") : t # << >>} \cup
  {<<[key |-> "j", attrs |-> [x \in {"x", "y"} |-> "late"], kids |-> << >>]>>}

MCLines == <<engineCVar, menuCVar, switch>>
MCDefault == [c \in {engineCVar, menuCVar, switch} |-> IF c = engineCVar THEN 0 ELSE 1]

pluginVars ==
  <<plugin, vars, listenerVars, handleVars, travelVars, mergeVars, editVars,
    compassVars, kitchenVars>>

PluginsInit ==
  /\ plugin \in {"trampolines", "listeners", "handles", "travel", "patching", "edits",
                "compass", "brewing"}
  /\ Init /\ ListenersInit /\ HandlesInit /\ TravelInit
  /\ IF plugin = "patching" THEN MergeInit
     ELSE config = << >> /\ merged = << >> /\ listing = << >> /\ at = 0 /\ applied = 0
  /\ EditsInit /\ (plugin # "edits" => lastFile = "pce")
  /\ CompassInit
  /\ IF plugin = "brewing" THEN KitchenInit
     ELSE /\ recipe = [rows |-> << >>, distill |-> TRUE, resultMilled |-> TRUE]
          /\ mode = "off" /\ plan = Refused /\ cursor = 1
          /\ stock = << >> /\ hand = Nothing /\ mortar = << >> /\ pot = << >>
          /\ based = FALSE /\ fire = FALSE /\ finish = Nothing

PluginsNext ==
  /\ UNCHANGED plugin
  /\ \/ /\ plugin = "trampolines" /\ Next
        /\ UNCHANGED <<listenerVars, handleVars, travelVars, mergeVars,
                       editVars, compassVars, kitchenVars>>
     \/ /\ plugin = "listeners" /\ ListenersNext
        /\ UNCHANGED <<vars, handleVars, travelVars, mergeVars,
                       editVars, compassVars, kitchenVars>>
     \/ /\ plugin = "handles" /\ HandlesNext
        /\ UNCHANGED <<vars, listenerVars, travelVars, mergeVars,
                       editVars, compassVars, kitchenVars>>
     \/ /\ plugin = "travel" /\ TravelNext
        /\ UNCHANGED <<vars, listenerVars, handleVars, mergeVars,
                       editVars, compassVars, kitchenVars>>
     \/ /\ plugin = "patching" /\ MergeNext
        /\ UNCHANGED <<vars, listenerVars, handleVars, travelVars,
                       editVars, compassVars, kitchenVars>>
     \/ /\ plugin = "edits" /\ EditsNext
        /\ UNCHANGED <<vars, listenerVars, handleVars, travelVars,
                       mergeVars, compassVars, kitchenVars>>
     \/ /\ plugin = "compass" /\ CompassNext
        /\ UNCHANGED <<vars, listenerVars, handleVars, travelVars,
                       mergeVars, editVars, kitchenVars>>
     \/ /\ plugin = "brewing" /\ KitchenNext
        /\ UNCHANGED <<vars, listenerVars, handleVars, travelVars,
                       mergeVars, editVars, compassVars>>

PluginsSpec == PluginsInit /\ [][PluginsNext]_pluginVars

Either == Permutations(Plugins)
=============================================================================
