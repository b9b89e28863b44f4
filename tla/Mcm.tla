-------------------------------- MODULE Mcm --------------------------------
(***************************************************************************)
(* The Mod Configuration Menu: the plugin with its settings model, the     *)
(* flash panel it fills through calls that may fail, the retries of an     *)
(* incomplete push on later frames, and the player.                        *)
(*                                                                         *)
(* Everything runs on the game's main thread; what interleaves is the      *)
(* player's input, the frames, and which of the calls into flash fail.     *)
(***************************************************************************)
EXTENDS McmPanel

CONSTANTS
  Xml,             \* the declarations of the XML configurations
  CppBuilds,       \* what the C++ plugins may declare on a rebuild
  LuaBuilds,       \* what the Lua callbacks may declare on a rebuild
  Owned,           \* settings whose mod keeps the value and reports it
  Unset, NoEdit,
  MaxOpens,        \* bound on openings of the menu
  MaxFailures      \* bound on calls into flash that fail

Settings == ModIds \X ItemIds

(* Only a mod that keeps a value reports it as live.                        *)
Sources ==
  {b \in Seq(Declarations) :
     \A n \in DOMAIN b : b[n].op = "live" => <<b[n].mod, b[n].id>> \in Owned}

ASSUME McmAssumption ==
  /\ MaxOpens \in Nat /\ MaxFailures \in Nat
  /\ Unset \notin Values
  /\ Owned \subseteq Settings
  /\ Xml \in Sources /\ CppBuilds \subseteq Sources /\ LuaBuilds \subseteq Sources

VARIABLES
  mods,            \* g_mods
  mcmOpen,         \* g_mcmOpen, and the visibility of the element
  retries,         \* the attempts waiting in the task queue
  panel,           \* the flash movie
  opens, failures, \* how often the menu opened, how many calls failed
  complete,        \* every call of the last push of this model arrived
  asked,           \* the edit the player made in the last step, or NoEdit
  applied,         \* the values the consuming mods run with
  missed           \* settings some rebuild since their last edit left out

vars == <<mods, mcmOpen, retries, panel, opens, failures, complete, asked,
          applied, missed>>

Init ==
  /\ mods = << >>
  /\ mcmOpen = FALSE
  /\ retries = << >>
  /\ panel = EmptyPanel
  /\ opens = 0 /\ failures = 0
  /\ complete = TRUE
  /\ asked = NoEdit
  /\ applied \in {f \in [Settings -> Values \cup {Unset}] :
                    \A s \in Settings : s \in Owned <=> f[s] # Unset}
  /\ missed = {}
-----------------------------------------------------------------------------
(* The sets of calls of one push that may fail. *)
MayFail(calls) ==
  {F \in SUBSET (IF failures < MaxFailures THEN calls ELSE {}) :
     Cardinality(F) <= MaxFailures - failures}

(* Mutant: an incomplete push is left as it is. *)
UnretriedPush(ms, n, queue) ==
  \E failed \in MayFail(PushCalls(ms)) :
    /\ failures' = failures + Cardinality(failed)
    /\ complete' = (failed = {})
    /\ retries' = queue
    /\ panel' \in Pushed(panel, ms, failed)

(* PushAllTask: attempt n, after which a retry may join the queue. *)
PushAllTask(ms, n, queue) ==
  \E failed \in MayFail(PushCalls(ms)) :
    /\ failures' = failures + Cardinality(failed)
    /\ complete' = (failed = {})
    /\ retries' = IF failed # {} /\ n < 3 THEN Append(queue, n + 1) ELSE queue
    /\ panel' \in Pushed(panel, ms, failed)

(* OpenMCM: rebuild the model, push it, show the panel.  A mod that was      *)
(* never asked before starts with the value the menu shows for it.          *)
OpenMCM ==
  /\ opens < MaxOpens
  /\ \E cpp \in CppBuilds, lua \in LuaBuilds :
     \E ms \in Rebuilt(mods, Xml, cpp, lua, applied) :
       /\ mods' = ms
       /\ PushAllTask(ms, 0, retries)
       /\ applied' = [s \in Settings |->
                        IF applied[s] = Unset /\ s \in Declared(ms)
                          THEN ItemOf(ms, s).val ELSE applied[s]]
       /\ missed' = missed \cup {s \in Settings \ Declared(ms) : applied[s] # Unset}
  /\ mcmOpen' = TRUE
  /\ opens' = opens + 1
  /\ asked' = NoEdit

(* The next frame runs the oldest task, whether the menu is open or not. *)
RunTask ==
  /\ retries # << >>
  /\ asked' = NoEdit
  /\ UNCHANGED <<mods, mcmOpen, opens, applied, missed>>
  /\ PushAllTask(mods, Head(retries), Tail(retries))

(* CloseMCM, when the pause menu goes away or flash answers Esc. *)
CloseMCM ==
  /\ mcmOpen
  /\ mcmOpen' = FALSE
  /\ asked' = NoEdit
  /\ UNCHANGED <<mods, retries, panel, opens, failures, complete, applied, missed>>

(* Esc leaves the search box first. *)
PressEscape ==
  /\ mcmOpen
  /\ \/ panel.searching /\ panel' = [panel EXCEPT !.searching = FALSE] /\ UNCHANGED mcmOpen
     \/ ~panel.searching /\ mcmOpen' = FALSE /\ UNCHANGED panel
  /\ asked' = NoEdit
  /\ UNCHANGED <<mods, retries, opens, failures, complete, applied, missed>>
-----------------------------------------------------------------------------
(* Mutant: the change is stored and nobody is told. *)
SilentHandleValueChanged(modIdx, itemIdx, v) ==
  /\ mods' = IF InRange(mods, modIdx, itemIdx) THEN Stored(mods, modIdx, itemIdx, v) ELSE mods
  /\ UNCHANGED <<applied, missed>>

(* The value is stored by position and broadcast under the ids found there; *)
(* a position the model does not have, or a category's, is ignored.         *)
HandleValueChanged(modIdx, itemIdx, v) ==
  IF InRange(mods, modIdx, itemIdx)
    THEN LET s == SettingAt(mods, <<modIdx + 1, itemIdx + 1>>) IN
         /\ mods' = Stored(mods, modIdx, itemIdx, v)
         /\ applied' = [applied EXCEPT ![s] = v]
         /\ missed' = missed \ {s}
    ELSE UNCHANGED <<mods, applied, missed>>

(* emitValue for the row of item pos of mod m, as it stands in panel p. *)
EmitValue(p, m, pos) ==
  LET item == CachedItem(p, m, pos) IN
  /\ HandleValueChanged(ModIdxOf(p, m), item.idx, item.value)
  /\ asked' = [setting |-> <<m, item.id>>, value |-> item.value]

NoEmit == asked' = NoEdit /\ UNCHANGED <<mods, applied, missed>>
PlayerOnly == UNCHANGED <<mcmOpen, retries, opens, failures, complete>>
MouseFree == mcmOpen /\ panel.grip["drag"] = NoGrip

(* A toggle flips, or an option of a dropdown is picked. *)
Click ==
  /\ MouseFree
  /\ \E pos \in RowsOf(panel, {"toggle"}), v \in Values :
       /\ panel' = WithValue(panel, panel.current, pos, v)
       /\ EmitValue(panel', panel.current, pos)
  /\ PlayerOnly

(* Mutant: X changes the row and reports nothing. *)
QuietResetHovered ==
  /\ mcmOpen /\ ~panel.searching
  /\ \E pos \in RowsOf(panel, {"toggle", "slider"}) :
       panel' = WithValue(panel, panel.current, pos,
                          CachedItem(panel, panel.current, pos).def)
  /\ NoEmit /\ PlayerOnly

(* X over a row: back to the default, unless it is there already. *)
ResetHovered ==
  /\ mcmOpen /\ ~panel.searching
  /\ \E pos \in RowsOf(panel, {"toggle", "slider"}) :
       LET item == CachedItem(panel, panel.current, pos) IN
       /\ item.value # item.def
       /\ panel' = WithValue(panel, panel.current, pos, item.def)
       /\ EmitValue(panel', panel.current, pos)
  /\ PlayerOnly

(* The mouse takes a slider's knob. *)
StartDrag ==
  /\ MouseFree
  /\ \E pos \in RowsOf(panel, {"slider"}), v \in Values :
       panel' = TakeHold(panel, "drag", pos, v)
  /\ NoEmit /\ PlayerOnly

(* An arrow key goes down; one still held ends first, and reports. *)
KeyStepStart ==
  /\ mcmOpen /\ ~panel.searching
  /\ \E pos \in RowsOf(panel, {"slider"}), v \in Values :
       panel' = TakeHold(LetGo(panel, "key"), "key", pos, v)
  /\ IF Moved(panel, "key")
       THEN EmitValue(panel, panel.grip["key"].mod, panel.grip["key"].pos)
       ELSE NoEmit
  /\ PlayerOnly

(* A held slider moves; nothing is reported yet. *)
Slide ==
  /\ mcmOpen
  /\ \E g \in Grips, v \in Values :
       /\ panel.grip[g] # NoGrip
       /\ panel' = WithValue(panel, panel.grip[g].mod, panel.grip[g].pos, v)
  /\ NoEmit /\ PlayerOnly

(* endDrag or keyStepEnd: the slider is let go, and reports if it moved. *)
Release ==
  /\ mcmOpen
  /\ \E g \in Grips :
       /\ panel.grip[g] # NoGrip
       /\ panel' = LetGo(panel, g)
       /\ IF Moved(panel, g)
            THEN EmitValue(panel, panel.grip[g].mod, panel.grip[g].pos)
            ELSE NoEmit
  /\ PlayerOnly

SelectMod ==
  /\ MouseFree
  /\ \E k \in DOMAIN panel.cache : panel' = ShowMod(panel, panel.cache[k].id)
  /\ NoEmit /\ PlayerOnly

FocusSearch ==
  /\ MouseFree /\ ~panel.searching
  /\ panel' = [panel EXCEPT !.searching = TRUE]
  /\ NoEmit /\ PlayerOnly

(* A mod that owns a value changes it by itself. *)
OwnerChanges ==
  /\ \E s \in Owned, v \in Values : applied' = [applied EXCEPT ![s] = v]
  /\ asked' = NoEdit
  /\ UNCHANGED <<mods, mcmOpen, retries, panel, opens, failures, complete, missed>>

Next ==
  \/ OpenMCM \/ RunTask \/ CloseMCM \/ PressEscape
  \/ Click \/ ResetHovered \/ StartDrag \/ KeyStepStart \/ Slide \/ Release
  \/ SelectMod \/ FocusSearch \/ OwnerChanges

Spec == Init /\ [][Next]_vars

(* Every frame of the game runs the tasks that wait. *)
Fairness == WF_vars(RunTask)
FairSpec == Spec /\ Fairness
-----------------------------------------------------------------------------
CachedItems ==
  UNION {{<<k, j>> : j \in DOMAIN panel.cache[k].items} : k \in DOMAIN panel.cache}
Cached(p) == panel.cache[p[1]].items[p[2]]
CachedSettings ==
  {<<panel.cache[p[1]].id, Cached(p).id>> :
     p \in {q \in CachedItems : Cached(q).kind # "cat"}}

(* The shape of the model, the panel and the queue: at most one retry waits *)
(* per opening, and an attempt is never counted past 3.                     *)
McmTypeOK ==
  /\ \A p \in Places(mods) :
       /\ SettingAt(mods, p) \in Settings
       /\ mods[p[1]].items[p[2]].val \in Values
  /\ \A p \in CachedItems : Cached(p).kind # "cat" => Cached(p).value \in Values
  /\ mcmOpen \in BOOLEAN /\ complete \in BOOLEAN
  /\ retries \in Seq(1..3) /\ Len(retries) <= opens
  /\ opens \in 0..MaxOpens /\ failures \in 0..MaxFailures
  /\ applied \in [Settings -> Values \cup {Unset}]
  /\ missed \subseteq Settings

(* "indices mirror the push order" (plugin.cpp): every row of the panel     *)
(* reports a position that holds its own setting in the plugin's model.     *)
IndicesMirror ==
  \A p \in CachedItems :
    LET m == panel.cache[p[1]] IN
    Cached(p).kind # "cat" =>
      /\ InRange(mods, m.idx, Cached(p).idx)
      /\ SettingAt(mods, <<m.idx + 1, Cached(p).idx + 1>>) = <<m.id, Cached(p).id>>

(* However the three sources overlap, the model holds a setting once: the   *)
(* value an edit stores is the value the next rebuild restores.             *)
HeldOnce == Cardinality(Places(mods)) = Cardinality(Declared(mods))

(* After a push without a failed call the panel offers exactly the settings *)
(* of the model, each reporting its own place, also when earlier pushes of  *)
(* this or an older model were incomplete and whatever the player held.     *)
FaithfulPanel ==
  /\ McmTypeOK
  /\ HeldOnce
  /\ complete => IndicesMirror /\ CachedSettings = Declared(mods)

(* Toggles and dropdowns show what the plugin stored, under a complete push *)
(* and any order of clicks, resets, retried pushes and openings.            *)
TogglesShowStored ==
  complete =>
    \A p \in CachedItems :
      Cached(p).kind = "toggle" =>
        Cached(p).value = ItemOf(mods, <<panel.cache[p[1]].id, Cached(p).id>>).val

(* "Broadcast [...] on every setting mutation" (MCM_API.h): a slider that   *)
(* nobody holds any more shows the value that was stored and broadcast.     *)
SlidersShowStored ==
  (complete /\ \A g \in Grips : panel.grip[g] = NoGrip) =>
    \A p \in CachedItems :
      Cached(p).kind = "slider" =>
        Cached(p).value = ItemOf(mods, <<panel.cache[p[1]].id, Cached(p).id>>).val

(* The menu and the mods agree: a setting that was declared on every        *)
(* rebuild since its last edit stands in the model with the value its mod   *)
(* was told, even if the edit went through a stale panel.                   *)
MenuAgreesWithMods ==
  \A s \in Declared(mods) \ (Owned \cup missed) : ItemOf(mods, s).val = applied[s]

(* Opening the menu shows a reported value, never the snapshot of an older  *)
(* session value of the same setting.                                       *)
LiveValuesShown ==
  [][opens' # opens =>
       \A s \in Declared(mods') :
         ItemOf(mods', s).live => ItemOf(mods', s).val = applied[s]]_vars

(* A failed call never leaves the panel incomplete for good: the retries    *)
(* bring the rest, whether the menu is closed, edited or opened meanwhile.  *)
PushRecovers == ~complete ~> complete

(* The menu is a table of settings for the session, whose edits are exact   *)
(* whenever the last push was complete.                                     *)
Session == INSTANCE McmSession WITH
  Settings <- Settings, Values <- Values, Owned <- Owned, NoEdit <- NoEdit,
  declared <- [s \in Declared(mods) |-> ItemOf(mods, s).val], asked <- asked,
  filled <- complete
ImplementsSession == Session!Spec
=============================================================================
