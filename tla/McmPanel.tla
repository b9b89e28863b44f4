------------------------------ MODULE McmPanel ------------------------------
(***************************************************************************)
(* The flash side of the Mod Configuration Menu (flash/mcm.as): the cache  *)
(* the plugin fills call by call, the panel of rows built from it, and the *)
(* gestures on a slider that report their value only when they end.        *)
(*                                                                         *)
(* A panel is a record:                                                    *)
(*   cache     - the mods in order of arrival, each with its own items     *)
(*   current   - the id of the mod whose rows are shown, or NoMod          *)
(*   rows      - the places of its items that have a row                   *)
(*   grip      - the slider held by the mouse ("drag") and by an arrow key *)
(*               ("key"): [mod, pos, start], or NoGrip                     *)
(*   searching - the search box has the focus                              *)
(***************************************************************************)
EXTENDS McmSettings

CONSTANTS NoMod, NoGrip

ASSUME PanelAssumption == NoMod \notin ModIds

Grips == {"drag", "key"}

EmptyPanel ==
  [cache |-> << >>, current |-> NoMod, rows |-> {},
   grip |-> [g \in Grips |-> NoGrip], searching |-> FALSE]

(* clearPanel: the rows go, and with them a held slider, unreported. *)
Cleared(p) == [p EXCEPT !.rows = {}, !.grip = [g \in Grips |-> NoGrip]]

(* Mutant: the cache of the previous push stays. *)
KeepingBeginMods(p) == [Cleared(p) EXCEPT !.current = NoMod]

fc_beginMods(p) == [Cleared(p) EXCEPT !.cache = << >>, !.current = NoMod]

fc_addMod(p, m) ==
  [p EXCEPT !.cache = Append(@, [id |-> m, idx |-> Len(p.cache), items |-> << >>])]

(* fc_addCategory, fc_addToggle, fc_addDropdown and fc_addSlider. *)
fc_addItem(p, m, item) ==
  LET k == FindMod(p.cache, m) IN
  IF k = 0 THEN p
  ELSE [p EXCEPT !.cache[k].items =
          Append(@, [kind |-> item.kind, id |-> item.id, value |-> item.val,
                     def |-> item.def, idx |-> Len(p.cache[k].items)])]

ShowMod(p, m) ==
  LET k == FindMod(p.cache, m) IN
  IF k = 0 THEN p
  ELSE [Cleared(p) EXCEPT !.current = m, !.rows = DOMAIN p.cache[k].items]

fc_showMods(p) ==
  IF p.cache = << >> THEN Cleared(p) ELSE ShowMod(p, p.cache[1].id)

(* The calls of one push of a model: <<k, 0>> adds its k-th mod, <<k, j>>     *)
(* that mod's j-th item; one call comes before them and one after.           *)
BeginCall == <<0, 0>>
ShowCall(ms) == <<Len(ms) + 1, 0>>
PushCalls(ms) ==
  {BeginCall, ShowCall(ms)}
    \cup UNION {{<<k, j>> : j \in 0..Len(ms[k].items)} : k \in DOMAIN ms}

(* A failed call is skipped and the push goes on with the next.  The panel   *)
(* is carried along as the element of a singleton.                           *)
Unless(failure, p, q) == IF failure THEN p ELSE q

PushedMod(p, k, m, failed) ==
  LET added[j \in 0..Len(m.items)] ==
        IF j = 0 THEN {Unless(<<k, 0>> \in failed, p, fc_addMod(p, m.id))}
        ELSE {Unless(<<k, j>> \in failed, q, fc_addItem(q, m.id, m.items[j])) :
                q \in added[j - 1]}
  IN added[Len(m.items)]

PushedMods(p, ms, failed) ==
  LET pushed[k \in 0..Len(ms)] ==
        IF k = 0 THEN {p}
        ELSE UNION {PushedMod(q, k, ms[k], failed) : q \in pushed[k - 1]}
  IN pushed[Len(ms)]

Pushed(p, ms, failed) ==
  {Unless(ShowCall(ms) \in failed, q, fc_showMods(q)) :
     q \in PushedMods(Unless(BeginCall \in failed, p, fc_beginMods(p)), ms, failed)}

(* The item behind a row, the panel with a value in it, and what the row    *)
(* reports: positions counted from 0 in the order of arrival.               *)
CachedItem(p, m, pos) == p.cache[FindMod(p.cache, m)].items[pos]
WithValue(p, m, pos, v) ==
  [p EXCEPT !.cache[FindMod(p.cache, m)].items[pos].value = v]
RowsOf(p, kinds) == {pos \in p.rows : CachedItem(p, p.current, pos).kind \in kinds}

ModIdxOf(p, m) == p.cache[FindMod(p.cache, m)].idx

(* keyStepEnd and endDrag let go of the slider; it reports if it moved. *)
Moved(p, g) ==
  /\ p.grip[g] # NoGrip
  /\ CachedItem(p, p.grip[g].mod, p.grip[g].pos).value # p.grip[g].start
LetGo(p, g) == [p EXCEPT !.grip[g] = NoGrip]

(* keyStepStart and onPress take the slider and move it to v at once. *)
TakeHold(p, g, pos, v) ==
  [WithValue(p, p.current, pos, v) EXCEPT
     !.grip[g] = [mod |-> p.current, pos |-> pos,
                  start |-> CachedItem(p, p.current, pos).value]]
=============================================================================
