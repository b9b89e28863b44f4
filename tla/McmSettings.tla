---------------------------- MODULE McmSettings ----------------------------
(***************************************************************************)
(* The settings model of the Mod Configuration Menu: g_mods of             *)
(* configmanager.h, rebuilt from three sources whenever the menu opens.    *)
(*                                                                         *)
(* A source contributes declarations, in order.  A declaration names an    *)
(* op ("mod", "item" or "live"), the mod, and what the op needs:           *)
(*   mod  - a display name: a rank, or NoName for an empty one             *)
(*   item - the kind ("cat", "toggle" or "slider"; a dropdown reports its  *)
(*          value the way a toggle does), the id and the default           *)
(*   live - an id whose current value the source reports (SetValue)        *)
(* A setting is a pair <<mod id, item id>>.                                *)
(***************************************************************************)
EXTENDS Integers, FiniteSets, SequencesExt

CONSTANTS
  ModIds,
  ItemIds,
  Values,
  Placeholder,    \* Placeholder[m]: the rank of the id of m used as a name
  NoName

ASSUME PlaceholderAssumption == Placeholder \in [ModIds -> Int] /\ NoName \notin Int

Kinds == {"cat", "toggle", "slider"}
Declarations ==
  [op: {"mod"}, mod: ModIds, name: Int \cup {NoName}]
    \cup [op: {"item"}, mod: ModIds, kind: Kinds, id: ItemIds, def: Values]
    \cup [op: {"live"}, mod: ModIds, id: ItemIds]

FindMod(ms, m) == SelectInSeq(ms, LAMBDA r : r.id = m)
FindItem(items, i) == SelectInSeq(items, LAMBDA e : e.kind # "cat" /\ e.id = i)

GetOrAddMod(ms, m, name) ==
  LET k == FindMod(ms, m) IN
  IF k = 0
    THEN Append(ms, [id    |-> m,
                     name  |-> IF name = NoName THEN Placeholder[m] ELSE name,
                     items |-> << >>])
    ELSE IF name \in {NoName, Placeholder[m]} THEN ms
         ELSE [ms EXCEPT ![k].name = name]

NewItem(d) ==
  [kind |-> d.kind, id |-> d.id, def |-> d.def, val |-> d.def, live |-> FALSE]

(* Mutant: a second definition of an id is listed again. *)
RepeatingAddItem(ms, m, item) ==
  LET grown == GetOrAddMod(ms, m, NoName)
      k     == FindMod(grown, m) IN
  [grown EXCEPT ![k].items = Append(@, item)]

(* The first definition of an id wins; categories always append. *)
AddItem(ms, m, item) ==
  LET grown == GetOrAddMod(ms, m, NoName)
      k     == FindMod(grown, m) IN
  IF item.kind # "cat" /\ FindItem(grown[k].items, item.id) # 0
    THEN grown
    ELSE [grown EXCEPT ![k].items = Append(@, item)]

SetItemValue(ms, m, i, v) ==
  LET grown == GetOrAddMod(ms, m, NoName)
      k     == FindMod(grown, m)
      j     == FindItem(grown[k].items, i) IN
  IF j = 0 THEN grown
  ELSE [grown EXCEPT ![k].items[j].val = v, ![k].items[j].live = TRUE]

(* What one declaration does; live[s] is what its source reports for s. *)
Declare(ms, d, live) ==
  CASE d.op = "mod"  -> GetOrAddMod(ms, d.mod, d.name)
    [] d.op = "item" -> AddItem(ms, d.mod, NewItem(d))
    [] d.op = "live" -> SetItemValue(ms, d.mod, d.id, live[<<d.mod, d.id>>])

(* The places of the model that hold a setting, and the settings they hold. *)
Places(ms) ==
  UNION {{<<k, j>> : j \in {n \in DOMAIN ms[k].items : ms[k].items[n].kind # "cat"}}
           : k \in DOMAIN ms}
SettingAt(ms, p) == <<ms[p[1]].id, ms[p[1]].items[p[2]].id>>
Declared(ms) == {SettingAt(ms, p) : p \in Places(ms)}
ItemOf(ms, s) ==
  LET k == FindMod(ms, s[1]) IN ms[k].items[FindItem(ms[k].items, s[2])]

SnapshotValues(ms) == [s \in Declared(ms) |-> ItemOf(ms, s).val]

(* Mutant: the snapshot wins over what a source reports as live. *)
ClobberingApplyValues(ms, snap) ==
  [k \in DOMAIN ms |->
     [ms[k] EXCEPT !.items =
        [j \in DOMAIN @ |->
           LET item == ms[k].items[j]
               s    == <<ms[k].id, item.id>> IN
           IF item.kind # "cat" /\ s \in DOMAIN snap
             THEN [item EXCEPT !.val = snap[s]]
             ELSE item]]]

(* Mutant: a rebuild starts from the defaults. *)
ForgettingApplyValues(ms, snap) == ms

(* Session values return to the settings no source reported a value for. *)
ApplyValues(ms, snap) ==
  [k \in DOMAIN ms |->
     [ms[k] EXCEPT !.items =
        [j \in DOMAIN @ |->
           LET item == ms[k].items[j]
               s    == <<ms[k].id, item.id>> IN
           IF item.kind # "cat" /\ ~item.live /\ s \in DOMAIN snap
             THEN [item EXCEPT !.val = snap[s]]
             ELSE item]]]

(* std::sort by name: mods of equal names may come out in any order. *)
SortedOrders(ms) ==
  {o \in SetToSeqs(ToSet(ms)) :
     \A k \in DOMAIN o : k > 1 => o[k - 1].name <= o[k].name}

(* What declarations amount to, one after the other. *)
Built(decls, live) ==
  LET after[n \in 0..Len(decls)] ==
        IF n = 0 THEN << >> ELSE Declare(after[n - 1], decls[n], live)
  IN after[Len(decls)]

(* Everything a rebuild of ms may produce from the three sources. *)
Rebuilt(ms, xml, cpp, lua, live) ==
  SortedOrders(ApplyValues(Built(xml \o cpp \o lua, live), SnapshotValues(ms)))

(* HandleValueChanged stores a value by position, counted from 0. *)
InRange(ms, modIdx, itemIdx) ==
  /\ modIdx + 1 \in DOMAIN ms
  /\ itemIdx + 1 \in DOMAIN ms[modIdx + 1].items
  /\ ms[modIdx + 1].items[itemIdx + 1].kind # "cat"

Stored(ms, modIdx, itemIdx, v) ==
  [ms EXCEPT ![modIdx + 1].items[itemIdx + 1].val = v]
=============================================================================
