------------------------------ MODULE BrewPlan ------------------------------
(***************************************************************************)
(* Executor::BuildPlan: from the rows of a recipe, which the parser of the *)
(* step conditions filled in, to the operations that brew it, with the     *)
(* mistakes MistakeEngine may add on the way.                              *)
(*                                                                         *)
(* A recipe is [rows, distill, resultMilled]; a row is                     *)
(*   [id, qty, milled, mustNotMill, weak, strong]                          *)
(* where weak and strong are turns of boiling, or -1 without a condition.  *)
(* Windows are in turns; the fractions of a second taken off a window for  *)
(* the swing of the kettle are left out.                                   *)
(***************************************************************************)
EXTENDS Integers, FiniteSets, SequencesExt

(* No plan: an empty one, which BuildPlan never makes otherwise. *)
Refused == << >>

(* Longest first: by the weak target, then by the strong one, else as the   *)
(* recipe lists them.                                                       *)
Before(a, b) == a.weak > b.weak \/ (a.weak = b.weak /\ a.strong > b.strong)
Place(rows, i) ==
  Cardinality({j \in DOMAIN rows : Before(rows[j], rows[i])
                                   \/ (~Before(rows[i], rows[j]) /\ j <= i)})

(* Mutant: rows are prepared in the order of the recipe. *)
UnsortedSorted(rows) == rows

Sorted(rows) ==
  [k \in DOMAIN rows |-> rows[CHOOSE i \in DOMAIN rows : Place(rows, i) = k]]

(* What goes into the pot later boils no longer than what is in it. *)
Schedulable(rows) ==
  \A i, j \in DOMAIN rows :
    i < j => /\ rows[j].weak >= 0 /\ rows[i].weak >= 0 => rows[i].weak >= rows[j].weak
             /\ rows[j].strong >= 0 /\ rows[i].strong >= 0 => rows[i].strong >= rows[j].strong

(* A row without a condition inherits the next one that has one; a window   *)
(* is what one row boils longer than the row after it.                      *)
Inherited(targets, i) ==
  LET later == {j \in DOMAIN targets : j >= i /\ targets[j] >= 0} IN
  IF later = {} THEN 0 ELSE targets[CHOOSE j \in later : \A k \in later : j <= k]
Window(targets, i) ==
  Inherited(targets, i) -
    IF i < Len(targets) THEN Inherited(targets, i + 1) ELSE 0
-----------------------------------------------------------------------------
(* Mistakes.  mode is the MCM setting: "off", "normal" or "hardcore". *)

(* A row may be ground or not against its condition, and be one unit short  *)
(* if it has two, or one over if the player holds a spare one.              *)
SlippedRow(row, have) ==
  {[row EXCEPT !.milled = g, !.qty = q] :
     g \in {row.milled} \cup (IF row.milled THEN {FALSE} ELSE {row.mustNotMill}),
     q \in {row.qty}
           \cup (IF row.qty >= 2 THEN {row.qty - 1} ELSE {})
           \cup (IF have[row.id] >= row.qty + 1 THEN {row.qty + 1} ELSE {})}

RollSlips(rows, have, mode) ==
  IF mode = "off" THEN {rows}
  ELSE {s \in [DOMAIN rows -> UNION {SlippedRow(rows[i], have) : i \in DOMAIN rows}] :
          \A i \in DOMAIN rows : s[i] \in SlippedRow(rows[i], have)}

(* One turn more or less stands for the jitter of a window. *)
PerturbWindow(w, mode) == IF mode = "off" \/ w <= 0 THEN {w} ELSE {w - 1, w, w + 1}

MayRoll(mode) == IF mode = "hardcore" THEN BOOLEAN ELSE {FALSE}

(* StockStations brings one stack of each row to the table: the fresh one,  *)
(* without it the dried one; a sloppy brewer may take the dried one anyway. *)
StockStations(fresh, dried, mode) ==
  {IF fresh > 0 THEN fresh ELSE dried}
  \cup (IF mode # "off" /\ dried > 0 THEN {dried} ELSE {})
-----------------------------------------------------------------------------
(* Operations. *)

DoVerb(verb) == [kind |-> "DoVerb", verb |-> verb]
Op(kind) == [kind |-> kind]
TakeIngredient(id) == [kind |-> "TakeIngredient", ing |-> id]
Boil(strong, turns) ==
  [kind |-> IF strong THEN "BoilStrong" ELSE "BoilWeak", target |-> turns]

Repeated(ops, n) == [k \in 1..n * Len(ops) |-> ops[((k - 1) % Len(ops)) + 1]]

Preparation(row) ==
  Repeated(<<TakeIngredient(row.id),
             DoVerb(IF row.milled THEN "UseMortar" ELSE "UsePot")>>, row.qty)
  \o IF row.milled THEN <<DoVerb("UseMortar"), DoVerb("UsePot")>> ELSE << >>

(* The windows of a stage, weak heat first; swap boils at the wrong heat. *)
Boiling(w, s, swap) ==
  IF w <= 0 /\ s <= 0 THEN << >>
  ELSE <<Op("SetPotOnFire")>>
       \o (IF w > 0 THEN <<Boil(swap, w)>> ELSE << >>)
       \o (IF s > 0 THEN <<Boil(~swap, s)>> ELSE << >>)
       \o <<Op("TakePotOffFire")>>

Finish(distill, resultMilled) ==
  IF resultMilled THEN <<DoVerb("UseMortar")>>
  ELSE <<Op("EnsureHoldPot"), DoVerb(IF distill THEN "Distill" ELSE "UsePot")>>

(* Every way to boil a stage with the mistakes of the mode: only a stage    *)
(* with one window may take the wrong heat.                                 *)
Stages(row, w, s, mode) ==
  {Preparation(row) \o Boiling(h[1], h[2], h[3]) :
     h \in {x \in PerturbWindow(w, mode) \X PerturbWindow(s, mode) \X MayRoll(mode) :
              x[3] => (x[1] > 0) # (x[2] > 0)}}

(* The base, then stage after stage: rows says how long each boils, slipped *)
(* how it is put in.                                                        *)
Emitted(rows, slipped, mode) ==
  LET weaks   == [i \in DOMAIN rows |-> rows[i].weak]
      strongs == [i \in DOMAIN rows |-> rows[i].strong]
      plans[n \in 0..Len(rows)] ==
        IF n = 0 THEN {<<DoVerb("PourBase")>>}
        ELSE {p \o st : p \in plans[n - 1],
                        st \in Stages(slipped[n], Window(weaks, n), Window(strongs, n), mode)}
  IN plans[Len(rows)]

Finishes(recipe, mode) ==
  {Finish(recipe.distill /\ ~skip, recipe.resultMilled /\ ~skip) : skip \in MayRoll(mode)}

(* Everything BuildPlan may return for a recipe. *)
BuildPlan(recipe, have, mode) ==
  LET rows == Sorted(recipe.rows) IN
  IF ~Schedulable(rows) \/ (recipe.distill /\ recipe.resultMilled)
    THEN {Refused}
    ELSE UNION {{p \o f : p \in Emitted(rows, slipped, mode), f \in Finishes(recipe, mode)} :
                  slipped \in RollSlips(rows, have, mode)}
=============================================================================
