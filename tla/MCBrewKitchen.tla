--------------------------- MODULE MCBrewKitchen ---------------------------
(***************************************************************************)
(* All recipes of one row, of up to two units; of two rows of one unit     *)
(* with any two targets; and of three rows with any two orders of weak     *)
(* targets.  Mistakes are asked for with one row, and with two rows that   *)
(* share the fire.  The stacks of one row cover the recipe, fresh or       *)
(* dried, with a unit to spare or without, or only the two together do: a  *)
(* row is over-counted on the spare unit of either stack, and the dried    *)
(* stack that a sloppy brewer takes is too small.                          *)
(***************************************************************************)
EXTENDS BrewKitchen

RowsFor(id, qtys, grinds, weaks, strongs) ==
  {[id |-> id, qty |-> q, milled |-> g = 1, mustNotMill |-> g = 0, weak |-> w, strong |-> s] :
     q \in qtys, g \in grinds, w \in weaks, s \in strongs}

Targets == {-1, 1, 2}
Plain == {<<FALSE, FALSE>>}
AnyFinish == Plain \cup {<<TRUE, FALSE>>, <<FALSE, TRUE>>, <<TRUE, TRUE>>}

Of(rowss, finishes, modes, stacks) ==
  {[recipe |-> [rows |-> r, distill |-> f[1], resultMilled |-> f[2]],
    mode |-> m, fresh |-> n[1], dried |-> n[2]] :
     r \in rowss, f \in finishes, m \in modes, n \in stacks}

OneRow == {<<r>> : r \in RowsFor("a", {1, 2}, {-1, 0, 1}, Targets, Targets)}
TwoRows(targets, others) ==
  {<<r, t>> : r \in RowsFor("a", {1}, {-1}, targets, others),
              t \in RowsFor("b", {1}, {1}, targets, others)}
ThreeRows ==
  {<<r, t, u>> : r \in RowsFor("a", {1}, {-1}, Targets \cup {0}, {-1}),
                 t \in RowsFor("b", {1}, {-1}, Targets \cup {0}, {-1}),
                 u \in RowsFor("c", {1}, {-1}, Targets \cup {0}, {-1, 1})}

Stacks == {<<3, 0>>, <<0, 2>>, <<1, 1>>, <<2, 1>>}

MCOrders ==
  Of(OneRow, AnyFinish, {"off", "normal", "hardcore"}, Stacks)
  \cup Of(TwoRows(Targets, Targets), Plain, {"off"}, {<<1, 0>>})
  \cup Of(TwoRows({-1, 2}, {-1, 1}), Plain, {"normal", "hardcore"}, {<<1, 0>>})
  \cup Of(ThreeRows, AnyFinish, {"off"}, {<<1, 0>>})

(* The fresh stack alone covers the recipe; the spare unit is a dried one. *)
MCSpareIsDried ==
  Of({<<r>> : r \in RowsFor("a", {1}, {-1}, Targets, {-1})}, Plain, {"normal"}, {<<1, 1>>})
=============================================================================
