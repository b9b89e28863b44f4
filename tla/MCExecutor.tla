----------------------------- MODULE MCExecutor -----------------------------
(***************************************************************************)
(* One recipe of one row that is boiled: a plan with every kind of         *)
(* operation; the refusals of BuildPlan are checked with BrewKitchen.      *)
(***************************************************************************)
EXTENDS Executor

MCRecipes ==
  {[rows |-> <<[id |-> "a", qty |-> 1, milled |-> FALSE, mustNotMill |-> FALSE,
                weak |-> -1, strong |-> 1]>>,
    distill |-> FALSE, resultMilled |-> FALSE]}
=============================================================================
