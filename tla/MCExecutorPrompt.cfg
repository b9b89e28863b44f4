SPECIFICATION Spec
CONSTANTS
  Recipes <- MCRecipes
  StallLimit = 2
  BoilLimit = 2
  MaxBatches = 2
  MaxActs = 4
INVARIANT StopHiddenWhenIdle
CHECK_DEADLOCK FALSE
