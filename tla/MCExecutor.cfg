SPECIFICATION FairSpec
CONSTANTS
  Recipes <- MCRecipes
  StallLimit = 2
  BoilLimit = 3
  MaxBatches = 2
  MaxActs = 5
PROPERTIES
  BatchVerdicts
  AbortsOnlyWhenStuck
  CookingEnds
CHECK_DEADLOCK FALSE
