SPECIFICATION Spec
CONSTANTS
  Kind = 2
  Kinds = 2
  GenerationSpan = 4
  SlotSpan = 4
  Values = {v1, v2}
  Vacant = Vacant
  MaxSlots = 3
  LastGeneration = 3
SYMMETRY MCValues
INVARIANTS
  FreeListExact
  OnlyListedResolve
  StaleNeverResolves
PROPERTY TableBetweenWraps
