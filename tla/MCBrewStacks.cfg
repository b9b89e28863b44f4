SPECIFICATION KitchenSpec
CONSTANTS
  Herbs = {"a", "b", "c"}
  Orders <- MCSpareIsDried
  Nothing = "nothing"
INVARIANT TakesFindUnits
