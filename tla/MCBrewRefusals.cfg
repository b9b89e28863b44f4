SPECIFICATION KitchenSpec
CONSTANTS
  Herbs = {"a", "b", "c"}
  Orders <- MCOrders
  Nothing = "nothing"
INVARIANT RefusesUnschedulable
