CONSTANTS
  Objects = {"a", "b"}
  Plans <- ClearPlans
SPECIFICATION Spec
INVARIANT ClearedIsReloaded
