CONSTANTS
  Keys = {"k1", "k2"}
  MaxVer = 3
  MaxRuns = 3
  Plans <- AllPlans
SPECIFICATION Spec
INVARIANTS FreshAfterSuccess RangeLoaded NeverWithoutData NoTempLeft
