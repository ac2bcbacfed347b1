CONSTANTS
  Name = {1, 2, 3, 4}
  Project = {1, 2, 3}
  Target = {"pg", "duck"}
  NoTarget = "-"
  Single = {"duck"}
  Plans <- AllPlans
SPECIFICATION Spec
INVARIANTS OrderIsTopological SelectsAsAsked ProjectsReported
PROPERTY Returns
