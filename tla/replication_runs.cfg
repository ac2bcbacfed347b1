CONSTANTS
  Objects = {"a", "b"}
  Plans <- AllPlans
SPECIFICATION Spec
INVARIANTS SuccessIsComplete ChunksReplace EveryStreamCounted RunsShowOutcome
