CONSTANTS
  MaxQ = 3
  MaxAttempts = 2
  Pipe = 1
  Sample = 1
  Plans <- Sessions
SPECIFICATION Spec
PROPERTY SuccessMeansExecuted
PROPERTY OwnOutcome
PROPERTY QueriesReturn
CHECK_DEADLOCK FALSE
