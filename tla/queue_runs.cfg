CONSTANTS
  Stream = {1, 2, 3, 4}
  Process = {1, 2, 3, 4}
  Plans <- AllPlans
SPECIFICATION Spec
INVARIANTS Broadcast ReadIsComplete
PROPERTY StreamsEnd
