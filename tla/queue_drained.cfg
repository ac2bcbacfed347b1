CONSTANTS
  Stream = {1, 2, 3, 4}
  Process = {1, 2, 3, 4}
  Plans <- OneReader
SPECIFICATION Spec
INVARIANT DoneAndDrained
