CONSTANTS
  a = a
  b = b
  NoOne = NoOne
  handler = handler
  Streams = {a, b}
  First = a
  MaxRows = 3
  MaxFiles = 5
  Concurrency = 2
  Room = 1
  Loads = 2
  Plans <- AllLoads
SPECIFICATION Spec
INVARIANT MergedIsWhole
INVARIANT NoFalseAlarm
INVARIANT StagedFilesLast
INVARIANT NoLoadDuringAlter
PROPERTY ImportReturns
CHECK_DEADLOCK FALSE
