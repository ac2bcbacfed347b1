CONSTANTS
  Node <- AllNodes
  MaxThreads = 2
  Builds <- TestBuilds
SPECIFICATION Spec
INVARIANT TestsEveryModel
