CONSTANTS
  Node <- AllNodes
  MaxThreads = 2
  Builds <- AllBuilds
SPECIFICATION Spec
INVARIANTS NoRunBelowFailure OneResultPerNode
PROPERTIES Termination KeepsPromise ReportsAreFinal
