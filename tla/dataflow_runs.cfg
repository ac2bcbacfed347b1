CONSTANTS s1 = s1  s2 = s2  col = col  main = main  pusher = pusher  NoOne = NoOne
          Streams <- Two  Order <- TwoInOrder  Cols <- OneColumn  NRows = 3
          Plans <- Runs
SPECIFICATION Spec
INVARIANTS EveryRowOnce RowInItsBatch NoSendOnClosed
PROPERTIES NoRowDuringHandler PausedResumes
