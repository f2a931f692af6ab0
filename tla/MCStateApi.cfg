CONSTANTS
  Modules = 2
  MaxDepth = 4
  MaxStatements = 2
  Raises = TRUE
SPECIFICATION Spec
INVARIANTS EndIsReported
PROPERTIES NothingEnteredAfterAbort FinishedForGood AbortedRunsStop
