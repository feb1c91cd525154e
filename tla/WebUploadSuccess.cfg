\* A host alone with the module, that repeats an upload cut short.
SPECIFICATION Spec
CONSTANTS
  FileLen = 3
  Chunk = 2
  EraseUnit = 2
  MaxUnits = 6
  Polls = FALSE
INVARIANTS
  SuccessMeansExact
CHECK_DEADLOCK FALSE
