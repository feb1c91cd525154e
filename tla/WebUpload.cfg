\* One upload after another, aborted, repeated, mixed with other traffic.
SPECIFICATION FairSpec
CONSTANTS
  FileLen = 4
  Chunk = 2
  EraseUnit = 2
  MaxUnits = 6
  Polls = TRUE
INVARIANTS
  LockHasContext
  ErasedAhead
  CleanUploadExact
PROPERTIES
  LockReleased
CHECK_DEADLOCK FALSE
