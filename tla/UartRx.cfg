\* A ring of four bytes behind a FIFO of two: it wraps, fills up and refuses.
SPECIFICATION FairSpec
CONSTANTS
  Size = 4
  FifoLen = 2
  FullThresh = 2
  DeqMax = 2
  MaxBytes = 7
INVARIANTS
  InOrder
PROPERTIES
  ImplementsByteStream
  HandlerReturns
  AllDelivered
CHECK_DEADLOCK FALSE
