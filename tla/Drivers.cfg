\* Every driver on the bench, one at a time.
SPECIFICATION DriversSpec
CONSTANTS
  Divs <- MCDivs
  ResetRegs <- MCResetRegs
  Reads <- MCReads
  ChipSize = 32
  BufBytes = 8
  SpiBytes <- MCSpiBytes
  ResetPhases <- MCResetPhases
  SlaveWords = 3
  MaxPackets = 3
  Bytes <- MCBytes
  InitClocks = 28
  TxSize = 3
  TxFifoLen = 3
  TxThresh = 1
  TxLimit = 2
  MaxTx = 4
  Lists <- MCLists
  Hour = 2
  Week = 7
  Monday = 100
  BigWait = 1000
  MaxTime = 14
  Debounce = 2
  LongPress = 5
INVARIANTS
  SelectionExact
  FlashReadExact
  PhasesExact
  ExchangeExact
  TransferExact
  TxInOrder
  FinishedHonest
  TimersOnTime
  KeyHonest
PROPERTIES
  TxDrains
CHECK_DEADLOCK FALSE
