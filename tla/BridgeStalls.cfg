\* change.txt promises a restart when the server cannot be reached.
SPECIFICATION BridgeFairSpec
CONSTANTS
  ApCacheNumber = 2
  MaxServerFails = 1
  CountMod = 2
  MaxApChanges = 0
  MaxWifiLoss = 1
  UnaskedPing = FALSE
  MaxReconnCount = 1
PROPERTIES
  UnreachableRestarts
CHECK_DEADLOCK FALSE
