\* Station and client together, small on both sides: two APs, one failure, one loss.
SPECIFICATION BridgeFairSpec
CONSTANTS
  ApCacheNumber = 2
  MaxServerFails = 1
  CountMod = 2
  MaxApChanges = 1
  MaxWifiLoss = 1
  UnaskedPing = FALSE
  MaxReconnCount = 1
PROPERTIES
  ImplementsTcpClient
  CloudRetryRevives
CHECK_DEADLOCK FALSE
