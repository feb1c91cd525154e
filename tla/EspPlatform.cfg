\* The station life cycle with a cloud that may say anything; progress under the
\* fairness of the event loop and the SDK.
SPECIFICATION FairSpec
CONSTANTS
  ApCacheNumber = 3
  MaxServerFails = 3
  CountMod = 5
  MaxApChanges = 1
  MaxWifiLoss = 1
  UnaskedPing = TRUE
INVARIANTS
  FailuresChangeAp
  OnlineClosesSoftAp
  ApRoundRobin
  ParamDurable
  ConfiguredCanBoot
  NoBeaconInHandshake
  StatusHonest
PROPERTIES
  ServiceStarts
  RetryGoesOn
CHECK_DEADLOCK FALSE
