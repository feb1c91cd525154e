\* Every setting; a session with two devices, of which the user asks for one, two or "any",
\* which is more than there are.
SPECIFICATION PhoneSpec
CONSTANTS
  Devices = {d1, d2}
  MaxSelected = 2
  Modes <- MCModes
  Ips <- MCIps
  Ports <- MCPorts
  Passwords <- MCPasswords
  Ssids <- MCSsids
  Bssid <- MCBssid
  PhoneIp <- MCPhoneIp
  Params <- MCParams
CHECK_DEADLOCK FALSE
INVARIANTS CodesSelfDescribing SettingsArrive ResultsAsPromised EarlyFailureIsCancelled
PROPERTIES BlocksUntilEnough SessionEnds
