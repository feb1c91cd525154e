\* Violated: a port of less than four hexadecimal digits.
SPECIFICATION PhoneSpec
CONSTANTS
  Devices = {d1}
  MaxSelected = 1
  Modes <- MCModes
  Ips <- MCIps
  Ports <- MCPorts
  Passwords <- MCPasswords
  Ssids <- MCSsids
  Bssid <- MCBssid
  PhoneIp <- MCPhoneIp
  Params <- MCParams
CHECK_DEADLOCK FALSE
INVARIANT PortArrives
