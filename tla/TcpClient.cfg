\* The connection that carries the bytes, against every order of check_ip, timer and callbacks.
SPECIFICATION FairSpec
CONSTANT
  MaxReconnCount = 8
INVARIANTS
  ReadyHonest
PROPERTIES
  RetriesUntilRestart
