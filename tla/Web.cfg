\* Every order of whole and split requests, settings, timer and scan results; two pages, the last one short.
SPECIFICATION WebSpec
CONSTANTS
  PageSize = 2
  MaxAps = 3
  Bodies <- MCBodies
  MaxWaiting = 2
  FactoryAp <- MCFactoryAp
  Pieces <- MCPieces
INVARIANTS
  ParserResyncs
  SettingsTaken
  PagesInStep
CHECK_DEADLOCK FALSE
