SPECIFICATION MCSpec
CONSTANTS
  Keys = {k1, k2}
  Values = {0, 1}
  Empty = 0
  NoRoot = NoRoot
  p1 = p1
  p2 = p2
  Proxies = {p1, p2}
  Wired = {p1, p2}
  RelayProxies = {p1}
  BlockHashWindow = 2
  MaxSrcBlock = 3
  MaxTgtBlock = 12
  RelayTgtBlocks = 3
  ClientSrcBlocks = 2
  Placeholder <- MatchingPlaceholder
  Addresses <- MCAddresses
  MaxAttempts = 2
  MaxDisturbances = 1
  KeyList = {k1}
  NoProxy = NoProxy
  MaxCommands = 2
INVARIANTS
  DemoTypeOK
  LatestRootIsNewest
  RecordedRootIsSourceRoot
  RecordedRootWasShown
  PatientCopyIsComplete
PROPERTIES
  DemoMigrates
CHECK_DEADLOCK FALSE
