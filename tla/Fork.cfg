SPECIFICATION MCSpec
CONSTANTS
  Keys = {k1, k2}
  Values = {0, 1}
  Empty = 0
  NoRoot = NoRoot
  p1 = p1
  p2 = p2
  Proxies = {p1, p2}
  Wired = {p1, p2}
  BlockHashWindow = 1
  MaxSrcBlock = 3
  ForkSrcBlocks = 2
  SerialProxies = {p1}
  SerialTgtBlocks = 2
  FinalityLag = 1
  MaxTgtBlock = 15
  Placeholder <- MatchingPlaceholder
  Addresses <- MCAddresses
  MaxAttempts = 2
  MaxDisturbances = 1
  MaxPairs = 2
INVARIANTS
  ForkTypeOK
  MigratedCopyIsComplete
  MirrorsRecordedBlock
PROPERTIES
  ForkEnds
  ForkSucceeds
  ImplementsMirror
CHECK_DEADLOCK FALSE
