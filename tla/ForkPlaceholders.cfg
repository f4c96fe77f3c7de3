SPECIFICATION MCSpec
CONSTANTS
  Keys = {k1, k2}
  Values = {0, 1}
  Empty = 0
  NoRoot = NoRoot
  p1 = p1
  p2 = p2
  Proxies = {p1, p2}
  Wired = {p1, p2}
  BlockHashWindow = 1
  MaxSrcBlock = 2
  ForkSrcBlocks = 2
  SerialProxies = {p1}
  SerialTgtBlocks = 2
  FinalityLag = 1
  MaxTgtBlock = 7
  Placeholder <- ConfigPlaceholder
  Addresses <- MCAddresses
  MaxAttempts = 1
  MaxDisturbances = 0
  MaxPairs = 2
PROPERTIES
  ForkSucceeds
CHECK_DEADLOCK FALSE
