SPECIFICATION SynchSpec
CONSTANTS
  Keys = {k1, k2}
  Values = {0, 1}
  Empty = 0
  NoRoot = NoRoot
  Proxies = {p1}
  Wired = {p1}
  Proxy = p1
  BlockHashWindow = 2
  MaxSrcBlock = 3
  MaxTgtBlock = 2
  Runs <- MCOneRun
  InterfaceMatches = FALSE
  MaxPending = 4
  MaxFaults = 0
PROPERTIES
  ChangesReachProxy
