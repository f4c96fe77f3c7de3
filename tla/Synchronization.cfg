SPECIFICATION SynchSpec
CONSTANTS
  Keys = {k1}
  Values = {0, 1}
  Empty = 0
  NoRoot = NoRoot
  Proxies = {p1}
  Wired = {p1}
  Proxy = p1
  BlockHashWindow = 2
  MaxSrcBlock = 3
  MaxTgtBlock = 2
  Runs <- MCTwoRuns
  InterfaceMatches = TRUE
  MaxPending = 4
  MaxFaults = 1
INVARIANTS
  SynchTypeOK
  SuccessIsNotUndone
PROPERTIES
  WritesAreOfNewestBlock
  ChangesReachProxy
  ProxyFollowsSource
