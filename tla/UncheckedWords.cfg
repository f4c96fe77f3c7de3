SPECIFICATION FedSpec
CONSTANTS
  Keys = {k1}
  Values = {0, 1}
  Empty = 0
  NoRoot = NoRoot
  Proxies = {p1}
  Wired = {p1}
  BlockHashWindow = 1
  MaxSrcBlock = 2
  MaxTgtBlock = 3
PROPERTIES
  UpdateWritesAreProven
