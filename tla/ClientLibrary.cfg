SPECIFICATION MCSpec
CONSTANTS
  MaxKey = 7
  BatchSize = 2
  MaxBlocks = 1
  MaxHead = 9
  Keys = {k1, k2}
  Values = {0, 1, 2}
  Empty = 0
  MaxTxs = 2
  MaxBlock = 3
  CodeLengths = {0, 1, 15, 16, 255, 256, 257, 4096, 24576, 65535, 65536}
INVARIANTS
  ListsLastingKeys
  ListsAllKeys
  FoundIsDeployment
  MissedOnlyLater
  StorageDiffIsExact
  TxsDiffCoversStorageDiff
  UpdatesOnlyMigrated
  DiffsStartAtBlocks
PROPERTIES
  PagingEnds
  SearchEnds
  CallbacksEnd
  DeploysTheCode
CHECK_DEADLOCK FALSE
