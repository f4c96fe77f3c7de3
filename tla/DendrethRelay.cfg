SPECIFICATION BuiltSpec
CONSTANTS
  Keys = {k1, k2}
  Values = {0, 1}
  Empty = 0
  NoRoot = NoRoot
  Proxies = {p1}
  Wired = {p1}
  BlockHashWindow = 2
  MaxSrcBlock = 2
  MaxTgtBlock = 2
  FinalityLag = 0
SYMMETRY SlotSymmetry
INVARIANTS
  RecordedRootIsGenuine
PROPERTIES
  VerifiedUpdateIsComplete
