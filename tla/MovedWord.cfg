SPECIFICATION TreeSpec
CONSTANTS
  BranchSize = 2
  Digits = {0, 1}
  Slots <- WordSlots
  OldWords = {word}
  NewWords = {word}
  ZeroWord = ZeroWord
  Garbage = Garbage
  MaxChanged = 3
  MaxAsked = 3
PROPERTIES
  RecordsItsRoot
CHECK_DEADLOCK FALSE
