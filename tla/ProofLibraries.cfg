SPECIFICATION MCSpec
CONSTANTS
  Radix = 2
  PathLength = 4
  MaxEntries = 3
  Values = {v1, v2}
  ByteStrings <- MCByteStrings
  Words <- MCWords
  WordBytes = 2
  MaxItems = 2
  BranchSize = 3
  Digits = {0, 1}
  Slots <- MCSlots
  OldWords = {old}
  NewWords = {new}
  ZeroWord = ZeroWord
  Garbage = Garbage
  MaxChanged = 2
  MaxAsked = 2
SYMMETRY ValueSymmetry
INVARIANTS
  AcceptedIsInTrie
  EntryIsAccepted
  ReadsWhatWasWritten
  LeafHoldsItsWord
  ValueUpdatesAreAccepted
PROPERTIES
  CheckedUpdateIsComplete
  AdditionsArrive
CHECK_DEADLOCK FALSE
