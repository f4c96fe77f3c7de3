SPECIFICATION CodecSpec
CONSTANTS
  ByteStrings <- MCSingleBytes
  Words <- MCNoWords
  WordBytes = 2
  MaxItems = 2
INVARIANTS
  ReadsWhatWasWritten
CHECK_DEADLOCK FALSE
