SPECIFICATION FairSpec
CONSTANTS
  Bytes32 = 2
  Bytes64 = 3
  Schema <- CodecSchema
  GetByteSize <- CodecByteSize
  Values <- CodecValues
  Nothing = Nothing
  Unspecified <- CodecUnspecified
  Objects <- CodecObjects
  MaxRounds = 2
INVARIANTS
  TesterAsserts
PROPERTIES
  ImplementsChannel
CHECK_DEADLOCK FALSE
