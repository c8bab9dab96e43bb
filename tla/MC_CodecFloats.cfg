SPECIFICATION FairSpec
CONSTANTS
  Bytes32 = 2
  Bytes64 = 3
  Schema <- CodecSchema
  GetByteSize <- CodecByteSize
  Values <- FloatValues
  Nothing = Nothing
  Unspecified <- CodecUnspecified
  Objects <- NoObjects
  MaxRounds = 1
PROPERTIES
  ImplementsChannel
CHECK_DEADLOCK FALSE
