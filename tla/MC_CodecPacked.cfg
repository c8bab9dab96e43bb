SPECIFICATION Spec
CONSTANTS
  Bytes32 = 2
  Bytes64 = 3
  Schema <- CodecSchema
  GetByteSize <- CodecByteSize
  Values <- PackedValues
  Nothing = Nothing
  Unspecified <- CodecUnspecified
  Objects <- NoObjects
  MaxRounds = 1
INVARIANTS
  TesterAsserts
CHECK_DEADLOCK FALSE
