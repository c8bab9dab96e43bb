SPECIFICATION Spec
CONSTANTS
  AllObjects <- EncoderObjects
  FaithfulObjects <- EncoderFaithful
  Bytes32 = 2
  Bytes64 = 3
  Schema <- EncoderSchema
  GetByteSize <- EncoderByteSize
  Messages <- HighMessages
  Builds = {TRUE}
  Capacity = 15
  MaxCalls = 1
INVARIANTS
  SizesAgree
CHECK_DEADLOCK FALSE
