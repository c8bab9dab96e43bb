SPECIFICATION FairSpec
CONSTANTS
  AllObjects <- EncoderObjects
  FaithfulObjects <- EncoderFaithful
  Bytes32 = 2
  Bytes64 = 3
  Schema <- EncoderSchema
  GetByteSize <- EncoderByteSize
  Messages <- EncoderMessages
  Builds = {TRUE, FALSE}
  Capacity = 15
  MaxCalls = 2
INVARIANTS
  TypeOK
  WithinReservation
  LengthPrefixesExact
  EncodesFormatIfWrittenWell
  SizesAgree
  CountsRight
  StopsOnlyIfMisused
PROPERTIES
  Returns
CHECK_DEADLOCK FALSE
