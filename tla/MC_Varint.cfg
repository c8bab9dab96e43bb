SPECIFICATION FairSpec
CONSTANTS
  Bytes32 = 1
  Bytes64 = 2
  Codings <- AllCodings
  Numbers <- EdgeNumbers
INVARIANTS
  TypeOK
  SizeExact
  TransportExact
  ShiftDefined
  LoopsMatchWire
  IInv
  RoundTripUnlessNegativeSint
PROPERTIES
  Ends
CHECK_DEADLOCK FALSE
