SPECIFICATION Spec
CONSTANTS
  Bytes32 = 1
  Bytes64 = 2
  Codings <- SintCodings
  Numbers <- EdgeNumbers
INVARIANTS
  RoundTrip
CHECK_DEADLOCK FALSE
