SPECIFICATION Spec
CONSTANTS
  Bytes32 = 1
  Bytes64 = 2
  Schema <- TwinsSchema
  ReadObjects <- TwinsObjects
  Inputs <- TwinsInputs
  Targets <- TwinsTargets
  Unspecified <- DecoderUnspecified
  MaxCalls = 2
INVARIANTS
  DecodesMeaning
CHECK_DEADLOCK FALSE
