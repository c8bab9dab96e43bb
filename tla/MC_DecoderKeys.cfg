SPECIFICATION Spec
CONSTANTS
  Bytes32 = 1
  Bytes64 = 2
  Schema <- DecoderSchema
  ReadObjects <- TwinsObjects
  Inputs <- KeyInputs
  Targets <- FreshTargets
  Unspecified <- DecoderUnspecified
  MaxCalls = 1
INVARIANTS
  DecodesMeaning
CHECK_DEADLOCK FALSE
