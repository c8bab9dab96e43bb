SPECIFICATION Spec
CONSTANTS
  Bytes32 = 1
  Bytes64 = 2
  Schema <- DecoderSchema
  ReadObjects <- TwinsObjects
  Inputs <- ResumedInputs
  Targets <- FreshTargets
  Unspecified <- DecoderUnspecified
  MaxCalls = 1
INVARIANTS
  FaultOnlyIfWild
CHECK_DEADLOCK FALSE
