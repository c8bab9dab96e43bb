SPECIFICATION FairSpec
CONSTANTS
  Bytes32 = 1
  Bytes64 = 2
  Schema <- DecoderSchema
  ReadObjects <- DecoderObjects
  Inputs <- DecoderInputs
  Targets <- DecoderTargets
  Unspecified <- DecoderUnspecified
  MaxCalls = 2
INVARIANTS
  TypeOK
  WindowsNested
  DecodeAgain
  DecodesFormat
  DecodesRegularFields
  FaultOnlyIfWildOrResumed
  StaleOnlyIfRecursive
PROPERTIES
  Returns
  ReadsForward
CHECK_DEADLOCK FALSE
