CONSTANTS
  Bytes32 = 2
  Bytes64 = 3
  Files <- MCFiles
SPECIFICATION FairSpec
INVARIANTS
  TypeOK
  OrderKept
  ConstructorsParse
  EachStructOnce
  CountsWhatIsWritten
PROPERTY Ends
CHECK_DEADLOCK FALSE
