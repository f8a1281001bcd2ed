SPECIFICATION Spec
CONSTANTS
  Arena <- MCArena
  Cases <- MCCases
  AdrBits = 17
  PageBits = 8
  HalfBits = 8
  DispBits = 20
CHECK_DEADLOCK FALSE
INVARIANTS
  TypeOK
  CallReachesHook
  CopyFitsBlock
  AtInstruction
PROPERTIES
  ImplementsOriginal
  CallsGetThrough
