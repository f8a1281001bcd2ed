SPECIFICATION FairSpec
CONSTANTS
  Prefix <- MCPrefix
  NoName = NoName
  Inputs <- MCInputs
INVARIANTS
  TypeOK
  ListIsPlain
  ArrayIsPlain
  ResultIsPlain
  TunnelsHiddenEverywhere
PROPERTIES
  Terminates
CHECK_DEADLOCK FALSE
