SPECIFICATION FairReaderSpec
CONSTANTS
  Byte <- MCBytes
  NL = "n"
  TracerPid = "T"
  Zero = "0"
  Blank = " "
  Dirty <- MCDirty
  Inputs <- MCInputs
  Files <- MCFiles
INVARIANTS
  TypeOK
  ReturnsKeptBytes
  WholeLinesFiltered
  TracerHidden
PROPERTIES
  ImplementsContract
  ReaderFinishes
CHECK_DEADLOCK FALSE
