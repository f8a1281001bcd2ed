SPECIFICATION Spec
CONSTANTS
  Pkg = {p1, p2}
  Method = {"getNetworkInfo"}
  MAX_ENTRIES = 2
  MaxSends = 4
  MaxClock = 1
  Lossy = FALSE
  Crashes = FALSE
  Entry <- MCEntry
INVARIANT RowKeysAreUnique
CHECK_DEADLOCK FALSE
