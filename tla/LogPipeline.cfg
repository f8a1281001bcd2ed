SPECIFICATION Spec
CONSTANTS
  Pkg = {p1, p2}
  Method = {"getNetworkInfo"}
  MAX_ENTRIES = 2
  MaxSends = 5
  MaxClock = 1
  Lossy = TRUE
  Crashes = TRUE
  Entry <- MCEntry
INVARIANTS
  TypeOK
  LogIsRecent
  LoggedAppsAreListed
SYMMETRY PkgSymmetry
CHECK_DEADLOCK FALSE
