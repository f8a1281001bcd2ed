SPECIFICATION FairSpec
CONSTANTS
  Pkg = {p1}
  Method = {"getNetworkInfo"}
  MAX_ENTRIES = 2
  MaxSends = 4
  MaxClock = 1
  Lossy = FALSE
  Crashes = FALSE
  Entry <- MCEntry
PROPERTY LoadedAppsGetListed
CHECK_DEADLOCK FALSE
