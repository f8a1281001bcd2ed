SPECIFICATION FairSpec
CONSTANTS
  Thread = {t1, t2}
  Dir <- MCDirs
  NoDir = NoDir
  Fallback = Fallback
  Listings <- MCListings
  Files <- MCFiles
  Works <- MCWorks
  MaxCalls = 3
  MaxChanges = 1
INVARIANTS
  TypeOK
  InstalledOnce
  FlagNeverStuck
  FlagCoversLibrary
PROPERTIES
  CallsInstall
CHECK_DEADLOCK FALSE
