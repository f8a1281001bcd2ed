SPECIFICATION Spec
CONSTANTS
  Threads = {t1, t2}
  Idx <- MCIdx
  TableSize = 2
  Names = {"tun0", "wlan0"}
  Vpn = {"tun0"}
  None = None
  MaxBuf = 2
  MaxChanges = 1
INVARIANTS
  TypeOK
  NamedMessagesHidden
  OthersUntouched
PROPERTY
  AddressesFollowLinks
SYMMETRY ThreadSymmetry
CHECK_DEADLOCK FALSE
