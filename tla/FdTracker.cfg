SPECIFICATION Spec
CONSTANTS
  Threads = {t1, t2}
  Fd <- MCFd
  TableSize = 1
  Paths <- MCPaths
  Has <- MCHas
  OtherOpeners = {"dup"}
  OtherClosers = {"dup2"}
  MayFail = {"close"}
INVARIANTS
  TypeOK
  TablesFollowKernel
  SensitiveReadsSanitized
  OtherReadsUntouched
SYMMETRY ThreadSymmetry
