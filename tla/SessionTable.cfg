SPECIFICATION FairTableSpec
CONSTANTS
  Ids = {a, b}
  Threads = {t1, t2, t3}
  MaxShells = 2
INVARIANTS
  TableTypeOK
  ReachableShellsAlive
  TableMatchesKernel
PROPERTIES
  ClosedShellIsFreed
