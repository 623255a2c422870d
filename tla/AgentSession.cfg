SPECIFICATION FairSpec
CONSTANTS
  MaxRun = 2
  MaxCompact = 2
  MaxModel = 2
  Threads = {t1, t2, t3}
INVARIANTS
  ProviderBorrowSafe
  CancelReachesOnlyItsTarget
PROPERTIES
  CancelsDrain
