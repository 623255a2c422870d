\* Ctrl+C in the main thread m, any call from m and a second thread w.
SPECIFICATION FairSpec
CONSTANTS
  Threads = {m, w}
  Main = m
  MaxRun = 2
  MaxInput = 1
INVARIANT TypeOK
INVARIANT IdleMeansEnded
INVARIANT ReleasesOwnLock
INVARIANT ResultIsOwn
INVARIANT CoreCallsLegal
PROPERTY CloseReturns
