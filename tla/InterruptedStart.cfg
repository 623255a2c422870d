\* Ctrl+C may also come while run() starts the Run's thread.
SPECIFICATION InterruptedSpec
CONSTANTS
  Threads = {m, w}
  Main = m
  MaxRun = 2
  MaxInput = 1
INVARIANT IdleMeansEnded
