SPECIFICATION FairSpec
CONSTANTS
  MaxRun = 2
  MaxCompact = 2
  MaxModel = 1
  Requesters = {r1}
  Interrupters = {i1}
  MaxQueued = 2
  MaxWork = 2
  MaxTurns = 1
  WorkKinds = {"submission", "rerun", "compact"}
  PromptKinds = {"permission", "question"}
  Faults = {"run", "announce"}
PROPERTIES
  InterruptStopsRun
  CloseReturns
  AcceptedWorkIsDone
