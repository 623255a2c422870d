SPECIFICATION Spec
CONSTANTS
  MaxRun = 2
  MaxCompact = 0
  MaxModel = 1
  Requesters = {r1}
  Interrupters = {i1}
  MaxQueued = 2
  MaxWork = 2
  MaxTurns = 1
  WorkKinds = {"submission"}
  PromptKinds = {"permission"}
  Faults = {}
INVARIANTS
  ReleasedMeansAborted
