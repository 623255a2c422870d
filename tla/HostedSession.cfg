SPECIFICATION Spec
CONSTANTS
  MaxRun = 2
  MaxCompact = 2
  MaxModel = 1
  Requesters = {r1, r2}
  Interrupters = {i1, i2}
  MaxQueued = 2
  MaxWork = 2
  MaxTurns = 1
  WorkKinds = {"submission", "rerun", "command", "compact"}
  PromptKinds = {"permission", "question"}
  Faults = {"run", "malformed", "timeout"}
SYMMETRY Symmetry
INVARIANTS
  TypeOK
  KernelNeverRefuses
  AnswersMatch
PROPERTIES
  NoAnswerAfterStop
  ImplementsWorkQueue
