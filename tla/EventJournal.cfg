SPECIFICATION FairSpec
CONSTANTS
  Browsers = {b}
  Attached = {u}
  MaxLines = 2
  MaxBytes = 2
  Sizes = {1, 3}
  MaxEvents = 3
  MaxEpoch = 2
INVARIANT
  WindowExact
PROPERTIES
  ImplementsEventLog
  ReadersGoOn
