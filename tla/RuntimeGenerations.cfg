SPECIFICATION FairSpec
CONSTANTS
  Threads = {t1, t2}
  Sessions = {s1, s2}
  Ids = {a, b}
  MaxGeneration = 3
INVARIANTS
  NoDanglingRuntime
  RegistryTrue
PROPERTIES
  SupersededIsFreed
