SPECIFICATION Spec
CONSTANTS
  r1 = r1
  r2 = r2
  r3 = r3
  s1 = s1
  s2 = s2
  Reqs = {r1, r2, r3}
  Pages = {0, 1}
  PageOf <- MCPageOf
  Slots = {s1, s2}
  Window = 2
  FlushMin = 2
  NBuckets = 2
  BucketCap = 2
  Arena = 3
  RqEntries = 1
  CqEntries = 1
  Modulus = 2
  Gens = 2
  Configs <- SplitTimeoutConfigs
SYMMETRY Symmetric
CHECK_DEADLOCK FALSE
INVARIANTS
  FreeSlotIsReaped
