CONSTANTS
  Reads = {r1, r2, r3}
  Qd = 3
SPECIFICATION FairSpec
INVARIANTS MappedUntilReaped InflightCounts
PROPERTIES ImplementsBackend EveryReadAnswered
