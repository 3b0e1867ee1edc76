CONSTANTS
  a0 = a0
  a1 = a1
  a2 = a2
  b0 = b0
  b1 = b1
  Rows = {a0, a1, a2, b0, b1}
  BatchOf <- MCBatchOf
  PageOf <- MCPageOf
  s0 = s0
  s1 = s1
  Shards = {s0, s1}
  ShardOfPage <- MCShardOfPage
  Depth = 2
  x1 = x1
  x2 = x2
  Bufs = {x1, x2}
  Warps = 2
  Publish = 2
  Configs <- MCConfigs
SPECIFICATION FairSpec
INVARIANTS TypeOK HeldUntilGathered DrainedHasLanded
PROPERTY PushAndDrainReturn
