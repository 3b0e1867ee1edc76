CONSTANTS
  Lines = {l1, l2, l3, l4, l5}
  Units = 2
  PgsPerBlk = 2
  PgsPerFlashpg = 1
  PgsPerOneshot = 2
  SecsPerPg = 2
  NLpns = 3
  MaxNlb = 2
  WbSize = 4
  MaxSurplus = 2
  k1 = k1
  k2 = k2
  k3 = k3
  Keys = {k1, k2, k3}
  Vals = {v1, v2}
  Slots = 3
  Storage = 4
  IterRoom = 1
  KvConfigs <- MCKvConfigs
  Zones = {z1, z2}
  ZoneCap = 3
  ZnsOneshot = 2
  ZnsSecsPerPg = 2
  MaxWrite = 4
  MaxZnsSurplus = 4
  ZnsConfigs <- MCZnsConfigs
SPECIFICATION NsSpec
SYMMETRY NsSymmetry
CHECK_DEADLOCK FALSE
INVARIANTS NsTypeOK MapsAgree LinesAccounted LineForWriter BufferReturns CellsApart ScanComplete ZoneCounts ZoneBufferReturns
PROPERTY KvIsMap
