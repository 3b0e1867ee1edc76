SPECIFICATION Spec
CONSTANTS
  Addrs = {a1, a2}
  Regions = {r1, r2}
  MaxRegions = 2
  AutoMax = 1
  IoDepth = 3
  MaxDepth = 4
  Configs <- MCConfigs
INVARIANTS CtrlTypeOK AdminInStep QueuesLive RegistryHolds
PROPERTY HostServed
CHECK_DEADLOCK FALSE
