CONSTANTS
  c1 = c1
  c2 = c2
  c3 = c3
  d1 = d1
  Cmds = {c1, c2, c3, d1}
  Writes = {d1}
  QueueOf <- MCQueueOf
  SqSize = 3
  CqSize = 3
  MaxDue = 1
  BufSize = 1
  Configs <- SwitchConfigs
SPECIFICATION Spec
CHECK_DEADLOCK FALSE
INVARIANT CompletedOnce
