SPECIFICATION MCSpec
CONSTANTS
  n1 = n1
  n2 = n2
  c1 = c1
  c2 = c2
  Node = {n1, n2}
  Job <- MCJob
  NodeOf <- MCNodeOf
  Channel = {c1, c2}
  Server = {m1}
  StartTime = 1
  MaxTime = 2
  InitialPlans <- MCPlans
  Hours = 3
  HourLen = 1
  ChanCap = 1
  MaxEvents = 1
INVARIANTS TypeOK LockExclusive PlannedInstants
PROPERTIES PlannedRecorded
