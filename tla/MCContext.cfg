CONSTANTS
  MaxArgs = {2}
  MinArgs = {1}
  DefaultMax = 4
  DefaultMin = 1
  Workers = {w1, w2}
  Users = {u1}
  MaxTasks = 2
  MaxCallbacks = 2
  MaxGuards = 2
  NoHandle = NoHandle
SPECIFICATION ContextSpec
INVARIANTS
  NoLeak
  InstanceIsOwn
  PoolThreadClean
  ClosedWhenUnused
CHECK_DEADLOCK FALSE
